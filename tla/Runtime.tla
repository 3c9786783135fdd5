------------------------------- MODULE Runtime -------------------------------
(***************************************************************************)
(* The orchestration runtime (src/broccolidb/core/orchestration): sessions *)
(* plan repairs, execute them through one scheduler, verify them and roll  *)
(* them back.                                                              *)
(*                                                                         *)
(* A caller awaits each call of its session before the next one; callers   *)
(* of different sessions interleave at every await: between two directives *)
(* of an execution and inside a verification.  An execution is known by    *)
(* its number, and a file's content is the set of the executions whose     *)
(* edits it holds.                                                         *)
(***************************************************************************)
EXTENDS Naturals, FiniteSets, Sequences

CONSTANTS Sessions, Files,
          Plans,         \* the plans planRepairs may make
          SessionOf,     \* the session of a plan
          FilesOf,       \* the files its directives target (affectedFiles)
          Priority,      \* its priority: a smaller number runs first
          Risky,         \* the plans of an estimated risk above low
          Unwritable,    \* the files that at times cannot be written when restored
          Unsafe,        \* the plans with a directive outside SAFE_DIRECTIVES
          Policies,      \* the approval policies callers use
          MaxFiles,      \* maxFilesTouched, by mode
          MaxVerifyFailures, MaxRollbacks,   \* the other budgets
          MaxExecutes,   \* bound: calls of execute()
          MaxCalls       \* bound: calls of the other operations, and of these and
                         \* files not restored at such a failure

ASSUME RuntimeAssumption ==
    /\ SessionOf \in [Plans -> Sessions]
    /\ FilesOf \in [Plans -> SUBSET Files]
    /\ \A p \in Plans : IsFiniteSet(FilesOf[p])
    /\ Priority \in [Plans -> Nat]
    /\ Risky \subseteq Plans /\ Unsafe \subseteq Plans
    /\ MaxExecutes \in Nat /\ MaxCalls \in Nat
    /\ MaxVerifyFailures \in Nat /\ MaxRollbacks \in Nat

Modes == {"development", "ci", "readonly"}
Statuses == {"none", "running", "blocked", "awaiting_approval", "verifying",
             "failed", "completed", "rolled_back"}
Blockers == {"finding", "gate", "policy", "budget", "verification"}
Executions == 1..MaxExecutes

ASSUME BudgetAssumption == MaxFiles \in [Modes -> Nat]

VARIABLES
    life,       \* lifecycleState is 'started'
    mode,       \* runtimeMode
    status,     \* session.status, "none" when the runtime has no such session
    born,       \* session.runtimeMode
    node,       \* status in the session's node of the state graph
    marks,      \* the kinds of blocking nodes in the session's part of the graph
    planned,    \* plans made
    touched, failures, rollbacks,   \* ExecutionBudgetManager.sessionCounters
    queue,      \* SessionQueue.queue
    processing, \* RuntimeScheduler.processing
    active,     \* ConcurrencyGovernor.activeExecutions
    call,       \* the pending execute() or verify() of the session's caller
    last,       \* the last of session.executions, 0 when there is none
    latest,     \* the execution whose snapshots plan.rollbackStrategy names
    shots,      \* RollbackCoordinator.snapshots: file contents, by execution
    edited,     \* the files an execution has changed
    content,    \* the files on disk
    dirty, saved,   \* pendingFlushSessions; each session's newest snapshot
    count, calls,   \* calls of execute() and of the other operations so far
    ran, cut, undone, wiped, unrestored, owner, overlapped  \* history: see "History"

budget == <<touched, failures, rollbacks>>
graph == <<status, born, node, marks>>
disk == <<shots, edited, content>>
history == <<ran, cut, undone, wiped, unrestored, owner, overlapped>>
store == <<dirty, saved>>
vars == <<life, mode, graph, planned, budget, queue, processing, active, call,
          last, latest, disk, store, count, calls, history>>

NoShot == [f \in {} |-> {}]
Idle == [pc |-> "idle", id |-> 0, plan |-> 0, todo |-> {}, orphan |-> FALSE]
Executing(id, p, todo) ==
    [pc |-> "executing", id |-> id, plan |-> p, todo |-> todo, orphan |-> FALSE]
NoSnapshot == [status |-> "none", born |-> "development", marks |-> {}]
Zero == [s \in Sessions |-> 0]

-----------------------------------------------------------------------------
(* Policies, modes and budgets *)

\* The directives a mode lets run.
Directives(m) ==
    CASE m = "development" -> "all" [] m = "ci" -> "safe-only" [] OTHER -> "none"

\* ApprovalPolicyEngine.evaluate.
PolicyAllows(p, policy, approved) ==
    /\ policy \notin {"readonly", "production_locked"}
    /\ policy = "human_approval_required" => approved
    /\ policy = "autonomous_safe" => p \notin Risky
    /\ FilesOf[p] # {}

\* RuntimePolicyEngine.assertExecutionAllowed.
ExecutionAllowed(p, policy, approved) ==
    /\ Directives(mode) # "none"
    /\ Directives(mode) = "safe-only" => p \notin Unsafe
    /\ Cardinality(FilesOf[p]) <= MaxFiles[born[SessionOf[p]]]
    /\ PolicyAllows(p, policy, approved)

\* ExecutionBudgetManager.assertWithinBudget; old: the session outlived maxDurationMs.
WithinBudget(p, old) ==
    LET s == SessionOf[p] IN
    /\ ~old
    /\ touched[s] + Cardinality(FilesOf[p]) <= MaxFiles[born[s]]
    /\ failures[s] <= MaxVerifyFailures
    /\ rollbacks[s] <= MaxRollbacks

-----------------------------------------------------------------------------
(* The queue of the scheduler *)

\* SessionQueue.enqueue: by priority, then by age.
Enqueue(q, job) ==
    LET k == Cardinality({i \in DOMAIN q : Priority[q[i].plan] <= Priority[job.plan]})
    IN  SubSeq(q, 1, k) \o <<job>> \o SubSeq(q, k + 1, Len(q))

\* Mutant: a flag all schedulers share.
ReleaseShared(c) ==
    /\ active' = IF active > 0 THEN active - 1 ELSE 0
    /\ processing' = FALSE

\* The finally block of RuntimeScheduler.dispatch.  The execution of a stopped
\* runtime ends in the scheduler of its time, but in the same governor.
Release(c) ==
    /\ active' = IF active > 0 THEN active - 1 ELSE 0
    /\ processing' = IF c.orphan THEN processing ELSE FALSE

-----------------------------------------------------------------------------
(* Snapshots of files, and rolling back *)

\* Mutant: files that have a snapshot are not captured again.
SnapshotMissing(p) ==
    [f \in {g \in FilesOf[p] : \A id \in Executions : g \notin DOMAIN shots[id]} |-> content[f]]

\* RollbackCoordinator.snapshotBefore.
SnapshotBefore(p) == [f \in FilesOf[p] |-> content[f]]

\* Mutants: a finished execution is not restored, and restoring removes all edits.
RestoredUnlessDone(id, fails) ==
    [f \in Files |-> IF f \in DOMAIN shots[id] \ fails /\ id \notin ran THEN shots[id][f]
                                                                     ELSE content[f]]
RestoredClean(id, fails) ==
    [f \in Files |-> IF f \in DOMAIN shots[id] \ fails THEN {} ELSE content[f]]

\* RollbackCoordinator.restore; fails: the files that cannot be written.
Restored(id, fails) ==
    [f \in Files |-> IF f \in DOMAIN shots[id] \ fails THEN shots[id][f] ELSE content[f]]

\* History: the executions of a session that have edits in some of these files.
Own(s, files) == {id \in Executions : owner[id] = s /\ \E f \in files : id \in content[f]}

\* OrchestrationRuntime.performRollback: 'rolled_back' as soon as one file was
\* restored; st and nd are the session's status and node status if none was.
RollbackBut(s, id, fails, st, nd) ==
    LET back == DOMAIN shots[id] \ fails
        restores == back # {}
    IN
    /\ rollbacks' = [rollbacks EXCEPT ![s] = @ + 1]
    /\ content' = Restored(id, fails)
    /\ status' = [status EXCEPT ![s] = IF restores THEN "rolled_back" ELSE st]
    /\ node' = [node EXCEPT ![s] = IF restores THEN "rolled_back" ELSE nd]
    /\ undone' = [undone EXCEPT ![s] = IF restores THEN id ELSE @]
    /\ wiped' = IF restores THEN wiped \cup {id} \cup Own(s, back) ELSE wiped
    /\ unrestored' = unrestored \cup {<<id, f>> : f \in fails}
    /\ overlapped' = (overlapped \/ (restores /\ owner[id] # s))

Rollback(s, id, st, nd) ==
    \E fails \in SUBSET (DOMAIN shots[id] \cap Unwritable) :
        /\ fails = {} \/ calls + Cardinality(unrestored \cup {<<id, f>> : f \in fails}) <= MaxCalls
        /\ RollbackBut(s, id, fails, st, nd)

NoRollback(s, st, nd) ==
    /\ status' = [status EXCEPT ![s] = st]
    /\ node' = [node EXCEPT ![s] = nd]
    /\ UNCHANGED <<rollbacks, content, undone, wiped, unrestored, overlapped>>

-----------------------------------------------------------------------------
Init ==
    /\ life = TRUE /\ mode = "development"
    /\ status = [s \in Sessions |-> "none"] /\ node = status
    /\ born = [s \in Sessions |-> "development"]
    /\ marks = [s \in Sessions |-> {}]
    /\ planned = {} /\ touched = Zero /\ failures = Zero /\ rollbacks = Zero
    /\ queue = <<>> /\ processing = FALSE /\ active = 0
    /\ call = [s \in Sessions |-> Idle]
    /\ last = Zero /\ latest = [p \in Plans |-> 0]
    /\ shots = [id \in 0..MaxExecutes |-> NoShot]
    /\ edited = [id \in Executions |-> {}]
    /\ content = [f \in Files |-> {}]
    /\ dirty = {} /\ saved = [s \in Sessions |-> NoSnapshot]
    /\ count = 0 /\ calls = 0
    /\ ran = {} /\ cut = {} /\ wiped = {} /\ unrestored = {} /\ undone = Zero
    /\ owner = [id \in Executions |-> 0] /\ overlapped = FALSE

\* A call of an operation the bound MaxCalls counts.
Counted == calls < MaxCalls /\ calls' = calls + 1

Live(s) == life /\ status[s] # "none"
Ready(s) == Live(s) /\ call[s].pc = "idle"

SetMode(m) ==
    /\ life /\ m # mode /\ Counted
    /\ mode' = m
    /\ UNCHANGED <<life, graph, planned, budget, queue, processing, active,
                   call, last, latest, disk, store, count, history>>

BeginSession(s) ==
    /\ life /\ status[s] = "none" /\ call[s] = Idle
    /\ saved[s] = NoSnapshot /\ \A p \in planned : SessionOf[p] # s
    /\ status' = [status EXCEPT ![s] = "running"]
    /\ node' = [node EXCEPT ![s] = "running"]
    /\ born' = [born EXCEPT ![s] = mode]
    /\ UNCHANGED <<life, mode, marks, planned, budget, queue, processing, active,
                   call, last, latest, disk, store, count, calls, history>>

\* An audit with a finding of severity ERROR; others leave no blocker.
RecordAudit(s) ==
    /\ Live(s) /\ Counted
    /\ marks' = [marks EXCEPT ![s] = @ \cup {"finding"}]
    /\ dirty' = dirty \cup {s}
    /\ UNCHANGED <<life, mode, status, born, node, planned, budget, queue,
                   processing, active, call, last, latest, disk, saved, count, history>>

\* A gate that exited with an error; a later gate that passes clears nothing.
RecordGate(s) ==
    /\ Live(s) /\ Counted
    /\ marks' = [marks EXCEPT ![s] = @ \cup {"gate"}]
    /\ status' = [status EXCEPT ![s] = "blocked"]
    /\ node' = [node EXCEPT ![s] = "blocked"]
    /\ UNCHANGED <<life, mode, born, planned, budget, queue, processing, active,
                   call, last, latest, disk, store, count, history>>

PlanRepairs(p) ==
    /\ Ready(SessionOf[p]) /\ p \notin planned
    /\ planned' = planned \cup {p}
    /\ dirty' = dirty \cup {SessionOf[p]}
    /\ UNCHANGED <<life, mode, graph, budget, queue, processing, active, call,
                   last, latest, disk, saved, count, calls, history>>

RequestApproval(p) ==
    /\ Ready(SessionOf[p]) /\ p \in planned /\ Counted
    /\ status' = [status EXCEPT ![SessionOf[p]] = "awaiting_approval"]
    /\ node' = [node EXCEPT ![SessionOf[p]] = "awaiting_approval"]
    /\ UNCHANGED <<life, mode, born, marks, planned, budget, queue, processing,
                   active, call, last, latest, disk, store, count, history>>

-----------------------------------------------------------------------------
(* execute() *)

Calls(p) ==
    /\ Ready(SessionOf[p]) /\ p \in planned /\ count < MaxExecutes
    /\ count' = count + 1
    /\ UNCHANGED <<life, mode, born, planned, touched, failures, last, store, calls>>

\* The mode forbids every mutation.
ExecuteForbidden(p) ==
    /\ Calls(p)
    /\ Directives(mode) = "none"
    /\ marks' = [marks EXCEPT ![SessionOf[p]] = @ \cup {"policy"}]
    /\ UNCHANGED <<status, node, rollbacks, queue, processing, active, call,
                   latest, disk, history>>

\* RuntimeScheduler.schedule refuses: over budget.  The snapshots of the plan's
\* latest execution are restored.
ExecuteOverBudget(p, old) ==
    LET s == SessionOf[p] IN
    /\ Calls(p)
    /\ Directives(mode) # "none" /\ ~WithinBudget(p, old)
    /\ marks' = [marks EXCEPT ![s] = @ \cup {"budget"}]
    /\ IF latest[p] # 0 THEN Rollback(s, latest[p], "failed", "failed")
                        ELSE NoRollback(s, "failed", "failed")
    /\ UNCHANGED <<queue, processing, active, call, latest, shots, edited, ran,
                   cut, owner>>

\* RuntimeScheduler.schedule refuses: against the mode or the policy.
ExecuteAgainstPolicy(p, policy, approved) ==
    /\ Calls(p)
    /\ Directives(mode) # "none" /\ WithinBudget(p, FALSE)
    /\ ~ExecutionAllowed(p, policy, approved)
    /\ marks' = [marks EXCEPT ![SessionOf[p]] = @ \cup {"policy"}]
    /\ UNCHANGED <<status, node, rollbacks, queue, processing, active, call,
                   latest, disk, history>>

Schedules(p, policy, approved) ==
    /\ Calls(p)
    /\ WithinBudget(p, FALSE) /\ ExecutionAllowed(p, policy, approved)
    /\ UNCHANGED <<status, node, marks, rollbacks, edited, content, ran, cut, undone, wiped,
                   unrestored>>

\* Another execution is running: dispatch() returns null and execute() throws,
\* with the job left in the queue.
ExecuteRefused(p, policy, approved) ==
    /\ Schedules(p, policy, approved)
    /\ processing
    /\ queue' = Enqueue(queue, [plan |-> p, approved |-> approved])
    /\ UNCHANGED <<processing, active, call, latest, shots, owner, overlapped>>

\* dispatch() takes the first job of the queue, which may be another session's,
\* and runs it for this caller: its session, its policy (executeJob).
ExecuteDispatched(p, policy, approved) ==
    LET s == SessionOf[p]
        q == Enqueue(queue, [plan |-> p, approved |-> approved])
        job == Head(q)
        id == count + 1
        shares(other) == /\ owner[other] # s
                         /\ DOMAIN shots[other] \cap FilesOf[job.plan] # {}
    IN
    /\ Schedules(p, policy, approved)
    /\ ~processing
    /\ queue' = Tail(q)
    /\ IF PolicyAllows(job.plan, policy, job.approved)
       THEN /\ processing' = TRUE
            /\ active' = active + 1
            /\ shots' = [shots EXCEPT ![id] = SnapshotBefore(job.plan)]
            /\ latest' = [latest EXCEPT ![job.plan] = id]
            /\ call' = [call EXCEPT ![s] = Executing(id, job.plan, FilesOf[job.plan])]
            /\ owner' = [owner EXCEPT ![id] = s]
            /\ overlapped' = (overlapped \/ \E other \in Executions : shares(other))
       ELSE \* assertAllowed throws: the job is lost
            UNCHANGED <<processing, active, shots, latest, call, owner, overlapped>>

\* RepairExecutor.execute: one directive, of those that write their file.
ApplyDirective(s, f) ==
    LET id == call[s].id IN
    /\ call[s].pc = "executing" /\ f \in call[s].todo
    /\ call' = [call EXCEPT ![s].todo = @ \ {f}]
    /\ content' = [content EXCEPT ![f] = @ \cup {id}]
    /\ edited' = [edited EXCEPT ![id] = @ \cup {f}]
    /\ UNCHANGED <<life, mode, graph, planned, budget, queue, processing, active,
                   last, latest, shots, store, count, calls, history>>

\* A directive throws: the catch block of executeJob.  An execution that outlived
\* stop() finds its snapshots gone, and its session is another object.
ExecutionFails(s) ==
    LET id == call[s].id IN
    /\ call[s].pc = "executing" /\ call[s].todo # {}
    /\ call' = [call EXCEPT ![s] = Idle]
    /\ Release(call[s])
    /\ IF call[s].orphan
       THEN /\ rollbacks' = [rollbacks EXCEPT ![s] = @ + 1]
            /\ UNCHANGED <<status, node, content, undone, wiped, unrestored, overlapped>>
       ELSE Rollback(s, id, "failed", node[s])
    /\ UNCHANGED <<life, mode, born, marks, planned, touched, failures, queue,
                   last, latest, shots, edited, store, count, calls, ran, cut, owner>>

ExecutionSucceeds(s) ==
    LET id == call[s].id IN
    /\ call[s].pc = "executing" /\ call[s].todo = {}
    /\ call' = [call EXCEPT ![s] = Idle]
    /\ Release(call[s])
    /\ touched' = [touched EXCEPT ![s] = @ + Cardinality(FilesOf[call[s].plan])]
    /\ node' = [node EXCEPT ![s] = IF @ = "none" THEN @ ELSE "verifying"]
    /\ IF call[s].orphan
       THEN UNCHANGED <<status, last>>
       ELSE /\ status' = [status EXCEPT ![s] = "verifying"]
            /\ last' = [last EXCEPT ![s] = id]
    /\ ran' = ran \cup {id}
    /\ UNCHANGED <<life, mode, born, marks, planned, failures, rollbacks, queue,
                   latest, disk, store, count, calls, cut, undone, wiped, unrestored,
                   owner, overlapped>>

-----------------------------------------------------------------------------
(* verify() *)

\* The caller holds an execution of the session; the audit, the gate and the
\* invariants are awaited.
VerifyStarts(s) ==
    /\ Ready(s) /\ Counted /\ (\E id \in ran : owner[id] = s)
    /\ call' = [call EXCEPT ![s].pc = "verifying"]
    /\ UNCHANGED <<life, mode, graph, planned, budget, queue, processing, active,
                   last, latest, disk, store, count, history>>

\* The findings of a verification become blocking nodes like those of an audit:
\* those it introduced, and those it resolved.
MarksAfter(s, passed, errors) ==
    marks[s] \cup (IF passed THEN {} ELSE {"verification"})
             \cup (IF errors THEN {"finding"} ELSE {})

Completes(s, passed, errors) ==
    passed /\ MarksAfter(s, passed, errors) = {} /\ status[s] # "awaiting_approval"

Verified(s, passed, errors) ==
    /\ call[s].pc = "verifying"
    /\ call' = [call EXCEPT ![s] = Idle]
    /\ marks' = [marks EXCEPT ![s] = MarksAfter(s, passed, errors)]
    /\ dirty' = dirty \cup {s}
    /\ UNCHANGED <<life, mode, born, planned, touched, queue, processing, active,
                   last, latest, edited, saved, count, calls, ran, cut, owner>>

VerifyCompletes(s, errors) ==
    /\ Completes(s, TRUE, errors)
    /\ Verified(s, TRUE, errors)
    /\ NoRollback(s, "completed", "completed")
    /\ shots' = [shots EXCEPT ![last[s]] = NoShot]
    /\ UNCHANGED failures

\* Verification failed, or it passed and blockers are open: the last execution
\* of the session is rolled back.
VerifyRejects(s, passed, errors) ==
    LET st == IF passed THEN "blocked" ELSE "failed" IN
    /\ ~Completes(s, passed, errors)
    /\ Verified(s, passed, errors)
    /\ failures' = [failures EXCEPT ![s] = IF passed THEN @ ELSE @ + 1]
    /\ IF last[s] # 0 THEN Rollback(s, last[s], st, node[s]) ELSE NoRollback(s, st, node[s])
    /\ UNCHANGED shots

-----------------------------------------------------------------------------
(* Persistence and life cycle *)

\* RuntimeSnapshotStore.save.
Snapshot(s, m) == [status |-> node[s], born |-> m, marks |-> marks[s]]

\* RuntimeGraphStore.flush: every snapshot is of mode 'development'.
Flushed ==
    [s \in Sessions |-> IF s \in dirty THEN Snapshot(s, "development") ELSE saved[s]]

TakeSnapshot(s) ==
    /\ Live(s) /\ Counted
    /\ saved' = [saved EXCEPT ![s] = Snapshot(s, mode)]
    /\ dirty' = dirty \cup {s}
    /\ UNCHANGED <<life, mode, graph, planned, budget, queue, processing, active,
                   call, last, latest, disk, count, history>>

Flush ==
    /\ life /\ dirty # {} /\ Counted
    /\ saved' = Flushed /\ dirty' = {}
    /\ UNCHANGED <<life, mode, graph, planned, budget, queue, processing, active,
                   call, last, latest, disk, count, history>>

\* Running executions go on; a pending verification throws when it returns.
Stop ==
    LET running == {s \in Sessions : call[s].pc = "executing"} IN
    /\ life /\ Counted
    /\ life' = FALSE
    /\ saved' = Flushed /\ dirty' = {}
    /\ status' = [s \in Sessions |-> "none"] /\ node' = status'
    /\ marks' = [s \in Sessions |-> {}]
    /\ touched' = Zero /\ failures' = Zero /\ rollbacks' = Zero
    /\ queue' = <<>> /\ processing' = FALSE /\ active' = 0
    /\ call' = [s \in Sessions |-> IF s \in running THEN [call[s] EXCEPT !.orphan = TRUE]
                                                   ELSE Idle]
    /\ last' = Zero /\ shots' = [id \in 0..MaxExecutes |-> NoShot]
    /\ cut' = cut \cup {call[s].id : s \in running}
    /\ undone' = Zero
    /\ UNCHANGED <<mode, born, planned, latest, edited, content, count, ran, wiped,
                   unrestored, owner, overlapped>>

\* start() and restorePersistedSessions: the newest snapshot of every session,
\* without its audits, executions and verifications, and with fresh budgets.
Start ==
    /\ ~life
    /\ life' = TRUE
    /\ status' = [s \in Sessions |-> saved[s].status] /\ node' = status'
    /\ born' = [s \in Sessions |-> saved[s].born]
    /\ marks' = [s \in Sessions |-> saved[s].marks]
    /\ UNCHANGED <<mode, planned, budget, queue, processing, active, call, last,
                   latest, disk, store, count, calls, history>>

Execute(p) ==
    \/ ExecuteForbidden(p)
    \/ \E old \in BOOLEAN : ExecuteOverBudget(p, old)
    \/ \E policy \in Policies, approved \in BOOLEAN :
          /\ approved => policy = "human_approval_required"
          /\ \/ ExecuteAgainstPolicy(p, policy, approved)
             \/ ExecuteRefused(p, policy, approved)
             \/ ExecuteDispatched(p, policy, approved)

Verify(s) ==
    \/ VerifyStarts(s)
    \/ \E errors \in BOOLEAN :
          \/ VerifyCompletes(s, errors)
          \/ \E passed \in BOOLEAN : VerifyRejects(s, passed, errors)

Next ==
    \/ \E p \in Plans : PlanRepairs(p) \/ RequestApproval(p) \/ Execute(p)
    \/ \E s \in Sessions :
          \/ BeginSession(s) \/ RecordAudit(s) \/ RecordGate(s)
          \/ \E f \in Files : ApplyDirective(s, f)
          \/ ExecutionFails(s) \/ ExecutionSucceeds(s)
          \/ Verify(s) \/ TakeSnapshot(s)
    \/ \E m \in Modes : SetMode(m)
    \/ Flush \/ Stop \/ Start

Spec == Init /\ [][Next]_vars

-----------------------------------------------------------------------------
(* Properties.  History: ran are the executions that were reported as done,   *)
(* cut those a stop() overtook; undone is the execution whose rollback made   *)
(* its session 'rolled_back', wiped has all of those and those whose edits    *)
(* their own session overwrote with one, unrestored the executions with the   *)
(* files a rollback could not restore, owner is the session of an execution.  *)
(* overlapped says that sessions were not apart: an execution touched a file  *)
(* of which another session still held a snapshot, or a session over budget   *)
(* rolled its plan back and that was executed by another.                     *)

Running == {s \in Sessions : call[s].pc = "executing"}
Unrestored(f) == {id \in Executions : <<id, f>> \in unrestored}

\* The state is well typed, and a session that is not in a call remembers none.
TypeOK ==
    /\ life \in BOOLEAN /\ mode \in Modes /\ processing \in BOOLEAN /\ overlapped \in BOOLEAN
    /\ status \in [Sessions -> Statuses] /\ node \in [Sessions -> Statuses]
    /\ born \in [Sessions -> Modes] /\ marks \in [Sessions -> SUBSET Blockers]
    /\ planned \subseteq Plans
    /\ {touched, failures, rollbacks} \subseteq [Sessions -> Nat] /\ active \in Nat
    /\ queue \in Seq([plan : Plans, approved : BOOLEAN])
    /\ \A s \in Sessions :
          \/ call[s] = Idle
          \/ /\ call[s].pc = "verifying" /\ call[s].id = 0
          \/ /\ call[s].pc = "executing" /\ call[s].id \in Executions
             /\ call[s].plan \in Plans /\ call[s].todo \subseteq FilesOf[call[s].plan]
    /\ last \in [Sessions -> 0..MaxExecutes] /\ latest \in [Plans -> 0..MaxExecutes]
    /\ \A id \in 0..MaxExecutes : DOMAIN shots[id] \subseteq Files
    /\ content \in [Files -> SUBSET Executions] /\ edited \in [Executions -> SUBSET Files]
    /\ dirty \subseteq Sessions /\ count \in 0..MaxExecutes /\ calls \in 0..MaxCalls
    /\ {ran, cut, wiped} \subseteq SUBSET Executions
    /\ unrestored \subseteq Executions \X Files

\* One execution at a time in the running runtime, in whichever order those of
\* several sessions start, fail and end; those that stop() overtook go on.
SerialMutations ==
    LET current == {s \in Running : ~call[s].orphan} IN
    /\ TypeOK
    /\ Cardinality(current) = IF processing THEN 1 ELSE 0

\* An execution that failed leaves nothing on disk: every edit belongs to an
\* execution that was reported as done or still runs, unless stop() overtook it
\* or its rollback could not restore that file.
NoHalfEdits ==
    \A f \in Files :
        content[f] \subseteq ran \cup cut \cup Unrestored(f) \cup {call[s].id : s \in Running}

\* A session that says 'rolled_back' has none of the edits it rolled back on
\* disk but in files that could not be restored, unless sessions overlapped.
RolledBackIsGone ==
    ~overlapped => \A s \in Sessions, f \in Files :
        status[s] = "rolled_back" /\ undone[s] \in content[f] => undone[s] \in Unrestored(f)

\* The edits of a completed session's last execution stay on disk, whatever other
\* sessions execute and roll back, unless sessions overlapped or the session
\* itself rolled back over them before.
CompletedStays ==
    ~overlapped => \A s \in Sessions :
        status[s] = "completed" /\ last[s] \notin wiped \cup {0} =>
            \A f \in edited[last[s]] : last[s] \in content[f]

\* A verification that passed does not undo the repair it verified.
PassedIsKept ==
    [][\A s \in Sessions : (\E errors \in BOOLEAN : VerifyRejects(s, TRUE, errors))
                             => status'[s] # "rolled_back"]_vars
=============================================================================

------------------------------ MODULE Executor ------------------------------
(***************************************************************************)
(* ActionExecutor (core/executor.ts) and TaskMutex (core/mutex.ts): how    *)
(* every call on a repository is run.  execute() takes one of a fixed      *)
(* number of slots, races the operation against a timeout and retries it   *)
(* after a transient error.  Calls nest: merge(), rebase(), stashPop() and *)
(* every MCP tool hold a slot while each commit() they make asks for a     *)
(* slot of its own, and they go on when it has returned: to the next       *)
(* commit(), or to reads and writes that may fail.  The operation of a     *)
(* commit runs under the TaskMutex of its branch.                          *)
(*                                                                         *)
(* A frame is one execute(): the outer one of a nested call, or the inner  *)
(* one that commits.  A frame that times out leaves its slot, but nothing  *)
(* stops the operation it started.                                         *)
(***************************************************************************)
EXTENDS Integers, Sequences, FiniteSets, SequencesExt

CONSTANTS Calls,     \* the calls made on the repository
          Nested,    \* those whose commits are made by an outer execute()
          Commits,   \* how many commits one attempt of a call makes
          Keys, KeyOf, \* the branch mutexes, and the one each call commits under
          Slots,     \* MAX_CONCURRENCY
          MaxTries   \* maxRetries

ASSUME ExecutorAssumption ==
  /\ IsFiniteSet(Calls)
  /\ Nested \subseteq Calls
  /\ Commits \in [Calls -> Nat \ {0}]
  /\ \A c \in Calls \ Nested : Commits[c] = 1
  /\ KeyOf \in [Calls -> Keys]
  /\ Slots \in Nat \ {0}
  /\ MaxTries \in Nat \ {0}

VARIABLES frame,   \* where each execute() is
          tries,   \* its failed attempts
          op,      \* where the operation it started is
          active,  \* activeOperations
          queue,   \* frames that wait for a slot
          chain,   \* per key, the operations that hold or wait for the mutex
          made,    \* commits the attempt of an outer operation has made
          landed,  \* history: how many commits of each call took effect
          before   \* history: those before its last attempt began

counts == <<made, landed, before>>
vars == <<frame, tries, op, active, queue, chain, counts>>

Frames == (Nested \X {"outer"}) \cup (Calls \X {"inner"})
Inner(c) == <<c, "inner">>
Top(c) == IF c \in Nested THEN <<c, "outer">> ELSE Inner(c)
Key(f) == KeyOf[f[1]]

\* "busy" is an error isRetryableError() accepts; "error" is any other one.
Ended == {"ok", "busy", "error"}
FrameStates == {"idle", "queued", "woken", "running", "backoff"} \cup Ended
OpStates == {"none", "calling", "waiting", "body"} \cup Ended

Init ==
  /\ frame = [f \in Frames |-> "idle"]
  /\ tries = [f \in Frames |-> 0]
  /\ op = [f \in Frames |-> "none"]
  /\ active = 0
  /\ queue = <<>>
  /\ chain = [k \in Keys |-> <<>>]
  /\ made = [c \in Calls |-> 0]
  /\ landed = made
  /\ before = made

-----------------------------------------------------------------------------
(* Slots *)

\* The operation starts as soon as the slot is taken: an outer one goes on to
\* its first commit(), an inner one joins the chain of its mutex.
Begins(f) ==
  /\ active' = active + 1
  /\ landed' = landed
  /\ \/ /\ f[2] = "outer"
        /\ op' = [op EXCEPT ![f] = "calling"]
        /\ made' = [made EXCEPT ![f[1]] = 0]
        /\ before' = [before EXCEPT ![f[1]] = landed[f[1]]]
        /\ chain' = chain
     \/ /\ f[2] = "inner"
        /\ op' = [op EXCEPT ![f] = "waiting"]
        /\ chain' = [chain EXCEPT ![Key(f)] = Append(@, f)]
        /\ UNCHANGED <<made, before>>

\* withConcurrency() up to the operation.
Asks(f) ==
  \/ /\ active < Slots
     /\ frame' = [frame EXCEPT ![f] = "running"]
     /\ Begins(f)
     /\ queue' = queue
  \/ /\ active >= Slots
     /\ frame' = [frame EXCEPT ![f] = "queued"]
     /\ queue' = Append(queue, f)
     /\ UNCHANGED <<active, op, chain, counts>>

ReleaseUnwoken(f, to) ==
  /\ active' = active - 1
  /\ frame' = [frame EXCEPT ![f] = to]
  /\ queue' = queue

\* The finally block: the slot is given back and the first waiter is woken.
\* It resumes in a later turn of the event loop and takes its slot then.
Release(f, to) ==
  /\ active' = active - 1
  /\ frame' = [g \in Frames |-> IF g = f THEN to
                                ELSE IF queue # <<>> /\ g = Head(queue) THEN "woken"
                                ELSE frame[g]]
  /\ queue' = IF queue = <<>> THEN queue ELSE Tail(queue)

\* A caller calls, or the operation of an outer frame makes its next commit,
\* also when that outer frame has timed out meanwhile.
Execute(f) ==
  /\ frame[f] = "idle"
  /\ f # Top(f[1]) => op[Top(f[1])] = "calling" /\ made[f[1]] < Commits[f[1]]
  /\ Asks(f)
  /\ UNCHANGED tries

\* A woken frame takes a slot without looking at the counter again.
Resume(f) ==
  /\ frame[f] = "woken"
  /\ frame' = [frame EXCEPT ![f] = "running"]
  /\ Begins(f)
  /\ UNCHANGED <<tries, queue>>

-----------------------------------------------------------------------------
(* Retry and timeout *)

RetryableWithTimeouts == {"busy", "error"}
Retryable == {"busy"}

\* The operation has settled before the timeout.
Settle(f) ==
  /\ frame[f] = "running"
  /\ op[f] \in Ended
  /\ tries' = [tries EXCEPT ![f] = @ + 1]
  /\ Release(f, IF op[f] \in Retryable /\ tries[f] + 1 < MaxTries
                THEN "backoff" ELSE op[f])
  /\ UNCHANGED <<op, chain, counts>>

\* withTimeout() rejects: a plain error, to the check for retries.  The
\* operation goes on.
TimeOut(f) ==
  /\ frame[f] = "running"
  /\ op[f] \notin Ended
  /\ tries' = [tries EXCEPT ![f] = @ + 1]
  /\ Release(f, IF "error" \in Retryable /\ tries[f] + 1 < MaxTries
                THEN "backoff" ELSE "error")
  /\ UNCHANGED <<op, chain, counts>>

Retry(f) ==
  /\ frame[f] = "backoff"
  /\ Asks(f)
  /\ UNCHANGED tries

\* commit() returns to the operation of the outer frame, which goes on after a
\* commit and ends with its error.
InnerReturns(c) ==
  LET o == <<c, "outer">> IN
  /\ c \in Nested
  /\ op[o] = "calling"
  /\ frame[Inner(c)] \in Ended
  /\ \/ /\ frame[Inner(c)] = "error"
        /\ op' = [op EXCEPT ![o] = "error"]
        /\ UNCHANGED <<frame, tries, made>>
     \/ /\ frame[Inner(c)] # "error"
        /\ frame' = [frame EXCEPT ![Inner(c)] = "idle"]
        /\ tries' = [tries EXCEPT ![Inner(c)] = 0]
        /\ \/ /\ frame[Inner(c)] = "ok"
              /\ op' = [op EXCEPT ![Inner(c)] = "none"]
              /\ made' = [made EXCEPT ![c] = @ + 1]
           \/ /\ frame[Inner(c)] = "busy"
              /\ op' = [op EXCEPT ![o] = "busy", ![Inner(c)] = "none"]
              /\ made' = made
  /\ UNCHANGED <<active, queue, chain, landed, before>>

\* The outer operation is over when all its commits are made, or fails before,
\* between or after them.
OuterEnds(c) ==
  LET o == <<c, "outer">> IN
  /\ c \in Nested
  /\ op[o] = "calling"
  /\ frame[Inner(c)] = "idle"
  /\ \E how \in Ended :
       /\ how = "ok" => made[c] = Commits[c]
       /\ op' = [op EXCEPT ![o] = how]
  /\ UNCHANGED <<frame, tries, active, queue, chain, counts>>

-----------------------------------------------------------------------------
(* TaskMutex.runExclusive() *)

LeavesNobody(f) == chain' = [chain EXCEPT ![Key(f)] = <<>>]
Leaves(f) == \E i \in DOMAIN chain[Key(f)] :
               /\ chain[Key(f)][i] = f
               /\ chain' = [chain EXCEPT ![Key(f)] = RemoveAt(@, i)]

\* Each entry of the chain waits for every earlier one to be released.
MayEnter(f) == IsPrefix(<<f>>, chain[Key(f)])

Enter(f) ==
  /\ op[f] = "waiting"
  /\ MayEnter(f)
  /\ op' = [op EXCEPT ![f] = "body"]
  /\ UNCHANGED <<frame, tries, active, queue, chain, counts>>

LockTimeout(f) ==
  /\ op[f] = "waiting"
  /\ ~ MayEnter(f)
  /\ op' = [op EXCEPT ![f] = "error"]
  /\ Leaves(f)
  /\ UNCHANGED <<frame, tries, active, queue, counts>>

\* The commit lands, or fails and is rolled back.
BodyEnds(f) ==
  /\ op[f] = "body"
  /\ \E how \in Ended :
       /\ op' = [op EXCEPT ![f] = how]
       /\ landed' = [landed EXCEPT ![f[1]] = @ + (IF how = "ok" THEN 1 ELSE 0)]
  /\ Leaves(f)
  /\ UNCHANGED <<frame, tries, active, queue, made, before>>

Step(f) == \/ Execute(f) \/ Resume(f) \/ Settle(f) \/ Retry(f)
           \/ Enter(f) \/ InnerReturns(f[1])
Timer(f) == TimeOut(f) \/ LockTimeout(f)

Next == \E f \in Frames : Step(f) \/ Timer(f) \/ BodyEnds(f) \/ OuterEnds(f[1])

\* The event loop resumes what is ready and fires its timers.  Nothing makes
\* a commit or an outer operation end: BodyEnds and OuterEnds have no fairness.
Fairness == \A f \in Frames : WF_vars(Step(f)) /\ WF_vars(Timer(f))

Spec == Init /\ [][Next]_vars /\ Fairness

-----------------------------------------------------------------------------
(* Properties *)

\* The state is well typed, and `active` counts exactly the frames that run: the
\* two decrements (a frame that ends, a frame that waits for a nested call) are
\* never taken twice for one increment.
TypeOK ==
  /\ frame \in [Frames -> FrameStates]
  /\ tries \in [Frames -> 0 .. MaxTries]
  /\ op \in [Frames -> OpStates]
  /\ active = Cardinality({f \in Frames : frame[f] = "running"})
  /\ queue \in Seq(Frames)
  /\ chain \in [Keys -> Seq(Frames)]
  /\ made \in [Calls -> Nat]
  /\ landed \in [Calls -> Nat]
  /\ before \in [Calls -> Nat]

\* TaskMutex: two operations are never inside the section of one key, however
\* many waiters have timed out and whoever of their callers has given up, and
\* the slots in use are those of the calls that run (TypeOK).
KeyExclusive ==
  /\ TypeOK
  /\ \A f, g \in Frames : op[f] = "body" /\ op[g] = "body" /\ Key(f) = Key(g) => f = g

\* Whatever is retried at two levels and whoever gives up, a direct commit takes
\* effect at most once, a nested call makes each of its commits at most once in an
\* attempt, and one that is reported as done has made all of them in its last: a
\* commit that is retried has had no effect, and what timed out is not retried.
\* Not so across the attempts of a nested call: its operation may fail with a
\* busy error after commits that stay (`before`), and the next makes them anew.
OnceOnly == \A c \in Calls :
  /\ c \notin Nested => landed[c] <= 1
  /\ landed[c] <= before[c] + Commits[c]
  /\ frame[Top(c)] = "ok" => landed[c] = before[c] + Commits[c]

\* Every call settles, also when all slots are held by calls that wait for a
\* slot, and when a commit hangs: the timeouts free the slots, each freed slot
\* wakes a waiter, and no waiter is forgotten.
CallsSettle ==
  \A c \in Calls : frame[Top(c)] # "idle" ~> frame[Top(c)] \in Ended

=============================================================================

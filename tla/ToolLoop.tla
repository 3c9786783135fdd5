------------------------------ MODULE ToolLoop ------------------------------
(***************************************************************************)
(* QueryLoop and StreamingToolExecutor: an agent's turns.  Each answer of  *)
(* the AI may ask for a batch of tool calls.  Calls of reading tools run   *)
(* in parallel, a window of them at a time; any other call runs alone, and *)
(* the file it changed is mirrored into Spider's graph afterwards.  A call *)
(* that exceeds its timeout is answered with an error, but its tool goes   *)
(* on: what it does later is in late.                                      *)
(*                                                                         *)
(* All calls are about one file.  Its content is named by the call that    *)
(* wrote it; calls are numbered through all rounds.  The executor's        *)
(* options have their defaults: the forensic gates only warn.              *)
(***************************************************************************)
EXTENDS Integers, Sequences, SequencesExt

CONSTANTS
    Batches,          \* the sequences of calls an answer may ask for
    MaxCalls,         \* the length of the longest of them
    MaxTurns,         \* run()'s bound
    MaxToolRounds,
    MaxParallelReads

Kinds == {"read", "write", "remove"}

ASSUME ToolLoopAssumption ==
    /\ Batches \subseteq Seq(Kinds) /\ <<>> \notin Batches
    /\ MaxCalls \in Nat /\ \A batch \in Batches : Len(batch) <= MaxCalls
    /\ MaxTurns \in Nat /\ MaxToolRounds \in Nat
    /\ MaxParallelReads \in Nat \ {0}

VARIABLES
    pc,       \* "turn", "ai", "batch", "ended"
    status,
    turn,     \* turnCount
    rounds,   \* toolRounds
    calls,    \* the kinds of all calls so far
    base,     \* how many of them belong to earlier rounds
    next,     \* the call executeBatch looks at
    window,   \* readBatch: the calls whose promises it holds
    results,  \* toolResults of this round
    ex,       \* where the execution of each call is
    answer,   \* how each call was answered; "ok" means mirrored, for a change
    saw,      \* what each call read from the file (by its tool or to mirror it)
    late,     \* timed-out calls whose tools have not changed the file yet
    file,     \* the content of the file, and the call that changed it last
    writer,
    mirror,   \* what the graph shows
    broken    \* applyChanges has thrown

loopVars == <<pc, status, turn, rounds, calls, base>>
batchVars == <<next, window, results>>
toolVars == <<ex, answer, saw, late, file, writer, mirror, broken>>
vars == <<loopVars, batchVars, toolVars>>

Calls == 1..Len(calls)
Gone == -1
Contents == 0..Len(calls) \cup {Gone}

(* The state is well typed: what executeBatch holds belongs to this round,  *)
(* no more than MaxParallelReads reads are started before their results are *)
(* taken, and results come in the order of the calls, each once.            *)
TypeOK ==
    /\ pc \in {"turn", "ai", "batch", "ended"}
    /\ status \in {"active", "completed", "failed"}
    /\ turn \in 0..MaxTurns /\ rounds \in 0..MaxToolRounds
    /\ calls \in Seq(Kinds) /\ base \in 0..Len(calls)
    /\ next \in base + 1 .. Len(calls) + 1
    /\ window \in Seq(base + 1 .. Len(calls)) /\ Len(window) <= MaxParallelReads
    /\ Len(results) <= Len(calls) - base /\ \A i \in DOMAIN results : results[i] = base + i
    /\ ex \in [Calls -> {"idle", "checked", "running", "ran", "readback", "apply", "fallback",
                         "done"}]
    /\ answer \in [Calls -> {"none", "ok", "unmirrored", "error"}]
    /\ saw \in [Calls -> Contents]
    /\ late \subseteq Calls
    /\ file \in Contents /\ writer \in 0..Len(calls) /\ mirror \in Contents
    /\ broken \in BOOLEAN

Init ==
    /\ pc = "turn" /\ status = "active"
    /\ turn = 0 /\ rounds = 0
    /\ calls = <<>> /\ base = 0
    /\ next = 1 /\ window = <<>> /\ results = <<>>
    /\ ex = <<>> /\ answer = <<>> /\ saw = <<>>
    /\ late = {}
    /\ file = 0 /\ writer = 0 /\ mirror = 0
    /\ broken = FALSE

-----------------------------------------------------------------------------
(* QueryLoop.run                                                            *)

LoopOnly == UNCHANGED <<rounds, calls, base, batchVars, toolVars>>

StartTurn ==
    /\ pc = "turn" /\ pc' = "ai"
    /\ status = "active" /\ turn < MaxTurns
    /\ turn' = turn + 1
    /\ UNCHANGED status /\ LoopOnly

(* The loop is over.  Whatever its status, the last turn makes it failed.   *)
EndLoop ==
    /\ pc = "turn" /\ pc' = "ended"
    /\ status # "active" \/ turn >= MaxTurns
    /\ status' = IF turn >= MaxTurns THEN "failed" ELSE status
    /\ UNCHANGED turn /\ LoopOnly

(* The AI gives no answer: run() throws.                                    *)
NoAnswer ==
    /\ pc = "ai" /\ pc' = "ended"
    /\ status' = "failed"
    /\ UNCHANGED turn /\ LoopOnly

(* An answer without tool calls ends the loop, unless it spawns a worker.   *)
PlainAnswer ==
    /\ pc = "ai" /\ pc' = "turn"
    /\ status' \in {"active", "completed"}
    /\ UNCHANGED turn /\ LoopOnly

TooManyRounds ==
    /\ pc = "ai" /\ pc' = "turn"
    /\ rounds >= MaxToolRounds
    /\ status' = "failed"
    /\ UNCHANGED turn /\ LoopOnly

(* A round of tool calls: executeBatch starts with an empty window.         *)
StartBatch(batch) ==
    /\ pc = "ai" /\ pc' = "batch"
    /\ rounds < MaxToolRounds /\ rounds' = rounds + 1
    /\ calls' = calls \o batch
    /\ base' = Len(calls) /\ next' = Len(calls) + 1
    /\ window' = <<>> /\ results' = <<>>
    /\ ex' = ex \o [i \in DOMAIN batch |-> "idle"]
    /\ answer' = answer \o [i \in DOMAIN batch |-> "none"]
    /\ saw' = saw \o [i \in DOMAIN batch |-> 0]
    /\ UNCHANGED <<status, turn, late, file, writer, mirror, broken>>

-----------------------------------------------------------------------------
(* executeBatch                                                             *)

BatchOnly == UNCHANGED <<loopVars, answer, saw, late, file, writer, mirror, broken>>

(* The call executeBatch looks at, of a reading tool or of another.         *)
AtRead == next \in Calls /\ calls[next] = "read"
AtChange == next \in Calls /\ calls[next] # "read"

WindowFull == Len(window) >= MaxParallelReads

(* A read is started, and its promise pushed.                               *)
LaunchRead ==
    /\ pc = "batch" /\ AtRead /\ ~WindowFull
    /\ ex' = [ex EXCEPT ![next] = "checked"]
    /\ window' = Append(window, next)
    /\ next' = next + 1
    /\ UNCHANGED results /\ BatchOnly

(* flushReads(): Promise.all, then the results in the order of the calls.   *)
FlushReads ==
    /\ pc = "batch" /\ window # <<>>
    /\ ~AtRead \/ WindowFull
    /\ \A c \in ToSet(window) : ex[c] = "done"
    /\ results' = results \o window
    /\ window' = <<>>
    /\ UNCHANGED <<next, ex>> /\ BatchOnly

(* Another call starts when the window is empty.  Mutated form: at once.    *)
LaunchAnyway ==
    /\ pc = "batch" /\ AtChange /\ ex[next] = "idle"
    /\ ex' = [ex EXCEPT ![next] = "checked"]
    /\ UNCHANGED batchVars /\ BatchOnly
LaunchChange == window = <<>> /\ LaunchAnyway

YieldChange ==
    /\ pc = "batch" /\ AtChange /\ window = <<>>
    /\ ex[next] = "done"
    /\ results' = Append(results, next)
    /\ next' = next + 1
    /\ UNCHANGED <<window, ex>> /\ BatchOnly

(* After the last flush the results become a message, and the loop goes on. *)
EndBatch ==
    /\ pc = "batch" /\ pc' = "turn"
    /\ next = Len(calls) + 1 /\ window = <<>>
    /\ UNCHANGED <<status, turn, rounds, calls, base, batchVars, toolVars>>

-----------------------------------------------------------------------------
(* execute: one call                                                        *)

CallOnly == UNCHANGED <<loopVars, batchVars>>
Untouched == UNCHANGED <<saw, late, file, writer, mirror, broken>> /\ CallOnly

Goto(c, to) == ex' = [ex EXCEPT ![c] = to] /\ UNCHANGED answer
Finish(c, a) == ex' = [ex EXCEPT ![c] = "done"] /\ answer' = [answer EXCEPT ![c] = a]

(* Unknown tool, invalid input, or a path outside the workspace.            *)
Refuse(c) == ex[c] = "checked" /\ Finish(c, "error") /\ Untouched

Admit(c) == ex[c] = "checked" /\ Goto(c, "running") /\ Untouched

(* What a tool does to the file, on time or late.                           *)
Changes(c) ==
    /\ file' = IF calls[c] = "remove" THEN Gone ELSE c
    /\ writer' = c

ToolReads(c) ==
    /\ ex[c] = "running" /\ calls[c] = "read"
    /\ Goto(c, "ran")
    /\ saw' = [saw EXCEPT ![c] = writer]
    /\ UNCHANGED <<late, file, writer, mirror, broken>> /\ CallOnly

ToolChanges(c) ==
    /\ ex[c] = "running" /\ calls[c] # "read"
    /\ Goto(c, "ran")
    /\ Changes(c)
    /\ UNCHANGED <<saw, late, mirror, broken>> /\ CallOnly

(* It returns, and is over if nothing is to be mirrored.                    *)
ToolReturns(c) ==
    /\ ex[c] = "ran"
    /\ IF calls[c] = "read" THEN Finish(c, "ok") ELSE Goto(c, "readback")
    /\ Untouched

ToolThrows(c) == ex[c] \in {"running", "ran"} /\ Finish(c, "error") /\ Untouched

(* Mutated form of the next: only reads have a timeout.                     *)
CanTimeOutReads(c) == ex[c] \in {"running", "ran"} /\ calls[c] = "read"
CanTimeOut(c) == ex[c] \in {"running", "ran"}

(* The timeout wins the race: an error, while the tool may still run.       *)
TimesOut(c) ==
    /\ CanTimeOut(c)
    /\ Finish(c, "error")
    /\ late' = IF ex[c] = "running" /\ calls[c] # "read" THEN late \cup {c} ELSE late
    /\ UNCHANGED <<saw, file, writer, mirror, broken>> /\ CallOnly

LateChange(c) ==
    /\ c \in late /\ late' = late \ {c}
    /\ Changes(c)
    /\ UNCHANGED <<ex, answer, saw, mirror, broken>> /\ CallOnly

(* The changed file is read back; a missing one makes readFile throw.       *)
ReadBack(c) ==
    /\ ex[c] = "readback"
    /\ Goto(c, IF file = Gone THEN "fallback" ELSE "apply")
    /\ saw' = [saw EXCEPT ![c] = file]
    /\ UNCHANGED <<late, file, writer, mirror, broken>> /\ CallOnly

Apply(c) ==
    /\ ex[c] = "apply"
    /\ Finish(c, "ok")
    /\ mirror' = saw[c]
    /\ UNCHANGED <<saw, late, file, writer, broken>> /\ CallOnly

ApplyThrows(c) ==
    /\ ex[c] = "apply"
    /\ Goto(c, "fallback")
    /\ broken' = TRUE
    /\ UNCHANGED <<saw, late, file, writer, mirror>> /\ CallOnly

(* The catch block removes the file from the graph (mutated form: it only   *)
(* says so), unless the call carried its new content.                       *)
ForgetNothing == UNCHANGED mirror
Forget == mirror' = Gone

Fallback(c) ==
    /\ ex[c] = "fallback"
    /\ Finish(c, "ok")
    /\ Forget
    /\ UNCHANGED <<saw, late, file, writer, broken>> /\ CallOnly

FallbackInline(c) ==
    /\ ex[c] = "fallback" /\ calls[c] = "write"
    /\ Finish(c, "unmirrored")
    /\ Untouched

FallbackThrows(c) ==
    /\ ex[c] = "fallback"
    /\ Finish(c, "error")
    /\ broken' = TRUE
    /\ UNCHANGED <<saw, late, file, writer, mirror>> /\ CallOnly

-----------------------------------------------------------------------------
LoopStep ==
    \/ StartTurn \/ EndLoop \/ NoAnswer \/ PlainAnswer \/ TooManyRounds
    \/ \E batch \in Batches : StartBatch(batch)
BatchStep == LaunchRead \/ FlushReads \/ LaunchChange \/ YieldChange \/ EndBatch
ToolStep(c) == ToolReads(c) \/ ToolChanges(c) \/ ToolReturns(c) \/ ToolThrows(c) \/ LateChange(c)
CallStep(c) ==
    \/ Refuse(c) \/ Admit(c) \/ TimesOut(c) \/ ReadBack(c) \/ Apply(c) \/ ApplyThrows(c)
    \/ Fallback(c) \/ FallbackInline(c) \/ FallbackThrows(c)

Ended == pc = "ended" /\ UNCHANGED vars

Next ==
    \/ LoopStep \/ BatchStep
    \/ \E c \in Calls : ToolStep(c) \/ CallStep(c)
    \/ Ended

(* Continuations and timers run and the AI service answers.  Tools are not  *)
(* fair: one may hang for ever.                                             *)
CallsContinue(n) == \E c \in Calls : c = n /\ CallStep(c)
Fairness ==
    /\ WF_vars(LoopStep) /\ WF_vars(BatchStep)
    /\ \A n \in 1 .. MaxToolRounds * MaxCalls : WF_vars(CallsContinue(n))

Spec == Init /\ [][Next]_vars /\ Fairness

-----------------------------------------------------------------------------
(* Properties                                                               *)

(* Calls take effect in the order of the answer as far as their answers     *)
(* tell: a read that succeeds sees no later call, and nothing older than    *)
(* the last earlier change that succeeded, except what a call that was      *)
(* answered with an error may still do.                                     *)
ReadsInOrder ==
    /\ TypeOK
    /\ \A c \in Calls : calls[c] = "read" /\ answer[c] = "ok" =>
        LET seen == saw[c] IN
        /\ seen < c
        /\ seen = 0 \/ answer[seen] # "error" =>
             \A k \in seen + 1 .. c - 1 : calls[k] # "read" => answer[k] = "error"

(* The graph shows the file as it is, unless the last change of it came     *)
(* from a call that was not answered as mirrored (it timed out or threw) or *)
(* the graph itself threw.                                                  *)
MirrorFresh ==
    (writer = 0 \/ answer[writer] = "ok") /\ ~broken => mirror = file

(* The loop ends, even if every tool hangs.                                 *)
LoopEnds == <>(pc = "ended")
=============================================================================

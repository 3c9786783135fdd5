---------------------------- MODULE KanbanGates ----------------------------
(***************************************************************************)
(* The gates in front of kanban_complete (lib/agent/gates): the JoyZoning  *)
(* convergence of the task's scope, the steering state of ROADMAP.md and   *)
(* the quality audit, and what feeds them: the mutation lifecycle, the     *)
(* journal behind the kernel's patch, the scope aliases.                   *)
(*                                                                         *)
(* A worker is an agent process with one task, whose scope has its name;   *)
(* all share a workspace and the journal database.  The rows of            *)
(* mutation_scopes matter through the last one written per scope, and any  *)
(* of them can be written next, so a scope keeps that one state.  A tool   *)
(* call with its hooks is one step, except around ROADMAP.md and its state *)
(* file, which two processes write.  The snapshot of the gate is kept only *)
(* while no second has passed on the state file and ROADMAP.md has the     *)
(* same mtime.  Texts, events, JSDP, the configuration (its defaults), the *)
(* kept reading of the state file and the exceptions of a gate's own       *)
(* evaluation, which let the completion through, are left out.             *)
(***************************************************************************)
EXTENDS Integers, FiniteSets, FiniteSetsExt

CONSTANTS Workers,
          Coders,       \* the workers that change code
          Shared,       \* the JOYZONING_SCOPE_ID of the linked workers
          Linked,       \* workers whose environment holds it
          QualityOn,    \* completion_gate.enabled
          Budgets       \* bounds, one is chosen: calls other than the recommended
                        \* ones ("tool", and "road" for ROADMAP.md), patches, and
                        \* crashes or failing writes of the state file

Scopes == Workers \cup {Shared}

ASSUME GatesAssumption ==
  /\ Coders \subseteq Workers /\ Linked \subseteq Workers
  /\ Shared \notin Workers /\ QualityOn \in BOOLEAN
  /\ \A b \in Budgets : \A k \in {"tool", "road", "patch", "crash"} : b[k] \in Nat

VARIABLES conv,     \* convergence_records: per scope, its state
          latest,   \* per scope, the state of its last written mutation row
          aliases,  \* scope_aliases, pairs of scopes
          seen,     \* per process, the keys its journal remembers
          code      \* per worker, what its files hold

VARIABLES valid,    \* whether the schema of ROADMAP.md is valid
          state,    \* roadmap-state.json: validation_pending, or half written
          op,       \* per worker, the roadmap operation it is in
          touched,  \* per worker: ROADMAP.md changed since its session handled it
          snap      \* per worker, the cached gate state

VARIABLES spider,   \* whether the Spider gate blocks now
          audit     \* per worker, its audit metadata: violations and gate

VARIABLES done, left   \* left: what is left of the budget

\* History.  Of the code of a worker: not verified since it changed or failed;
\* whether the scope did not hear of it; whether CONVERGED was forced.  Of ROADMAP.md:
\* not validated since it changed; whether the state file missed that.
VARIABLES unverified, missed, forced, unvalidated, overlooked

lifecycle == <<conv, latest, forced>>
steering == <<valid, state, op, touched, snap, unvalidated, overlooked>>
quality == <<spider, audit>>
codeHist == <<code, unverified, missed>>
vars == <<lifecycle, aliases, seen, codeHist, steering, quality, done, left>>

NoAudit == [violations |-> {}, gate |-> "none"]
\* old: ROADMAP.md has changed since this operation read it.
Idle == [pc |-> "idle", old |-> FALSE]

Init ==
  /\ conv = [s \in Scopes |-> "idle"] /\ latest = [s \in Scopes |-> "none"]
  /\ aliases = {} /\ seen = [w \in Workers |-> {}]
  /\ code = [w \in Workers |-> 0]
  /\ valid = TRUE /\ state = "clear"
  /\ op = [w \in Workers |-> Idle]
  /\ touched = [w \in Workers |-> FALSE]
  /\ snap = [w \in Workers |-> "none"]
  /\ spider = FALSE /\ audit = [w \in Workers |-> NoAudit]
  /\ done = {} /\ left \in Budgets
  /\ unverified = [w \in Workers |-> FALSE]
  /\ missed = [w \in Workers |-> FALSE] /\ forced = [s \in Scopes |-> FALSE]
  /\ unvalidated = FALSE /\ overlooked = FALSE

----------------------------------------------------------------------------
(* Convergence                                                             *)

ValidRejectedForGood ==
  [idle       |-> {"proposed", "patching"},
   proposed   |-> {"patching", "verifying", "ready", "rejected"},
   patching   |-> {"verifying", "ready", "rejected"},
   verifying  |-> {"ready", "rejected", "patching"},
   ready      |-> {"converged", "rejected", "patching"},
   converged  |-> {"idle", "proposed"},
   rejected   |-> {"idle"}]
Valid ==
  [idle       |-> {"proposed", "patching"},
   proposed   |-> {"patching", "verifying", "ready", "rejected"},
   patching   |-> {"verifying", "ready", "rejected"},
   verifying  |-> {"ready", "rejected", "patching"},
   ready      |-> {"converged", "rejected", "patching"},
   converged  |-> {"idle", "proposed"},
   rejected   |-> {"idle", "proposed", "patching"}]

\* A lifecycle is a scope's [conv, latest]; the tools map one to the next.
Of(s) == [conv |-> conv[s], latest |-> latest[s]]

MayGo(c, new) == new \in Valid[c]
Transition(l, new) == IF MayGo(l.conv, new) THEN [l EXCEPT !.conv = new] ELSE l

BeginMutation(l) == Transition([l EXCEPT !.latest = "proposed"], "proposed")
RecordPatch(l) == Transition([l EXCEPT !.latest = "patching"], "patching")
RecordVerification(l, passed) ==
  IF passed THEN Transition([l EXCEPT !.latest = "verified"], "verifying")
            ELSE Transition([l EXCEPT !.latest = "rejected"], "rejected")

SetLife(s, l) ==
  /\ conv' = [conv EXCEPT ![s] = l.conv]
  /\ latest' = [latest EXCEPT ![s] = l.latest]
  /\ forced' = [forced EXCEPT ![s] = @ /\ l.conv = "converged"]

\* expand_scope_cluster, one hop; its callers take the cluster of the cluster.
Expand(s) == {s} \cup {a \in Scopes : <<s, a>> \in aliases \/ <<a, s>> \in aliases}
Cluster(s) == UNION {Expand(a) : a \in Expand(s)}

Most == <<"converged", "ready", "verifying", "patching", "proposed", "rejected", "idle">>
ClusterState(s) ==
  Most[Min({i \in DOMAIN Most : \E a \in Cluster(s) : conv[a] = Most[i]})]

----------------------------------------------------------------------------
(* The mutation tools                                                      *)

\* Where a failed verification leaves a scope that nobody can send to a review.
Unfinished == {"proposed", "patching", "rejected"}

Free(w) == w \notin done /\ op[w] = Idle
Spend(k) == left[k] > 0 /\ left' = [left EXCEPT ![k] = @ - 1]

\* What the gates recommend next costs nothing.
Costs(advised, k) == IF advised THEN UNCHANGED left ELSE Spend(k)
Stray == Spend("tool")

BeginAdvised(w) == ClusterState(w) \in {"idle", "rejected"}
VerifyAdvised(w) == ClusterState(w) \in {"proposed", "patching"}
ReviewAdvised(w) == ClusterState(w) = "verifying"

\* register_from_scope_env at the start of a session.
Link(w) ==
  /\ w \in Linked /\ Free(w) /\ <<w, Shared>> \notin aliases
  /\ aliases' = aliases \cup {<<w, Shared>>, <<Shared, w>>}
  /\ UNCHANGED <<lifecycle, seen, codeHist, steering, quality, done, left>>

Begin(w) ==
  /\ w \in Coders /\ Free(w)
  /\ Costs(BeginAdvised(w), "tool")
  /\ SetLife(w, BeginMutation(Of(w)))
  /\ UNCHANGED <<aliases, seen, codeHist, steering, quality, done>>

\* mutation_record_patch, of code changed by any tool, under a mutation of owner.
PatchTool(w, owner) ==
  /\ w \in Coders /\ Free(w) /\ Spend("patch")
  /\ owner \in Expand(w) /\ latest[owner] # "none"
  /\ LET l == RecordPatch(Of(w)) IN
     /\ conv' = [conv EXCEPT ![w] = l.conv]
     /\ latest' = [latest EXCEPT ![owner] = "patching"]
     /\ forced' = [forced EXCEPT ![w] = @ /\ l.conv = "converged"]
     /\ missed' = [missed EXCEPT ![w] = l.conv # "patching" \/ owner # w]
  /\ code' = [code EXCEPT ![w] = 1 - @]
  /\ unverified' = [unverified EXCEPT ![w] = TRUE]
  /\ UNCHANGED <<aliases, seen, steering, quality, done>>

\* mutation_verify, with the agent's own word for the result.
VerifyTool(w, owner, passed) ==
  /\ w \in Coders /\ Free(w)
  /\ Costs(passed /\ owner = w /\ VerifyAdvised(w), "tool")
  /\ owner \in Expand(w) /\ latest[owner] # "none"
  /\ LET l == RecordVerification(Of(w), passed) IN
     /\ conv' = [conv EXCEPT ![w] = l.conv]
     /\ latest' = [latest EXCEPT ![owner] = IF passed THEN "verified" ELSE "rejected"]
     /\ forced' = [forced EXCEPT ![w] = @ /\ l.conv = "converged"]
     /\ audit' = IF QualityOn /\ l.conv = conv[w]
                 THEN [audit EXCEPT ![w].violations = @ \cup {"missing_validation_evidence"}]
                 ELSE audit
     /\ missed' = [missed EXCEPT ![w] = ~passed /\ l.conv \notin Unfinished]
  /\ unverified' = [unverified EXCEPT ![w] = ~passed]
  /\ UNCHANGED <<aliases, seen, code, steering, spider, done>>

RequestReviewUnchecked(w) ==
  /\ w \in Coders /\ Free(w)
  /\ Costs(ReviewAdvised(w), "tool")
  /\ SetLife(w, Transition(Of(w), "ready"))
  /\ UNCHANGED <<aliases, seen, codeHist, steering, quality, done>>
RequestReview(w) ==
  /\ w \in Coders /\ Free(w)
  /\ Costs(ReviewAdvised(w), "tool")
  /\ latest[w] = "verified" \/ conv[w] = "verifying"
  /\ SetLife(w, Transition(Of(w), "ready"))
  /\ UNCHANGED <<aliases, seen, codeHist, steering, quality, done>>

\* convergence_mark_converged: after the review of an operator, but from any state.
MarkConverged(w) ==
  /\ w \in Coders /\ Free(w)
  /\ Costs(conv[w] = "ready", "tool")
  /\ conv' = [conv EXCEPT ![w] = "converged"]
  /\ forced' = [forced EXCEPT ![w] = conv[w] # "ready"]
  /\ UNCHANGED <<latest, aliases, seen, codeHist, steering, quality, done>>

----------------------------------------------------------------------------
(* The kernel's patch, journaled by the hooks, and its verify              *)

\* One attempt of journal_mutation_patch; ok when nothing raised.
Attempt(l) ==
  LET begun == IF l.latest \in {"proposed", "patching"} THEN l ELSE BeginMutation(l)
      started == l.latest \in {"proposed", "patching"} \/ MayGo(l.conv, "proposed")
  IN IF started THEN [l |-> RecordPatch(begun), ok |-> MayGo(begun.conv, "patching")]
                ELSE [l |-> begun, ok |-> FALSE]

\* post_tool_call and transform_tool_result each journal the result: the second
\* finds the key of the first, or tries again.
Twice(l) == LET first == Attempt(l) IN IF first.ok THEN first ELSE Attempt(first.l)

Journal(w, key) ==
  LET r == Twice(Of(w)) IN
  IF key \in seen[w] THEN UNCHANGED <<lifecycle, seen>>
  ELSE /\ SetLife(w, r.l)
       /\ seen' = [seen EXCEPT ![w] = IF r.ok THEN @ \cup {key} ELSE @]

NativePatch(w) ==
  /\ w \in Coders /\ Free(w) /\ Spend("patch")
  /\ code' = [code EXCEPT ![w] = 1 - @]
  /\ Journal(w, 1 - code[w])
  /\ unverified' = [unverified EXCEPT ![w] = TRUE]
  /\ missed' = [missed EXCEPT ![w] = conv'[w] # "patching"]
  /\ UNCHANGED <<aliases, steering, quality, done>>

\* The hooks look for an action in the result, which apply_verify does not give:
\* no verification by the kernel reaches the journal.
NativeVerify(w, passed) ==
  /\ w \in Coders /\ Free(w) /\ Stray
  /\ unverified' = [unverified EXCEPT ![w] = ~passed]
  /\ missed' = [missed EXCEPT ![w] = ~passed /\ conv[w] \notin Unfinished]
  /\ UNCHANGED <<lifecycle, aliases, seen, code, steering, quality, done>>

\* A key is forgotten after 300 seconds.
Forget(w) ==
  /\ \E key \in seen[w] : seen' = [seen EXCEPT ![w] = @ \ {key}]
  /\ UNCHANGED <<lifecycle, aliases, codeHist, steering, quality, done, left>>

----------------------------------------------------------------------------
(* ROADMAP.md and its state file                                           *)

InPlace(w) == op[w].pc \in {"wrote", "marking", "saving"}

\* ROADMAP.md gets new content: every cached gate state has the wrong mtime.
Change(writers, ok) ==
  /\ valid' = ok
  /\ op' = [x \in Workers |-> IF x \in writers THEN [pc |-> "wrote", old |-> FALSE]
                               ELSE [op[x] EXCEPT !.old = @ \/ op[x].pc # "idle"]]
  /\ touched' = [x \in Workers |-> TRUE]
  /\ snap' = [x \in Workers |-> "none"]
  /\ unvalidated' = TRUE

\* write_file, patch, the kernel, or the bootstrap fill of the roadmap tool.
WriteRoadmap(w) ==
  /\ Free(w)
  /\ Costs(~valid, "road")
  /\ \E ok \in IF valid THEN BOOLEAN ELSE {TRUE} : Change({w}, ok)
  /\ UNCHANGED <<lifecycle, aliases, seen, codeHist, state, overlooked, quality,
                 done>>

\* An editor outside of the tools.
EditRoadmap ==
  /\ Spend("road")
  /\ \E ok \in BOOLEAN : Change({}, ok)
  /\ overlooked' = TRUE
  /\ UNCHANGED <<lifecycle, aliases, seen, codeHist, state, quality, done>>

\* validate_roadmap reads the text; its result is recorded later.
ReadRoadmap(w) ==
  /\ Free(w)
  /\ Costs(state = "pending", "road")
  /\ op' = [op EXCEPT ![w] = [pc |-> "read", old |-> FALSE]]
  /\ UNCHANGED <<lifecycle, aliases, seen, codeHist, valid, state, touched, snap,
                 unvalidated, overlooked, quality, done>>

\* write_state truncates the file, then writes it.
Truncate(w) ==
  /\ op[w].pc \in {"wrote", "read"}
  /\ state' = "torn"
  /\ op' = [op EXCEPT ![w].pc = IF @ = "wrote" THEN "marking" ELSE "saving"]
  /\ UNCHANGED <<lifecycle, aliases, seen, codeHist, valid, touched, snap,
                 unvalidated, overlooked, quality, done, left>>

\* Within the second of the state before, the others' cached gate state stays.
Stamped(w) ==
  \E same \in BOOLEAN :
    snap' = [x \in Workers |-> IF same /\ x # w THEN snap[x] ELSE "none"]

\* The session notes the change; the bootstrap fill does not tell it.
Noted(w) == touched' \in {touched, [touched EXCEPT ![w] = FALSE]}

MarkPending(w) ==   \* record_file_mutation
  /\ op[w].pc = "marking"
  /\ state' = "pending" /\ Stamped(w)
  /\ op' = [op EXCEPT ![w] = Idle]
  /\ Noted(w)
  /\ overlooked' = FALSE
  /\ UNCHANGED <<lifecycle, aliases, seen, codeHist, valid, unvalidated, quality,
                 done, left>>

SaveValidation(w) ==   \* record_validation
  /\ op[w].pc = "saving"
  /\ state' = "clear" /\ Stamped(w)
  /\ op' = [op EXCEPT ![w] = Idle]
  /\ unvalidated' = (unvalidated /\ op[w].old)
  /\ overlooked' = op[w].old
  /\ UNCHANGED <<lifecycle, aliases, seen, codeHist, valid, touched, quality,
                 done, left>>

\* write_state swallows the error: nothing more is written, and its caller goes on.
WriteFails(w) ==
  /\ op[w] # Idle /\ Spend("crash")
  /\ op' = [op EXCEPT ![w] = Idle]
  /\ overlooked' = (overlooked \/ InPlace(w))
  /\ IF op[w].pc \in {"wrote", "marking"} THEN Noted(w) ELSE UNCHANGED touched
  /\ UNCHANGED <<lifecycle, aliases, seen, codeHist, valid, state, snap, unvalidated,
                 quality, done>>

\* A session ends, with a scan of ROADMAP.md, and another one starts.
NewSession(w) ==
  /\ Free(w) /\ touched[w]
  /\ op' = [op EXCEPT ![w] = [pc |-> "wrote", old |-> FALSE]]
  /\ touched' = [touched EXCEPT ![w] = FALSE]
  /\ UNCHANGED <<lifecycle, aliases, seen, codeHist, valid, state, snap, unvalidated,
                 overlooked, quality, done, left>>

\* gate_state_from_inputs: an invalid schema makes the checkpoint stale.
RoadmapOpenBySchema(w) ==
  IF snap[w] = "none" \/ state = "torn" THEN valid ELSE snap[w] = "open"
RoadmapOpen(w) ==
  IF snap[w] = "none" \/ state = "torn" THEN state # "pending" /\ valid
                                        ELSE snap[w] = "open"
RoadmapCached(w) ==
  [snap EXCEPT ![w] = IF state = "torn" THEN "none"
                      ELSE IF RoadmapOpen(w) THEN "open" ELSE "closed"]

----------------------------------------------------------------------------
(* The quality audit and kanban_complete                                   *)

Weight == [missing_validation_evidence |-> 30, spider_gate_blocked |-> 45, joy_zoning |-> 18]
Threshold == 50
Score(violations) == 100 - SumSet({Weight[v] : v \in violations})

\* build_quality_metadata: the lifecycle, then the Spider gate if not fresh.
Audited(w) ==
  LET passed == conv[w] \in {"verifying", "ready", "converged"} \/ latest[w] = "verified"
      gate == IF audit[w].gate # "none" THEN audit[w].gate
              ELSE IF spider THEN "blocked" ELSE "passed"
  IN [gate |-> gate,
      violations |-> audit[w].violations
        \cup (IF passed THEN {} ELSE {"missing_validation_evidence"})
        \cup (IF gate = "blocked" THEN {"spider_gate_blocked"} ELSE {})]

QualityBlocks(a) == a.gate = "blocked" \/ Score(a.violations) < Threshold

\* pre_tool_call of kanban_complete: the layers in order, up to one that blocks.
Complete(w) ==
  /\ Free(w)
  /\ ClusterState(w) = "converged"
  /\ snap' = RoadmapCached(w)
  /\ audit' = IF QualityOn /\ RoadmapOpen(w) THEN [audit EXCEPT ![w] = Audited(w)] ELSE audit
  /\ done' = IF RoadmapOpen(w) /\ (QualityOn => ~QualityBlocks(Audited(w)))
             THEN done \cup {w} ELSE done
  /\ UNCHANGED <<lifecycle, aliases, seen, codeHist, valid, state, op, touched,
                 unvalidated, overlooked, spider, left>>

\* convergence_status and its like evaluate every layer.
Status(w) ==
  /\ w \in Coders /\ Free(w) /\ QualityOn /\ Stray
  /\ snap' = RoadmapCached(w)
  /\ audit' = [audit EXCEPT ![w] = Audited(w)]
  /\ UNCHANGED <<lifecycle, aliases, seen, codeHist, valid, state, op, touched,
                 unvalidated, overlooked, spider, done>>

\* The governance hook finds a layer violation in what the worker wrote.
LayerFault(w) ==
  /\ w \in Coders /\ Free(w) /\ QualityOn /\ Stray
  /\ audit' = [audit EXCEPT ![w].violations = @ \cup {"joy_zoning"}]
  /\ UNCHANGED <<lifecycle, aliases, seen, codeHist, steering, spider, done>>

\* The structure of the code breaks, and is repaired.
SpiderChanges ==
  /\ QualityOn
  /\ Costs(spider, "tool")
  /\ spider' = ~spider
  /\ UNCHANGED <<lifecycle, aliases, seen, codeHist, steering, audit, done>>

\* The gate of the audit lives 300 seconds, the snapshot 15.
Expire(w) ==
  /\ audit[w].gate # "none" \/ snap[w] # "none"
  /\ audit' = [audit EXCEPT ![w].gate = "none"]
  /\ snap' = [snap EXCEPT ![w] = "none"]
  /\ UNCHANGED <<lifecycle, aliases, seen, codeHist, valid, state, op, touched,
                 unvalidated, overlooked, spider, done, left>>

\* The process dies and is started again: its module variables are gone.
Crash(w) ==
  /\ w \notin done /\ Spend("crash")
  /\ seen' = [seen EXCEPT ![w] = {}] /\ audit' = [audit EXCEPT ![w] = NoAudit]
  /\ snap' = [snap EXCEPT ![w] = "none"]
  /\ op' = [op EXCEPT ![w] = Idle] /\ touched' = [touched EXCEPT ![w] = FALSE]
  /\ overlooked' = (overlooked \/ InPlace(w))
  /\ UNCHANGED <<lifecycle, aliases, codeHist, valid, state, unvalidated, spider,
                 done>>

Next ==
  \/ \E w \in Workers :
       \/ Link(w) \/ Begin(w) \/ RequestReview(w) \/ MarkConverged(w)
       \/ NativePatch(w) \/ Forget(w)
       \/ \E owner \in Scopes : PatchTool(w, owner)
       \/ \E owner \in Scopes, passed \in BOOLEAN : VerifyTool(w, owner, passed)
       \/ \E passed \in BOOLEAN : NativeVerify(w, passed)
       \/ WriteRoadmap(w) \/ ReadRoadmap(w) \/ Truncate(w)
       \/ MarkPending(w) \/ SaveValidation(w) \/ WriteFails(w) \/ NewSession(w)
       \/ Complete(w) \/ Status(w) \/ LayerFault(w) \/ Expire(w) \/ Crash(w)
  \/ EditRoadmap \/ SpiderChanges

\* The agent makes the call a gate recommends and tries to complete its task; it
\* repairs ROADMAP.md and the structure of the code; what is begun goes on.
Advised(w) ==
  \/ BeginAdvised(w) /\ Begin(w)
  \/ VerifyAdvised(w) /\ VerifyTool(w, w, TRUE)
  \/ ReviewAdvised(w) /\ RequestReview(w)
  \/ conv[w] = "ready" /\ MarkConverged(w)
Steered(w) ==
  \/ ~valid /\ WriteRoadmap(w)
  \/ state = "pending" /\ ReadRoadmap(w)
GoesOn(w) == Truncate(w) \/ MarkPending(w) \/ SaveValidation(w)

Fairness ==
  /\ \A w \in Coders : /\ WF_vars(Advised(w)) /\ WF_vars(Steered(w)) /\ WF_vars(Complete(w))
                       /\ WF_vars(Forget(w)) /\ WF_vars(Expire(w))
  /\ \A w \in Workers : WF_vars(GoesOn(w))
  /\ WF_vars(spider /\ SpiderChanges)

Spec == Init /\ [][Next]_vars /\ Fairness

----------------------------------------------------------------------------
(* Properties                                                              *)

Types ==
  /\ conv \in [Scopes -> DOMAIN Valid]
  /\ latest \in [Scopes -> {"none", "proposed", "patching", "verified", "rejected"}]
  /\ aliases \subseteq Scopes \X Scopes
  /\ code \in [Workers -> {0, 1}]
  /\ valid \in BOOLEAN /\ state \in {"clear", "pending", "torn"}
  /\ op \in [Workers -> [pc : {"idle", "wrote", "marking", "read", "saving"}, old : BOOLEAN]]
  /\ snap \in [Workers -> {"none", "open", "closed"}]
  /\ \A w \in Workers : /\ audit[w].gate \in {"none", "blocked", "passed"}
                         /\ audit[w].violations \subseteq DOMAIN Weight
  /\ done \subseteq Workers

Completes(w) == w \in done' \ done

\* A task is completed only with code that passed a verification after its last
\* change and its last failure, unless the scope did not hear of that change or
\* failure (a failing verify of the kernel it never hears of), CONVERGED was
\* forced, or an alias's scope opened the gate.
VerifiedBeforeDone ==
  []Types /\ [][\A w \in Workers : Completes(w) =>
       \/ conv[w] # "converged" /\ Cluster(w) # {w}
       \/ forced[w]
       \/ unverified[w] => missed[w]]_vars

\* A task is completed only with a ROADMAP.md that a validation has read, unless
\* another process is just writing it or its state file, the worker's snapshot
\* is of the second before that, or the change came from outside of the tools, was
\* lost in a crash or a failing write, or fell between the reading and the
\* recording of a validation.
ValidatedBeforeDone ==
  [][\A w \in Workers : Completes(w) =>
       \/ ~unvalidated \/ overlooked
       \/ state = "pending" /\ snap[w] = "open"
       \/ \E x \in Workers \ {w} : InPlace(x)]_vars

\* A worker that makes the recommended calls gets its task completed, unless its
\* audit holds violations that no later success takes away.
Stuck(w) == Score(audit[w].violations) < Threshold
GetsDone == \A w \in Coders : <>(w \in done \/ Stuck(w))

=============================================================================

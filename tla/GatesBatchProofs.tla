------------------------- MODULE GatesBatchProofs --------------------------
(***************************************************************************)
(* Theorems about the gates before kanban_complete, for any workers, links *)
(* of scopes and budgets, and about the rows of a table behind the pool's  *)
(* buffers, for any keys, values, operations and failures.                 *)
(*                                                                         *)
(* Gates.  A task is completed with verified code and a validated          *)
(* ROADMAP.md, each with the exceptions the property names.  Both are      *)
(* properties of one step, Complete, and need to know how the state it     *)
(* meets came about.  Of the code: a change or a failure that its scope    *)
(* heard of leaves that where no review can be requested, because there    *)
(* its last mutation is not verified (Begun, Recorded).  Of ROADMAP.md: a  *)
(* change is marked pending or about to be (Marked).                       *)
(*                                                                         *)
(* Batch.  A row is followed through a sequence of operations (Trail).     *)
(* Two sequences do the same to a row when one rearranges the other and    *)
(* keeps the order of those on the row (AfterRearranged): so does sorting  *)
(* (SortedRearranges).  groupOps is followed through the batch (Grouping): *)
(* what it has kept does what it has read, and an update merged into an    *)
(* earlier one changes nothing between them.  BatchInvariant says where    *)
(* each operation is and how far the disk is behind the rows that the      *)
(* operations mean, in each phase of flush().  No operator can be a        *)
(* parameter of a lemma here, so that induction and folds are stated for   *)
(* sets and functions (Induction, FoldSteps).                              *)
(***************************************************************************)
EXTENDS KanbanGates, TableBatch, SequenceTheorems, FiniteSetTheorems, WellFoundedInduction, TLAPS

States == {"idle", "proposed", "patching", "verifying", "ready", "converged", "rejected"}
Rows == {"none", "proposed", "patching", "verified", "rejected"}
Life == [conv : States, latest : Rows]
Audits == [violations : SUBSET {"missing_validation_evidence", "spider_gate_blocked", "joy_zoning"},
           gate : {"none", "blocked", "passed"}]
Operations == [pc : {"idle", "wrote", "marking", "read", "saving"}, old : BOOLEAN]

-----------------------------------------------------------------------------
(* The inductive invariant                                                  *)

LifeTypes ==
    /\ conv \in [Scopes -> States] /\ latest \in [Scopes -> Rows]
    /\ code \in [Workers -> {0, 1}]
    /\ unverified \in [Workers -> BOOLEAN] /\ missed \in [Workers -> BOOLEAN]
    /\ forced \in [Scopes -> BOOLEAN]
SteerTypes ==
    /\ valid \in BOOLEAN /\ state \in {"clear", "pending", "torn"}
    /\ op \in [Workers -> Operations]
    /\ snap \in [Workers -> {"none", "open", "closed"}]
    /\ unvalidated \in BOOLEAN /\ overlooked \in BOOLEAN
AuditTypes == audit \in [Workers -> Audits] /\ done \subseteq Workers

(* Links lead from a worker's scope to the shared one and back, and nobody  *)
(* begins a mutation in the shared scope: a worker records under its own.   *)
OwnRows ==
    /\ aliases \subseteq {<<w, Shared>> : w \in Workers} \cup {<<Shared, w>> : w \in Workers}
    /\ latest[Shared] = "none"

(* A scope in which patches are made has a last mutation that is not        *)
(* verified: no review can be requested there.                              *)
Open == {"proposed", "patching"}
Sound(l) == l \in Life /\ (l.conv \in Open => l.latest \in Open)
Begun == \A w \in Workers : Sound(Of(w))

(* Code that is not verified, as its scope knows, is in an open scope, or   *)
(* in a rejected one, or in one that was forced.                            *)
Recorded ==
    \A w \in Workers : unverified[w] /\ ~missed[w] =>
        conv[w] \in Open \cup {"rejected"} \/ (conv[w] = "converged" /\ forced[w])

(* A ROADMAP.md that nobody validated is pending, or its writer is about to *)
(* mark it so, or another one overwrites the state file.                    *)
Marked == unvalidated /\ ~overlooked => state = "pending" \/ \E x \in Workers : InPlace(x)

IInv == LifeTypes /\ SteerTypes /\ AuditTypes /\ OwnRows /\ Begun /\ Recorded /\ Marked

-----------------------------------------------------------------------------
(* The lifecycle of one scope                                               *)

(* The table of transitions, row by row.                                    *)
LEMMA ValidRows ==
    /\ DOMAIN Valid = States
    /\ Valid["idle"] = {"proposed", "patching"}
    /\ Valid["proposed"] = {"patching", "verifying", "ready", "rejected"}
    /\ Valid["patching"] = {"verifying", "ready", "rejected"}
    /\ Valid["verifying"] = {"ready", "rejected", "patching"}
    /\ Valid["ready"] = {"converged", "rejected", "patching"}
    /\ Valid["converged"] = {"idle", "proposed"}
    /\ Valid["rejected"] = {"idle", "proposed", "patching"}
  BY DEF Valid, States

(* The state a transition leads to.                                         *)
LEMMA Transitions ==
    ASSUME NEW l \in Life, NEW s \in States
    PROVE  /\ Transition(l, s) \in Life
           /\ Transition(l, s).latest = l.latest
           /\ Transition(l, s).conv = IF MayGo(l.conv, s) THEN s ELSE l.conv
  <1>1. CASE MayGo(l.conv, s)
    <2>1. Transition(l, s) = [l EXCEPT !.conv = s]
      BY <1>1 DEF Transition
    <2>2. QED
      BY <1>1, <2>1 DEF Life
  <1>2. CASE ~MayGo(l.conv, s)
    BY <1>2 DEF Transition
  <1>3. QED
    BY <1>1, <1>2

(* mutation_begin: the last mutation is a proposed one.                     *)
LEMMA BeginSound ==
    ASSUME NEW l, Sound(l)
    PROVE  /\ Sound(BeginMutation(l)) /\ BeginMutation(l).latest = "proposed"
           /\ BeginMutation(l).conv = IF MayGo(l.conv, "proposed") THEN "proposed" ELSE l.conv
  <1> DEFINE m == [l EXCEPT !.latest = "proposed"]
  <1>1. m \in Life /\ m.conv = l.conv /\ m.latest = "proposed"
    BY DEF Sound, Life, Rows
  <1>2. BeginMutation(l) = Transition(m, "proposed")
    BY DEF BeginMutation
  <1> HIDE DEF m
  <1>3. "proposed" \in States
    BY DEF States
  <1>4. QED
    BY <1>1, <1>2, <1>3, Transitions DEF Sound, Open

(* mutation_record_patch: the last mutation is one being patched.           *)
LEMMA PatchSound ==
    ASSUME NEW l, Sound(l)
    PROVE  Sound(RecordPatch(l)) /\ RecordPatch(l).latest = "patching"
  <1> DEFINE m == [l EXCEPT !.latest = "patching"]
  <1>1. m \in Life /\ m.conv = l.conv /\ m.latest = "patching"
    BY DEF Sound, Life, Rows
  <1>2. RecordPatch(l) = Transition(m, "patching")
    BY DEF RecordPatch
  <1> HIDE DEF m
  <1>3. "patching" \in States
    BY DEF States
  <1>4. QED
    BY <1>1, <1>2, <1>3, Transitions DEF Sound, Open

(* mutation_verify: patches end, be it well or not.                         *)
LEMMA VerifySound ==
    ASSUME NEW l, Sound(l), NEW passed \in BOOLEAN
    PROVE  /\ Sound(RecordVerification(l, passed))
           /\ RecordVerification(l, passed).latest = IF passed THEN "verified" ELSE "rejected"
  <1>1. CASE passed
    <2> DEFINE m == [l EXCEPT !.latest = "verified"]
    <2>1. m \in Life /\ m.conv = l.conv /\ m.latest = "verified"
      BY DEF Sound, Life, Rows
    <2>2. RecordVerification(l, passed) = Transition(m, "verifying")
      BY <1>1 DEF RecordVerification
    <2> HIDE DEF m
    <2>3. "verifying" \in States /\ (l.conv \in Open => MayGo(l.conv, "verifying"))
      BY ValidRows DEF States, Open, MayGo
    <2>4. QED
      <3>1. /\ Transition(m, "verifying") \in Life
            /\ Transition(m, "verifying").latest = m.latest
            /\ Transition(m, "verifying").conv = IF MayGo(m.conv, "verifying") THEN "verifying" ELSE m.conv
        BY ONLY <2>1, <2>3, Transitions
      <3>2. QED
        BY <1>1, <2>1, <2>2, <2>3, <3>1 DEF Sound, Open
  <1>2. CASE ~passed
    <2> DEFINE m == [l EXCEPT !.latest = "rejected"]
    <2>1. m \in Life /\ m.conv = l.conv /\ m.latest = "rejected"
      BY DEF Sound, Life, Rows
    <2>2. RecordVerification(l, passed) = Transition(m, "rejected")
      BY <1>2 DEF RecordVerification
    <2> HIDE DEF m
    <2>3. "rejected" \in States /\ (l.conv \in Open => MayGo(l.conv, "rejected"))
      BY ValidRows DEF States, Open, MayGo
    <2>4. QED
      BY <1>2, <2>1, <2>2, <2>3, Transitions DEF Sound, Open
  <1>3. QED
    BY <1>1, <1>2

(* convergence_request_review.                                              *)
LEMMA ReviewSound ==
    ASSUME NEW l, Sound(l)
    PROVE  Sound(Transition(l, "ready"))
  BY Transitions DEF Sound, Open, States

(* What the two attempts of the hooks journal.                              *)
LEMMA JournalSound ==
    ASSUME NEW l, Sound(l)
    PROVE  Sound(Twice(l).l)
  <1>1. ASSUME NEW m, Sound(m)
        PROVE  Sound(Attempt(m).l)
    BY <1>1, BeginSound, PatchSound DEF Attempt
  <1>2. QED
    BY <1>1 DEF Twice

-----------------------------------------------------------------------------
(* Steps of the lifecycle                                                   *)

(* The scope of a worker gets a sound lifecycle, the others keep theirs.    *)
LEMMA LifeStep ==
    ASSUME LifeTypes, OwnRows, Begun, NEW w \in Workers, NEW l, Sound(l),
           conv' = [conv EXCEPT ![w] = l.conv], latest' = [latest EXCEPT ![w] = l.latest],
           UNCHANGED aliases
    PROVE  /\ conv' \in [Scopes -> States] /\ latest' \in [Scopes -> Rows]
           /\ OwnRows' /\ Begun' /\ conv'[w] = l.conv
           /\ \A v \in Workers : v # w => conv'[v] = conv[v]
  <1>1. l.conv \in States /\ l.latest \in Rows
    BY DEF Sound, Life
  <1>2. w \in Scopes /\ Shared \in Scopes /\ w # Shared /\ Workers \subseteq Scopes
    BY GatesAssumption DEF Scopes
  <1>3. conv' \in [Scopes -> States] /\ latest' \in [Scopes -> Rows]
    BY <1>1, <1>2 DEF LifeTypes
  <1>4. OwnRows'
    BY <1>2 DEF OwnRows, LifeTypes
  <1>5. /\ conv'[w] = l.conv /\ latest'[w] = l.latest
        /\ \A v \in Workers : v # w => conv'[v] = conv[v] /\ latest'[v] = latest[v]
    BY <1>2 DEF LifeTypes
  <1>6. ASSUME NEW v \in Workers
        PROVE  Sound(Of(v))'
    <2>1. CASE v = w
      BY <1>1, <1>5, <2>1 DEF Sound, Of, Life, Open
    <2>2. CASE v # w
      BY <1>5, <2>2 DEF Begun, Sound, Of
    <2>3. QED
      BY <2>1, <2>2
  <1>7. QED
    BY <1>3, <1>4, <1>5, <1>6 DEF Begun

(* A worker's mutation is its own.                                          *)
LEMMA OwnMutation ==
    ASSUME OwnRows, NEW w \in Workers, NEW owner \in Expand(w), latest[owner] # "none"
    PROVE  owner = w
  BY GatesAssumption DEF OwnRows, Expand, Scopes

(* Code that is recorded stays so when its worker and scope do.             *)
LEMMA RecordedStep ==
    ASSUME LifeTypes, Recorded, NEW w \in Workers,
           conv'[w] \in States, 
           \A v \in Workers : v # w => conv'[v] = conv[v] /\ unverified'[v] = unverified[v]
                                       /\ missed'[v] = missed[v] /\ forced'[v] = forced[v],
           unverified'[w] /\ ~missed'[w] =>
               conv'[w] \in Open \cup {"rejected"} \/ (conv'[w] = "converged" /\ forced'[w])
    PROVE  Recorded'
  BY DEF Recorded, Open

(* What the steps of the lifecycle leave alone.                             *)
Kept == UNCHANGED <<steering, done>>

LEMMA KeptSteering ==
    ASSUME IInv, Kept
    PROVE  SteerTypes' /\ Marked'
  BY DEF IInv, Kept, steering, SteerTypes, Marked, InPlace

(* A step of the worker w that gives its scope the sound lifecycle l.       *)
Lives(w, l) ==
    /\ conv' = [conv EXCEPT ![w] = l.conv] /\ latest' = [latest EXCEPT ![w] = l.latest]
    /\ forced' = [forced EXCEPT ![w] = @ /\ l.conv = "converged"]
    /\ UNCHANGED aliases /\ Kept

(* It keeps what does not depend on the history of the code.                *)
LEMMA LivesStep ==
    ASSUME IInv, NEW w \in Workers, NEW l, Sound(l), Lives(w, l)
    PROVE  /\ conv' \in [Scopes -> States] /\ latest' \in [Scopes -> Rows]
           /\ forced' \in [Scopes -> BOOLEAN]
           /\ SteerTypes' /\ Marked' /\ OwnRows' /\ Begun' /\ conv'[w] = l.conv /\ conv'[w] \in States
           /\ forced'[w] = (forced[w] /\ l.conv = "converged")
           /\ \A v \in Workers : v # w => conv'[v] = conv[v] /\ forced'[v] = forced[v]
  <1>1. w \in Scopes /\ Workers \subseteq Scopes
    BY DEF Scopes
  <1>2. /\ conv' \in [Scopes -> States] /\ latest' \in [Scopes -> Rows]
        /\ OwnRows' /\ Begun' /\ conv'[w] = l.conv
        /\ \A v \in Workers : v # w => conv'[v] = conv[v]
    BY LifeStep DEF IInv, Lives
  <1>3. (forced[w] /\ l.conv = "converged") \in BOOLEAN
    OBVIOUS
  <1>4. forced' \in [Scopes -> BOOLEAN]
    BY <1>1, <1>3 DEF IInv, LifeTypes, Lives
  <1>5. forced'[w] = (forced[w] /\ l.conv = "converged") /\ \A v \in Workers : v # w => forced'[v] = forced[v]
    BY <1>1 DEF IInv, LifeTypes, Lives
  <1>6. SteerTypes' /\ Marked'
    BY KeptSteering DEF Lives
  <1>7. QED
    BY <1>1, <1>2, <1>4, <1>5, <1>6

(* Calls that only move the scope: what was recorded of the code stays.     *)
LEMMA MoveStep ==
    ASSUME IInv, NEW w \in Workers, NEW l, Sound(l), Lives(w, l), UNCHANGED <<codeHist, audit>>,
           conv[w] \in Open \cup {"rejected"} => l.conv \in Open \cup {"rejected"},
           conv[w] = "converged" => l.conv \in {"converged", "proposed"}
    PROVE  IInv'
  <1>1. LifeTypes' /\ AuditTypes'
    BY LivesStep DEF IInv, LifeTypes, AuditTypes, codeHist, Lives, Kept
  <1>2. ASSUME unverified'[w] /\ ~missed'[w]
        PROVE  conv'[w] \in Open \cup {"rejected"} \/ (conv'[w] = "converged" /\ forced'[w])
    <2>1. conv[w] \in Open \cup {"rejected"} \/ (conv[w] = "converged" /\ forced[w])
      BY <1>2 DEF IInv, Recorded, codeHist
    <2>2. QED
      BY <2>1, LivesStep DEF Open
  <1>3. Recorded'
    BY <1>2, LivesStep, RecordedStep DEF IInv, codeHist
  <1>4. QED
    BY <1>1, <1>3, LivesStep DEF IInv

LEMMA SoundScope ==
    ASSUME IInv, NEW w \in Workers
    PROVE  Sound(Of(w)) /\ Of(w).conv = conv[w] /\ Of(w).latest = latest[w]
  BY DEF IInv, Begun, Of

LEMMA BeginStep ==
    ASSUME IInv, NEW w \in Workers, Begin(w)
    PROVE  IInv'
  <1> DEFINE l == BeginMutation(Of(w))
  <1>1. Sound(l) /\ l.conv = IF MayGo(conv[w], "proposed") THEN "proposed" ELSE conv[w]
    BY SoundScope, BeginSound
  <1>2. Lives(w, l) /\ UNCHANGED <<codeHist, audit>>
    BY DEF Begin, SetLife, Lives, Kept, quality
  <1> HIDE DEF l
  <1>3. QED
    BY <1>1, <1>2, MoveStep DEF Open

LEMMA ReviewStep ==
    ASSUME IInv, NEW w \in Workers, RequestReview(w)
    PROVE  IInv'
  <1> DEFINE l == Transition(Of(w), "ready")
  <1>1. Sound(l) /\ l.conv = IF MayGo(conv[w], "ready") THEN "ready" ELSE conv[w]
    <2>1. "ready" \in States /\ Of(w) \in Life
      BY SoundScope DEF States, Sound
    <2>2. QED
      BY <2>1, SoundScope, ReviewSound, Transitions
  <1>2. Lives(w, l) /\ UNCHANGED <<codeHist, audit>>
    BY DEF RequestReview, SetLife, Lives, Kept, quality
  <1>3. latest[w] = "verified" \/ conv[w] = "verifying"
    BY DEF RequestReview
  <1> HIDE DEF l
  <1>4. conv[w] \notin Open /\ ~MayGo("rejected", "ready") /\ ~MayGo("converged", "ready")
    BY <1>3, SoundScope, ValidRows DEF Sound, Open, MayGo
  <1>5. QED
    BY <1>1, <1>2, <1>4, MoveStep DEF Open

LEMMA ConvergedStep ==
    ASSUME IInv, NEW w \in Workers, MarkConverged(w)
    PROVE  IInv'
  <1>1. w \in Scopes /\ Workers \subseteq Scopes /\ "converged" \in States
    BY DEF Scopes, States
  <1>2. /\ conv' = [conv EXCEPT ![w] = "converged"]
        /\ forced' = [forced EXCEPT ![w] = conv[w] # "ready"]
        /\ UNCHANGED <<latest, aliases, codeHist, audit>> /\ Kept
    BY DEF MarkConverged, Kept, quality
  <1>3. LifeTypes' /\ AuditTypes'
    <2>1. (conv[w] # "ready") \in BOOLEAN
      OBVIOUS
    <2>2. conv' \in [Scopes -> States] /\ forced' \in [Scopes -> BOOLEAN]
      BY <1>1, <1>2, <2>1 DEF IInv, LifeTypes
    <2>3. QED
      BY <1>2, <2>2 DEF IInv, LifeTypes, AuditTypes, codeHist, Kept
  <1>4. /\ conv'[w] = "converged" /\ forced'[w] = (conv[w] # "ready")
        /\ \A v \in Workers : v # w => conv'[v] = conv[v] /\ forced'[v] = forced[v]
    BY <1>1, <1>2 DEF IInv, LifeTypes
  <1>5. OwnRows'
    BY <1>2 DEF IInv, OwnRows
  <1>6. Begun'
    <2>1. ASSUME NEW v \in Workers
          PROVE  Sound(Of(v))'
      <3>1. Sound(Of(v)) /\ latest'[v] = latest[v] /\ latest[v] \in Rows
        BY <1>1, <1>2, SoundScope DEF IInv, LifeTypes
      <3>2. CASE v = w
        BY <1>1, <1>4, <3>1, <3>2 DEF Sound, Of, Life, Open
      <3>3. CASE v # w
        BY <1>4, <3>1, <3>3 DEF Sound, Of
      <3>4. QED
        BY <3>2, <3>3
    <2>2. QED
      BY <2>1 DEF Begun
  <1>7. ASSUME unverified'[w] /\ ~missed'[w]
        PROVE  forced'[w]
    BY <1>2, <1>4, <1>7 DEF IInv, Recorded, codeHist, Open
  <1>8. Recorded'
    BY <1>1, <1>2, <1>4, <1>7, RecordedStep DEF IInv, codeHist
  <1>9. QED
    BY <1>2, <1>3, <1>5, <1>6, <1>8, KeptSteering DEF IInv

(* Calls after which the journal knows what the code is worth, or says not. *)
LEMMA JudgeStep ==
    ASSUME IInv, NEW w \in Workers, NEW l, Sound(l), Lives(w, l),
           NEW u \in BOOLEAN, NEW m \in BOOLEAN, code' \in [Workers -> {0, 1}],
           unverified' = [unverified EXCEPT ![w] = u], missed' = [missed EXCEPT ![w] = m],
           audit' \in [Workers -> Audits],
           u /\ ~m => l.conv \in Open \cup {"rejected"}
    PROVE  IInv'
  <1>1. /\ unverified' \in [Workers -> BOOLEAN] /\ missed' \in [Workers -> BOOLEAN]
        /\ unverified'[w] = u /\ missed'[w] = m
        /\ \A v \in Workers : v # w => unverified'[v] = unverified[v] /\ missed'[v] = missed[v]
    BY DEF IInv, LifeTypes
  <1>2. LifeTypes' /\ AuditTypes'
    BY <1>1, LivesStep DEF IInv, LifeTypes, AuditTypes, Lives, Kept
  <1>3. Recorded'
    BY <1>1, LivesStep, RecordedStep DEF IInv
  <1>4. QED
    BY <1>2, <1>3, LivesStep DEF IInv

(* A change of code.                                                        *)
LEMMA CodeTypes ==
    ASSUME LifeTypes, NEW w \in Workers
    PROVE  [code EXCEPT ![w] = 1 - @] \in [Workers -> {0, 1}]
  BY DEF LifeTypes

LEMMA PatchToolStep ==
    ASSUME IInv, NEW w \in Workers, NEW owner \in Scopes, PatchTool(w, owner)
    PROVE  IInv'
  <1> DEFINE l == RecordPatch(Of(w))
             m == (l.conv # "patching" \/ owner # w)
  <1>1. owner = w
    BY OwnMutation DEF IInv, PatchTool
  <1>2. Sound(l) /\ l.latest = "patching" /\ m \in BOOLEAN
    BY SoundScope, PatchSound
  <1>3. Lives(w, l)
    BY <1>1, <1>2 DEF PatchTool, Lives, Kept
  <1>4. /\ code' = [code EXCEPT ![w] = 1 - @]
        /\ unverified' = [unverified EXCEPT ![w] = TRUE] /\ missed' = [missed EXCEPT ![w] = m]
        /\ UNCHANGED audit
    BY DEF PatchTool, quality
  <1>5. ~m => l.conv = "patching"
    OBVIOUS
  <1> HIDE DEF l, m
  <1>6. code' \in [Workers -> {0, 1}] /\ audit' \in [Workers -> Audits]
    BY <1>4, CodeTypes DEF IInv, AuditTypes
  <1>7. QED
    BY <1>2, <1>3, <1>4, <1>5, <1>6, JudgeStep DEF Open

LEMMA VerifyToolStep ==
    ASSUME IInv, NEW w \in Workers, NEW owner \in Scopes, NEW passed \in BOOLEAN,
           VerifyTool(w, owner, passed)
    PROVE  IInv'
  <1> DEFINE l == RecordVerification(Of(w), passed)
             m == (~passed /\ l.conv \notin Unfinished)
  <1>1. owner = w
    BY OwnMutation DEF IInv, VerifyTool
  <1>2. /\ Sound(l) /\ l.latest = (IF passed THEN "verified" ELSE "rejected")
        /\ m \in BOOLEAN /\ (~passed) \in BOOLEAN
    BY SoundScope, VerifySound
  <1>3. Lives(w, l)
    BY <1>1, <1>2 DEF VerifyTool, Lives, Kept
  <1>4. /\ unverified' = [unverified EXCEPT ![w] = ~passed] /\ missed' = [missed EXCEPT ![w] = m]
        /\ UNCHANGED code
        /\ audit' \in {audit, [audit EXCEPT ![w].violations = @ \cup {"missing_validation_evidence"}]}
    BY DEF VerifyTool
  <1>5. ~passed /\ ~m => l.conv \in {"proposed", "patching", "rejected"}
    BY DEF Unfinished
  <1> HIDE DEF l, m
  <1>6. code' \in [Workers -> {0, 1}] /\ audit' \in [Workers -> Audits]
    BY <1>4 DEF IInv, LifeTypes, AuditTypes, Audits
  <1>7. QED
    BY <1>2, <1>3, <1>4, <1>5, <1>6, JudgeStep DEF Open

(* The hooks journal a sound lifecycle, or leave the scope as it is.        *)
LEMMA JournalStep ==
    ASSUME IInv, NEW w \in Workers, NEW key,
           Journal(w, key), UNCHANGED aliases, Kept
    PROVE  UNCHANGED lifecycle \/ \E l : Sound(l) /\ Lives(w, l)
  <1>1. CASE UNCHANGED lifecycle
    BY <1>1
  <1>2. CASE ~UNCHANGED lifecycle
    <2> DEFINE l == Twice(Of(w)).l
    <2>1. Sound(l)
      BY SoundScope, JournalSound
    <2>2. SetLife(w, l)
      BY <1>2 DEF Journal
    <2>3. Lives(w, l)
      BY <2>2 DEF SetLife, Lives
    <2>4. QED
      BY <2>1, <2>3
  <1>3. QED
    BY <1>1, <1>2

(* A call of the kernel, journaled or not.                                  *)
LEMMA KernelStep ==
    ASSUME IInv, NEW w \in Workers, UNCHANGED lifecycle \/ (\E l : Sound(l) /\ Lives(w, l)),
           UNCHANGED <<aliases, quality>>, Kept, code' \in [Workers -> {0, 1}],
           NEW u \in BOOLEAN, NEW m \in BOOLEAN,
           unverified' = [unverified EXCEPT ![w] = u], missed' = [missed EXCEPT ![w] = m],
           u /\ ~m => conv'[w] \in Open \cup {"rejected"}
    PROVE  IInv'
  <1>1. audit' \in [Workers -> Audits]
    BY DEF IInv, AuditTypes, quality
  <1>2. ASSUME NEW l, Sound(l), Lives(w, l)
        PROVE  IInv'
    <2>1. conv'[w] = l.conv
      BY <1>2, LivesStep
    <2>2. QED
      BY <1>1, <1>2, <2>1, JudgeStep
  <1>3. CASE UNCHANGED lifecycle
    <2>1. /\ unverified' \in [Workers -> BOOLEAN] /\ missed' \in [Workers -> BOOLEAN]
          /\ unverified'[w] = u /\ missed'[w] = m
          /\ \A v \in Workers : v # w => unverified'[v] = unverified[v] /\ missed'[v] = missed[v]
      BY DEF IInv, LifeTypes
    <2>2. LifeTypes' /\ AuditTypes' /\ OwnRows'
      BY <1>1, <1>3, <2>1 DEF IInv, LifeTypes, AuditTypes, OwnRows, lifecycle, Kept
    <2>3. Begun'
      BY <1>3 DEF IInv, Begun, Sound, Of, lifecycle
    <2>4. conv'[w] \in States /\ \A v \in Workers : conv'[v] = conv[v] /\ forced'[v] = forced[v]
      BY <1>3 DEF IInv, LifeTypes, Scopes, lifecycle
    <2>5. Recorded'
      BY <2>1, <2>4, RecordedStep DEF IInv
    <2>6. QED
      BY <2>2, <2>3, <2>5, KeptSteering DEF IInv
  <1>4. QED
    BY <1>2, <1>3

LEMMA NativePatchStep ==
    ASSUME IInv, NEW w \in Workers, NativePatch(w)
    PROVE  IInv'
  <1> DEFINE m == (conv'[w] # "patching")
  <1>1. PICK key : Journal(w, key)
    BY DEF NativePatch
  <1>2. /\ UNCHANGED <<aliases, quality>> /\ Kept /\ code' = [code EXCEPT ![w] = 1 - @]
        /\ unverified' = [unverified EXCEPT ![w] = TRUE] /\ missed' = [missed EXCEPT ![w] = m]
    BY DEF NativePatch, Kept
  <1>3. UNCHANGED lifecycle \/ \E l : Sound(l) /\ Lives(w, l)
    BY <1>1, <1>2, JournalStep
  <1>4. code' \in [Workers -> {0, 1}] /\ m \in BOOLEAN /\ (~m => conv'[w] \in Open \cup {"rejected"})
    BY <1>2, CodeTypes DEF IInv, Open
  <1> HIDE DEF m
  <1>5. QED
    BY <1>2, <1>3, <1>4, KernelStep

LEMMA NativeVerifyStep ==
    ASSUME IInv, NEW w \in Workers, NEW passed \in BOOLEAN, NativeVerify(w, passed)
    PROVE  IInv'
  <1> DEFINE m == (~passed /\ conv[w] \notin Unfinished)
  <1>1. /\ UNCHANGED <<lifecycle, aliases, quality>> /\ Kept /\ UNCHANGED code
        /\ unverified' = [unverified EXCEPT ![w] = ~passed] /\ missed' = [missed EXCEPT ![w] = m]
    BY DEF NativeVerify, Kept
  <1>2. code' \in [Workers -> {0, 1}] /\ m \in BOOLEAN /\ (~passed) \in BOOLEAN
    BY <1>1 DEF IInv, LifeTypes
  <1>3. ~passed /\ ~m => conv'[w] \in Open \cup {"rejected"}
    BY <1>1 DEF Open, Unfinished, lifecycle
  <1> HIDE DEF m
  <1>4. QED
    BY <1>1, <1>2, <1>3, KernelStep

-----------------------------------------------------------------------------
(* Steps of ROADMAP.md, of the audit and of the sessions                    *)

(* They leave the lifecycle and the code alone.                             *)
LEMMA KeptLife ==
    ASSUME IInv, UNCHANGED <<lifecycle, aliases, codeHist>>
    PROVE  LifeTypes' /\ OwnRows' /\ Begun' /\ Recorded'
  <1>1. LifeTypes' /\ OwnRows'
    BY DEF IInv, lifecycle, codeHist, LifeTypes, OwnRows
  <1>2. Begun'
    BY DEF IInv, lifecycle, Begun, Sound, Of
  <1>3. Recorded'
    BY DEF IInv, lifecycle, codeHist, Recorded
  <1>4. QED
    BY <1>1, <1>2, <1>3

LEMMA LinkStep ==
    ASSUME IInv, NEW w \in Workers, Link(w)
    PROVE  IInv'
  <1>1. UNCHANGED <<lifecycle, codeHist, quality, done>> /\ Kept
    BY DEF Link, Kept
  <1>2. OwnRows'
    BY DEF IInv, OwnRows, Link, lifecycle
  <1>3. LifeTypes' /\ AuditTypes'
    BY <1>1 DEF IInv, LifeTypes, AuditTypes, lifecycle, codeHist, quality
  <1>4. Begun'
    BY <1>1 DEF IInv, lifecycle, Begun, Sound, Of
  <1>5. Recorded'
    BY <1>1 DEF IInv, lifecycle, codeHist, Recorded
  <1>6. QED
    BY <1>1, <1>2, <1>3, <1>4, <1>5, KeptSteering DEF IInv

(* Steps of the audit alone.                                                *)
LEMMA AuditStep ==
    ASSUME IInv, UNCHANGED <<lifecycle, aliases, codeHist, valid, state, op, unvalidated, overlooked>>,
           snap' \in [Workers -> {"none", "open", "closed"}],
           audit' \in [Workers -> Audits], done' \subseteq Workers
    PROVE  IInv'
  <1>1. SteerTypes' /\ AuditTypes' /\ Marked'
    BY DEF IInv, SteerTypes, AuditTypes, Marked, InPlace
  <1>2. QED
    BY <1>1, KeptLife DEF IInv

(* What an audit finds.                                                     *)
LEMMA AuditedType ==
    ASSUME AuditTypes, NEW w \in Workers
    PROVE  [audit EXCEPT ![w] = Audited(w)] \in [Workers -> Audits]
  <1>1. audit[w] \in Audits
    BY DEF AuditTypes
  <1>2. Audited(w) \in Audits
    BY <1>1 DEF Audited, Audits
  <1>3. QED
    BY <1>2 DEF AuditTypes

LEMMA CachedType ==
    ASSUME SteerTypes, NEW w \in Workers
    PROVE  RoadmapCached(w) \in [Workers -> {"none", "open", "closed"}]
  BY DEF SteerTypes, RoadmapCached

LEMMA QualityStep ==
    ASSUME IInv, NEW w \in Workers,
           Forget(w) \/ Complete(w) \/ Status(w) \/ LayerFault(w) \/ Expire(w) \/ SpiderChanges
    PROVE  IInv'
  <1>1. SteerTypes /\ AuditTypes /\ audit \in [Workers -> Audits] /\ done \subseteq Workers
        /\ snap \in [Workers -> {"none", "open", "closed"}]
    BY DEF IInv, SteerTypes, AuditTypes
  <1>2. CASE Forget(w) \/ SpiderChanges
    BY <1>1, <1>2, AuditStep DEF Forget, SpiderChanges, steering, quality
  <1>3. CASE Complete(w)
    BY <1>1, <1>3, AuditStep, AuditedType, CachedType DEF Complete
  <1>4. CASE Status(w)
    BY <1>1, <1>4, AuditStep, AuditedType, CachedType DEF Status
  <1>5. CASE LayerFault(w)
    <2>1. audit' \in [Workers -> Audits]
      BY <1>1, <1>5 DEF LayerFault, Audits
    <2>2. QED
      BY <1>1, <1>5, <2>1, AuditStep DEF LayerFault, steering
  <1>6. CASE Expire(w)
    <2>1. audit' \in [Workers -> Audits] /\ snap' \in [Workers -> {"none", "open", "closed"}]
      BY <1>1, <1>6 DEF Expire, Audits
    <2>2. QED
      BY <1>1, <1>6, <2>1, AuditStep DEF Expire
  <1>7. QED
    BY <1>2, <1>3, <1>4, <1>5, <1>6

(* A change of ROADMAP.md by one of its writers, or from outside.           *)
LEMMA ChangeTypes ==
    ASSUME SteerTypes, NEW writers \in SUBSET Workers, NEW ok \in BOOLEAN, Change(writers, ok)
    PROVE  /\ valid' \in BOOLEAN /\ op' \in [Workers -> Operations] /\ unvalidated' \in BOOLEAN
           /\ snap' \in [Workers -> {"none", "open", "closed"}]
           /\ \A x \in writers : InPlace(x)'
  <1>1. op' = [x \in Workers |-> IF x \in writers THEN [pc |-> "wrote", old |-> FALSE]
                                 ELSE [op[x] EXCEPT !.old = @ \/ op[x].pc # "idle"]]
    BY DEF Change
  <1>2. ASSUME NEW x \in Workers
        PROVE  op'[x] \in Operations /\ (x \in writers => InPlace(x)')
    <2>1. op[x] \in Operations /\ op[x].old \in BOOLEAN
      BY DEF SteerTypes, Operations
    <2>2. CASE x \in writers
      <3>1. op'[x] = [pc |-> "wrote", old |-> FALSE]
        BY <1>1, <2>2
      <3>2. QED
        BY <3>1 DEF Operations, InPlace
    <2>3. CASE x \notin writers
      <3>1. op'[x] = [op[x] EXCEPT !.old = @ \/ op[x].pc # "idle"]
        BY <1>1, <2>3
      <3>2. QED
        BY <2>1, <2>3, <3>1 DEF Operations
    <2>4. QED
      BY <2>2, <2>3
  <1>3. op' \in [Workers -> Operations]
    BY <1>1, <1>2
  <1>4. QED
    BY <1>2, <1>3 DEF Change

LEMMA WriteStep ==
    ASSUME IInv, NEW w \in Workers, WriteRoadmap(w)
    PROVE  IInv'
  <1>1. PICK ok \in BOOLEAN : Change({w}, ok)
    BY DEF WriteRoadmap, IInv, SteerTypes
  <1>2. UNCHANGED <<lifecycle, aliases, codeHist, state, overlooked, audit, done>>
    BY DEF WriteRoadmap, quality
  <1>3. SteerTypes' /\ Marked'
    BY <1>1, <1>2, ChangeTypes DEF IInv, SteerTypes, Marked
  <1>4. AuditTypes'
    BY <1>2 DEF IInv, AuditTypes
  <1>5. QED
    BY <1>2, <1>3, <1>4, KeptLife DEF IInv

LEMMA EditStep ==
    ASSUME IInv, EditRoadmap
    PROVE  IInv'
  <1>1. PICK ok \in BOOLEAN : Change({}, ok)
    BY DEF EditRoadmap
  <1>2. UNCHANGED <<lifecycle, aliases, codeHist, state, audit, done>> /\ overlooked' = TRUE
    BY DEF EditRoadmap, quality
  <1>3. SteerTypes' /\ Marked'
    BY <1>1, <1>2, ChangeTypes DEF IInv, SteerTypes, Marked
  <1>4. AuditTypes'
    BY <1>2 DEF IInv, AuditTypes
  <1>5. QED
    BY <1>2, <1>3, <1>4, KeptLife DEF IInv

(* One worker's roadmap operation moves on; the others stay where they are. *)
LEMMA OpStep ==
    ASSUME SteerTypes, NEW w \in Workers, NEW o \in Operations, op' = [op EXCEPT ![w] = o]
    PROVE  /\ op' \in [Workers -> Operations]
           /\ InPlace(w)' <=> o.pc \in {"wrote", "marking", "saving"}
           /\ \A x \in Workers : x # w => (InPlace(x)' <=> InPlace(x))
  BY DEF SteerTypes, InPlace

LEMMA IdleOperation == Idle \in Operations /\ Idle.pc = "idle"
  BY DEF Idle, Operations

LEMMA ReadStep ==
    ASSUME IInv, NEW w \in Workers, ReadRoadmap(w) \/ NewSession(w)
    PROVE  IInv'
  <1>1. [pc |-> "read", old |-> FALSE] \in Operations /\ [pc |-> "wrote", old |-> FALSE] \in Operations
    BY DEF Operations
  <1>2. PICK o \in Operations : op' = [op EXCEPT ![w] = o]
    BY <1>1 DEF ReadRoadmap, NewSession
  <1>3. /\ UNCHANGED <<lifecycle, aliases, codeHist, valid, state, snap, unvalidated, overlooked, audit, done>>
        /\ op[w] = Idle
    BY DEF ReadRoadmap, NewSession, quality, Free
  <1>4. SteerTypes'
    BY <1>2, <1>3, OpStep DEF IInv, SteerTypes
  <1>5. Marked'
    <2>1. ~InPlace(w)
      BY <1>3, IdleOperation DEF InPlace
    <2>2. \A x \in Workers : InPlace(x) => InPlace(x)'
      BY <1>2, <2>1, OpStep DEF IInv
    <2>3. QED
      BY <1>3, <2>2 DEF IInv, Marked
  <1>6. AuditTypes'
    BY <1>3 DEF IInv, AuditTypes
  <1>7. QED
    BY <1>3, <1>4, <1>5, <1>6, KeptLife DEF IInv

LEMMA TruncateStep ==
    ASSUME IInv, NEW w \in Workers, Truncate(w)
    PROVE  IInv'
  <1> DEFINE o == [op[w] EXCEPT !.pc = IF @ = "wrote" THEN "marking" ELSE "saving"]
  <1>1. op' = [op EXCEPT ![w] = o]
    BY DEF Truncate
  <1>2. o \in Operations /\ o.pc \in {"marking", "saving"}
    BY DEF IInv, SteerTypes, Operations
  <1> HIDE DEF o
  <1>3. UNCHANGED <<lifecycle, aliases, codeHist, valid, snap, unvalidated, overlooked, audit, done>>
        /\ state' = "torn"
    BY DEF Truncate, quality
  <1>4. SteerTypes' /\ Marked'
    BY <1>1, <1>2, <1>3, OpStep DEF IInv, SteerTypes, Marked
  <1>5. AuditTypes'
    BY <1>3 DEF IInv, AuditTypes
  <1>6. QED
    BY <1>3, <1>4, <1>5, KeptLife DEF IInv

LEMMA StampedType ==
    ASSUME SteerTypes, NEW w \in Workers, Stamped(w)
    PROVE  snap' \in [Workers -> {"none", "open", "closed"}]
  BY DEF SteerTypes, Stamped

LEMMA PendingStep ==
    ASSUME IInv, NEW w \in Workers, MarkPending(w)
    PROVE  IInv'
  <1>1. /\ UNCHANGED <<lifecycle, aliases, codeHist, valid, unvalidated, audit, done>>
        /\ state' = "pending" /\ op' = [op EXCEPT ![w] = Idle] /\ overlooked' = FALSE
        /\ Stamped(w)
    BY DEF MarkPending, quality
  <1>2. SteerTypes' /\ Marked'
    BY <1>1, OpStep, IdleOperation, StampedType DEF IInv, SteerTypes, Marked
  <1>3. AuditTypes'
    BY <1>1 DEF IInv, AuditTypes
  <1>4. QED
    BY <1>1, <1>2, <1>3, KeptLife DEF IInv

LEMMA SaveStep ==
    ASSUME IInv, NEW w \in Workers, SaveValidation(w)
    PROVE  IInv'
  <1>1. /\ UNCHANGED <<lifecycle, aliases, codeHist, valid, audit, done>>
        /\ state' = "clear" /\ op' = [op EXCEPT ![w] = Idle] /\ Stamped(w)
        /\ unvalidated' = (unvalidated /\ op[w].old) /\ overlooked' = op[w].old
    BY DEF SaveValidation, quality
  <1>2. op[w].old \in BOOLEAN
    BY DEF IInv, SteerTypes, Operations
  <1>3. SteerTypes'
    BY <1>1, <1>2, OpStep, IdleOperation, StampedType DEF IInv, SteerTypes
  <1>4. Marked'
    BY <1>1, <1>2 DEF Marked
  <1>5. AuditTypes'
    BY <1>1 DEF IInv, AuditTypes
  <1>6. QED
    BY <1>1, <1>3, <1>4, <1>5, KeptLife DEF IInv

LEMMA CrashStep ==
    ASSUME IInv, NEW w \in Workers, Crash(w)
    PROVE  IInv'
  <1>1. /\ UNCHANGED <<lifecycle, aliases, codeHist, valid, state, unvalidated, done>>
        /\ op' = [op EXCEPT ![w] = Idle] /\ overlooked' = (overlooked \/ InPlace(w))
        /\ snap' = [snap EXCEPT ![w] = "none"] /\ audit' = [audit EXCEPT ![w] = NoAudit]
    BY DEF Crash
  <1>2. InPlace(w) \in BOOLEAN
    BY DEF InPlace
  <1>3. SteerTypes'
    BY <1>1, <1>2, OpStep, IdleOperation DEF IInv, SteerTypes
  <1>4. Marked'
    BY <1>1, OpStep, IdleOperation DEF IInv, Marked
  <1>5. AuditTypes'
    BY <1>1 DEF IInv, AuditTypes, NoAudit, Audits
  <1>6. QED
    BY <1>1, <1>3, <1>4, <1>5, KeptLife DEF IInv

LEMMA FailStep ==
    ASSUME IInv, NEW w \in Workers, WriteFails(w)
    PROVE  IInv'
  <1>1. /\ UNCHANGED <<lifecycle, aliases, codeHist, valid, state, snap, unvalidated, audit, done>>
        /\ op' = [op EXCEPT ![w] = Idle] /\ overlooked' = (overlooked \/ InPlace(w))
    BY DEF WriteFails, quality
  <1>2. InPlace(w) \in BOOLEAN
    BY DEF InPlace
  <1>3. SteerTypes'
    BY <1>1, <1>2, OpStep, IdleOperation DEF IInv, SteerTypes
  <1>4. Marked'
    BY <1>1, OpStep, IdleOperation DEF IInv, Marked
  <1>5. AuditTypes'
    BY <1>1 DEF IInv, AuditTypes
  <1>6. QED
    BY <1>1, <1>3, <1>4, <1>5, KeptLife DEF IInv

-----------------------------------------------------------------------------
(* The theorems                                                             *)

LEMMA InitInv ==
    ASSUME Init
    PROVE  IInv
  <1>1. LifeTypes
    BY DEF Init, LifeTypes, States, Rows
  <1>2. SteerTypes
    BY IdleOperation DEF Init, SteerTypes
  <1>3. AuditTypes
    BY DEF Init, AuditTypes, NoAudit, Audits
  <1>4. OwnRows
    BY DEF Init, OwnRows, Scopes
  <1>5. Begun
    BY DEF Init, Begun, Sound, Of, Life, States, Rows, Open, Scopes
  <1>6. Recorded /\ Marked
    BY DEF Init, Recorded, Marked
  <1>7. QED
    BY <1>1, <1>2, <1>3, <1>4, <1>5, <1>6 DEF IInv

LEMMA StutterInv ==
    ASSUME IInv, UNCHANGED vars
    PROVE  IInv'
  <1>1. UNCHANGED <<lifecycle, aliases, codeHist, steering, audit, done>>
    BY DEF vars, quality
  <1>2. AuditTypes'
    BY <1>1 DEF IInv, AuditTypes
  <1>3. QED
    BY <1>1, <1>2, KeptLife, KeptSteering DEF IInv, Kept

LEMMA NextInv ==
    ASSUME IInv, Next
    PROVE  IInv'
  <1>1. ASSUME NEW w \in Workers,
               \/ Link(w) \/ Begin(w) \/ RequestReview(w) \/ MarkConverged(w) \/ NativePatch(w)
               \/ \E owner \in Scopes : PatchTool(w, owner)
               \/ \E owner \in Scopes, passed \in BOOLEAN : VerifyTool(w, owner, passed)
               \/ \E passed \in BOOLEAN : NativeVerify(w, passed)
        PROVE  IInv'
    BY <1>1, LinkStep, BeginStep, ReviewStep, ConvergedStep, NativePatchStep, PatchToolStep, VerifyToolStep,
       NativeVerifyStep
  <1>2. ASSUME NEW w \in Workers,
               \/ WriteRoadmap(w) \/ ReadRoadmap(w) \/ Truncate(w)
               \/ MarkPending(w) \/ SaveValidation(w) \/ NewSession(w)
               \/ Forget(w) \/ Complete(w) \/ Status(w) \/ LayerFault(w) \/ Expire(w) \/ Crash(w)
               \/ WriteFails(w)
        PROVE  IInv'
    BY <1>2, WriteStep, ReadStep, TruncateStep, PendingStep, SaveStep, QualityStep, CrashStep,
       FailStep
  <1>3. CASE EditRoadmap
    BY <1>3, EditStep
  <1>4. CASE SpiderChanges
    BY <1>4, AuditStep DEF SpiderChanges, steering, IInv, SteerTypes, AuditTypes
  <1>5. QED
    BY <1>1, <1>2, <1>3, <1>4 DEF Next

(* The invariant holds in every state.                                      *)
THEOREM GatesInvariant == Spec => []IInv
  <1>1. Init => IInv
    BY InitInv
  <1>2. IInv /\ [Next]_vars => IInv'
    BY NextInv, StutterInv
  <1>3. QED
    BY <1>1, <1>2, PTL DEF Spec

(* The typing of the specification.                                         *)
LEMMA TypesHold == IInv => Types
  <1> SUFFICES ASSUME IInv PROVE Types
    OBVIOUS
  <1>1. \A w \in Workers : /\ audit[w].gate \in {"none", "blocked", "passed"}
                            /\ audit[w].violations \subseteq DOMAIN Weight
    BY DEF IInv, AuditTypes, Audits, Weight
  <1>2. aliases \subseteq Scopes \X Scopes
    BY DEF IInv, OwnRows, Scopes
  <1>3. QED
    BY <1>1, <1>2, ValidRows DEF IInv, LifeTypes, SteerTypes, AuditTypes, Types, Rows, Operations

(* Only Complete(w) completes the task of w.                                *)
LEMMA Completion ==
    ASSUME Next, NEW w \in Workers, Completes(w)
    PROVE  Complete(w)
  <1>1. ~UNCHANGED done
    BY DEF Completes
  <1>2. PICK v \in Workers : Complete(v)
    <2>1. ASSUME NEW v \in Workers,
                 \/ Link(v) \/ Begin(v) \/ RequestReview(v) \/ MarkConverged(v) \/ NativePatch(v) \/ Forget(v)
                 \/ \E owner \in Scopes : PatchTool(v, owner)
                 \/ \E owner \in Scopes, passed \in BOOLEAN : VerifyTool(v, owner, passed)
                 \/ \E passed \in BOOLEAN : NativeVerify(v, passed)
          PROVE  FALSE
      BY <1>1, <2>1 DEF Link, Begin, RequestReview, MarkConverged, NativePatch, Forget, PatchTool, VerifyTool,
         NativeVerify
    <2>2. ASSUME NEW v \in Workers,
                 \/ WriteRoadmap(v) \/ ReadRoadmap(v) \/ Truncate(v) \/ MarkPending(v) \/ SaveValidation(v)
                 \/ NewSession(v) \/ Status(v) \/ LayerFault(v) \/ Expire(v) \/ Crash(v)
                 \/ WriteFails(v)
          PROVE  FALSE
      BY <1>1, <2>2 DEF WriteRoadmap, ReadRoadmap, Truncate, MarkPending, SaveValidation, NewSession, Status,
         LayerFault, Expire, Crash, WriteFails
    <2>3. ~EditRoadmap /\ ~SpiderChanges
      BY <1>1 DEF EditRoadmap, SpiderChanges
    <2>4. QED
      BY <2>1, <2>2, <2>3 DEF Next
  <1>3. done' \subseteq done \cup {v}
    BY <1>2 DEF Complete
  <1>4. QED
    BY <1>2, <1>3 DEF Completes

(* When the gate finds a cluster of one scope converged, that scope is.     *)
LEMMA AloneConverged ==
    ASSUME LifeTypes, NEW w \in Workers, Cluster(w) = {w}, ClusterState(w) = "converged"
    PROVE  conv[w] = "converged"
  <1> DEFINE S == {i \in DOMAIN Most : \E a \in Cluster(w) : conv[a] = Most[i]}
  <1>1. conv[w] \in States
    BY DEF LifeTypes, Scopes
  <1>2. /\ DOMAIN Most = 1..7
        /\ Most[1] = "converged" /\ Most[2] = "ready" /\ Most[3] = "verifying" /\ Most[4] = "patching"
        /\ Most[5] = "proposed" /\ Most[6] = "rejected" /\ Most[7] = "idle"
    BY DEF Most
  <1>3. PICK i \in 1..7 : conv[w] = Most[i]
    BY <1>1, <1>2 DEF States
  <1>4. S = {i}
    BY <1>2, <1>3
  <1>5. Min(S) = i
    BY <1>4 DEF Min
  <1>6. QED
    BY <1>3, <1>5 DEF ClusterState

(* For any workers, scopes and budgets a task is completed only with code   *)
(* that passed a verification after its last change and failure, with the   *)
(* exceptions the property names (evaluate_kanban_complete_gates).          *)
THEOREM DoneIsVerified == Spec => VerifiedBeforeDone
  <1> DEFINE Verified == \A w \in Workers : Completes(w) =>
                 \/ conv[w] # "converged" /\ Cluster(w) # {w}
                 \/ forced[w]
                 \/ unverified[w] => missed[w]
  <1>1. IInv /\ [Next]_vars => [Verified]_vars
    <2> SUFFICES ASSUME IInv, Next, NEW w \in Workers, Completes(w)
                 PROVE  \/ conv[w] # "converged" /\ Cluster(w) # {w}
                        \/ forced[w]
                        \/ unverified[w] => missed[w]
      OBVIOUS
    <2>1. ClusterState(w) = "converged"
      BY Completion DEF Complete
    <2>2. CASE conv[w] # "converged"
      BY <2>1, <2>2, AloneConverged DEF IInv
    <2>3. CASE conv[w] = "converged"
      BY <2>3 DEF IInv, Recorded, Open
    <2>4. QED
      BY <2>2, <2>3
  <1>2. QED
    BY <1>1, GatesInvariant, TypesHold, PTL DEF Spec, VerifiedBeforeDone

(* For any workers, scopes and budgets a task is completed only with a      *)
(* ROADMAP.md that a validation has read, with the exceptions the property  *)
(* names (the roadmap layer of evaluate_kanban_complete_gates).             *)
THEOREM DoneIsValidated == Spec => ValidatedBeforeDone
  <1> DEFINE Validated == \A w \in Workers : Completes(w) =>
                 \/ ~unvalidated \/ overlooked
                 \/ state = "pending" /\ snap[w] = "open"
                 \/ \E x \in Workers \ {w} : InPlace(x)
  <1>1. IInv /\ [Next]_vars => [Validated]_vars
    <2> SUFFICES ASSUME IInv, Next, NEW w \in Workers, Completes(w), unvalidated, ~overlooked
                 PROVE  \/ state = "pending" /\ snap[w] = "open"
                        \/ \E x \in Workers \ {w} : InPlace(x)
      OBVIOUS
    <2>1. op[w] = Idle /\ RoadmapOpen(w)
      BY Completion DEF Complete, Free, Completes
    <2>2. ~InPlace(w)
      BY <2>1, IdleOperation DEF InPlace
    <2>3. CASE state = "pending"
      BY <2>1, <2>3 DEF RoadmapOpen
    <2>4. CASE \E x \in Workers : InPlace(x)
      BY <2>2, <2>4
    <2>5. QED
      BY <2>3, <2>4 DEF IInv, Marked
  <1>2. QED
    BY <1>1, GatesInvariant, PTL DEF Spec, ValidatedBeforeDone

-----------------------------------------------------------------------------
(* Induction, and folds                                                     *)

(* A set of numbers has a least one.                                        *)
LEMMA Least ==
  ASSUME NEW T \in SUBSET Nat, T # {}
  PROVE  \E n \in T : \A m \in T : n <= m
<1>1. PICK n \in T : \A m \in T : ~ (<<m, n>> \in OpToRel(<, Nat))
  BY NatLessThanWellFounded, WFMin
<1>2. \A m \in T : ~ (m < n)
  BY <1>1 DEF OpToRel
<1> QED BY <1>2

(* Induction over the numbers, for membership of a set.                     *)
LEMMA Induction ==
  ASSUME NEW T, 0 \in T, \A n \in Nat : n \in T => n + 1 \in T
  PROVE  \A n \in Nat : n \in T
<1> DEFINE R == {n \in Nat : n \notin T}
<1> SUFFICES ASSUME R # {} PROVE FALSE
  OBVIOUS
<1>1. PICK n \in R : \A m \in R : n <= m
  BY Least, R \in SUBSET Nat
<1>2. n \in Nat /\ n # 0 /\ n - 1 \in Nat /\ n - 1 \notin R
  BY <1>1
<1>3. (n - 1) + 1 = n
  BY <1>2
<1> QED BY <1>1, <1>2, <1>3

(* The greatest number of a set of places.                                  *)
LEMMA MaxIs ==
  ASSUME NEW n \in Nat, NEW s \in SUBSET (1..n), s # {}
  PROVE  Max(s) \in s /\ \A i \in s : i <= Max(s)
<1> DEFINE T == {n - i : i \in s}
<1>0. n \in Nat /\ \A i \in s : i \in Nat /\ n - i \in Nat
  OBVIOUS
<1>1. T \in SUBSET Nat /\ T # {}
  BY <1>0
<1>2. PICK l \in T : \A m \in T : l <= m
  BY <1>1, Least
<1>3. PICK i \in s : l = n - i
  BY <1>2
<1>4. \A j \in s : n - i <= n - j
  BY <1>2, <1>3
<1>5. \A j \in s : i >= j
  BY <1>3, <1>4
<1>6. \E x \in s : \A y \in s : x >= y
  BY <1>3, <1>5
<1>7. Max(s) \in s /\ \A y \in s : Max(s) >= y
  BY <1>6 DEF Max
<1> QED BY <1>7

(* The largest of the first numbers, and the others.                        *)
LEMMA MaxLast ==
  ASSUME NEW n \in Nat
  PROVE  Max(1..(n + 1)) = n + 1 /\ (1..(n + 1)) \ {n + 1} = 1..n
<1>1. 1..(n + 1) \in SUBSET (1..(n + 1)) /\ n + 1 \in 1..(n + 1) /\ n + 1 \in Nat
  OBVIOUS
<1>2. 1..(n + 1) # {}
  BY <1>1
<1>3. Max(1..(n + 1)) \in 1..(n + 1) /\ \A i \in 1..(n + 1) : i <= Max(1..(n + 1))
  BY <1>1, <1>2, MaxIs
<1> QED BY <1>1, <1>3

IsFold(V, n, F, base, g) ==
    /\ g \in [SUBSET (1..n) -> V]
    /\ \A s \in SUBSET (1..n) : g[s] = IF s = {} THEN base ELSE F[<<g[s \ {Max(s)}], Max(s)>>]

(* What MapThenFoldSet iterates exists, when the function it iterates stays *)
(* in a set.                                                                *)
LEMMA FoldExists ==
  ASSUME NEW V, NEW n \in Nat, NEW F \in [V \X (1..n) -> V], NEW base \in V
  PROVE  \E g : IsFold(V, n, F, base, g)
<1> DEFINE Fits(m, g) == /\ g \in [SUBSET (1..m) -> V]
                         /\ \A s \in SUBSET (1..m) :
                              g[s] = IF s = {} THEN base ELSE F[<<g[s \ {Max(s)}], Max(s)>>]
<1> DEFINE T == {m \in Nat : m <= n => \E g : Fits(m, g)}
<1>0. \A m : m \in T <=> m \in Nat /\ (m <= n => \E g : Fits(m, g))
  <2> HIDE DEF Fits
  <2> QED OBVIOUS
<1> HIDE DEF T
<1>1. 0 \in T
  <2> DEFINE g == [s \in SUBSET (1..0) |-> base]
  <2>1. \A s \in SUBSET (1..0) : s = {}
    OBVIOUS
  <2>2. Fits(0, g)
    BY <2>1
  <2> HIDE DEF Fits, g
  <2> QED BY <2>2, <1>0
<1>2. ASSUME NEW m \in Nat, m \in T
      PROVE  m + 1 \in T
  <2> SUFFICES ASSUME m + 1 <= n
               PROVE  \E g : Fits(m + 1, g)
    <3> HIDE DEF Fits
    <3> QED BY <1>0
  <2>0. m <= n
    OBVIOUS
  <2>1. PICK h : Fits(m, h)
    <3> HIDE DEF Fits
    <3> QED BY <1>0, <1>2, <2>0
  <2> DEFINE S == SUBSET (1..(m + 1))
  <2> DEFINE g == [s \in S |-> IF m + 1 \in s THEN F[<<h[s \ {m + 1}], m + 1>>] ELSE h[s]]
  <2>2. \A s \in S : /\ m + 1 \in s => s \ {m + 1} \in SUBSET (1..m)
                     /\ m + 1 \notin s => s \in SUBSET (1..m)
    OBVIOUS
  <2>3. \A v \in V : F[<<v, m + 1>>] \in V
    <3>1. m + 1 \in 1..n
      OBVIOUS
    <3> QED BY <3>1
  <2>4. g \in [S -> V]
    BY <2>1, <2>2, <2>3
  <2>5. ASSUME NEW s \in S
        PROVE  g[s] = IF s = {} THEN base ELSE F[<<g[s \ {Max(s)}], Max(s)>>]
    <3>1. CASE m + 1 \in s
      <4>1. Max(s) \in s /\ m + 1 <= Max(s) /\ s # {}
        BY <3>1, MaxIs, m + 1 \in Nat
      <4>2. Max(s) = m + 1
        <5>1. Max(s) \in 1..(m + 1)
          BY <4>1
        <5> QED BY <4>1, <5>1
      <4>3. s \ {m + 1} \in S /\ m + 1 \notin s \ {m + 1}
        OBVIOUS
      <4>4. g[s \ {m + 1}] = h[s \ {m + 1}]
        BY <4>3
      <4> QED BY <3>1, <4>1, <4>2, <4>4
    <3>2. CASE m + 1 \notin s
      <4>1. s \in SUBSET (1..m) /\ g[s] = h[s]
        BY <2>2, <3>2
      <4>2. s \ {Max(s)} \in S /\ m + 1 \notin s \ {Max(s)}
        BY <3>2
      <4>3. g[s \ {Max(s)}] = h[s \ {Max(s)}]
        BY <4>2
      <4> QED BY <2>1, <4>1, <4>3
    <3> QED BY <3>1, <3>2
  <2> QED BY <2>4, <2>5
<1>3. n \in T
  BY <1>1, <1>2, Induction
<1>4. PICK g : Fits(n, g)
  <2> HIDE DEF Fits
  <2> QED BY <1>0, <1>3
<1> QED BY <1>4 DEF IsFold

-----------------------------------------------------------------------------
(* One row                                                                  *)

(* The rows that operations leave: without an Increment object for a        *)
(* number, and all alike when they do not exist.                            *)
Clean == {row \in Row : ~row.raw /\ (row.exists \/ row = NoRow)}

(* What an operation does to the row of one key.                            *)
Effect(k, row, write) ==
    IF k \notin write.ids THEN row
    ELSE CASE write.type = "delete" -> NoRow
           [] write.type = "update" -> IF row.exists THEN Assign(row, write) ELSE NoRow
           [] OTHER -> Assign(row, write)

(* The fields of an operation.                                              *)
LEMMA OpIs ==
  ASSUME NEW write \in Op
  PROVE  /\ write.type \in {"insert", "upsert", "update", "delete"} /\ write.ids \in SUBSET Keys
         /\ write.eq \in BOOLEAN /\ write.val \in Vals \cup {"keep"}
         /\ write.num.kind \in {"keep", "set", "inc"} /\ write.num.by \in Nat
BY DEF Op, Num

(* A missing row is clean.                                                  *)
LEMMA NoRowClean == NoRow \in Clean /\ ~NoRow.exists
BY DEF Clean, NoRow, Row

(* The fields of a clean row; two missing rows are the same.                *)
LEMMA CleanIs ==
  ASSUME NEW row \in Clean
  PROVE  /\ row.val \in Vals \cup {"none"} /\ row.n \in Nat /\ row.raw = FALSE /\ row.exists \in BOOLEAN
         /\ row = [val |-> row.val, n |-> row.n, raw |-> row.raw, exists |-> row.exists]
         /\ ~row.exists => row = NoRow
BY DEF Clean, Row

(* What executeSingleOp makes of a row.                                     *)
LEMMA AssignIs ==
  ASSUME NEW row \in Clean, NEW write \in Op
  PROVE  /\ Assign(row, write) \in Clean /\ Assign(row, write).exists
         /\ Assign(row, write).val = IF write.val = "keep" THEN row.val ELSE write.val
         /\ write.num.kind = "keep" => Assign(row, write).n = row.n
         /\ write.num.kind = "set" => Assign(row, write).n = write.num.by
         /\ write.num.kind = "inc" => Assign(row, write).n = row.n + write.num.by
<1> DEFINE new == Assign(row, write)
<1>1. row.raw = FALSE /\ row.n \in Nat /\ row.val \in Vals \cup {"none"}
  BY CleanIs
<1>2. write.num.kind \in {"keep", "set", "inc"} /\ write.num.by \in Nat /\ write.val \in Vals \cup {"keep"}
  BY OpIs
<1>3. /\ write.num.kind = "keep" => new.n = row.n
      /\ write.num.kind = "set" => new.n = write.num.by
      /\ write.num.kind = "inc" => new.n = row.n + write.num.by
  BY <1>1 DEF Assign
<1>a. /\ new.val = IF write.val = "keep" THEN row.val ELSE write.val
      /\ new.raw = (row.raw /\ write.num.kind = "keep") /\ new.exists = TRUE
      /\ new = [val |-> new.val, n |-> new.n, raw |-> new.raw, exists |-> new.exists]
  <2> DEFINE val == IF write.val = "keep" THEN row.val ELSE write.val
  <2> DEFINE raw == row.raw /\ write.num.kind = "keep"
  <2>1. PICK m : new = [val |-> val, n |-> m, raw |-> raw, exists |-> TRUE]
    BY Zenon DEF Assign
  <2> HIDE DEF new, val, raw
  <2>2. /\ new.val = val /\ new.raw = raw /\ new.exists = TRUE
        /\ new = [val |-> new.val, n |-> new.n, raw |-> new.raw, exists |-> new.exists]
    BY <2>1
  <2> QED BY <2>2 DEF val, raw
<1>4. /\ new.val = IF write.val = "keep" THEN row.val ELSE write.val
      /\ new.raw = FALSE /\ new.exists = TRUE
      /\ new = [val |-> new.val, n |-> new.n, raw |-> new.raw, exists |-> new.exists]
  <2> HIDE DEF new
  <2> QED BY <1>1, <1>a
<1>5. new.n \in Nat /\ new.val \in Vals \cup {"none"}
  BY <1>1, <1>2, <1>3, <1>4
<1> HIDE DEF new
<1>6. new \in Clean
  BY <1>4, <1>5 DEF Clean, Row
<1> QED BY <1>3, <1>4, <1>6 DEF new

(* Rows are the same when their fields are.                                 *)
LEMMA SameRow ==
  ASSUME NEW x \in Clean, NEW y \in Clean, x.val = y.val, x.n = y.n, x.exists = y.exists
  PROVE  x = y
BY CleanIs, ZenonT(60)

(* What one operation does to one row, by its type.                         *)
LEMMA EffectIs ==
  ASSUME NEW k, NEW row \in Clean, NEW write \in Op
  PROVE  /\ Effect(k, row, write) \in Clean
         /\ k \notin write.ids => Effect(k, row, write) = row
         /\ k \in write.ids =>
              /\ write.type = "delete" => Effect(k, row, write) = NoRow
              /\ write.type = "update" /\ row.exists => Effect(k, row, write) = Assign(row, write)
              /\ write.type = "update" /\ ~row.exists => Effect(k, row, write) = row
              /\ write.type \in {"insert", "upsert"} => Effect(k, row, write) = Assign(row, write)
BY AssignIs, CleanIs, NoRowClean, OpIs DEF Effect

-----------------------------------------------------------------------------
(* A sequence of operations                                                 *)

Tables == [Keys -> Clean]

(* Running an operation is its effect on every row; only an insert over a   *)
(* row fails.                                                               *)
LEMMA RunIs ==
  ASSUME NEW result \in Tables \X BOOLEAN, NEW write \in Op
  PROVE  /\ Run(result, write) \in Tables \X BOOLEAN
         /\ \A k \in Keys : Run(result, write)[1][k] = Effect(k, result[1][k], write)
         /\ Run(result, write)[2] =
              (result[2] /\ (write.type = "insert" => \A k \in write.ids : ~result[1][k].exists))
<1>1. result[1] \in Tables /\ result[2] \in BOOLEAN
  OBVIOUS
<1>2. Run(result, write) =
        <<[k \in Keys |-> Effect(k, result[1][k], write)],
          result[2] /\ (write.type = "insert" => \A k \in write.ids : ~result[1][k].exists)>>
  BY DEF Run, Effect
<1>3. \A k \in Keys : Effect(k, result[1][k], write) \in Clean
  BY <1>1, EffectIs DEF Tables
<1>4. [k \in Keys |-> Effect(k, result[1][k], write)] \in Tables
  BY <1>3 DEF Tables
<1>5. (result[2] /\ (write.type = "insert" => \A k \in write.ids : ~result[1][k].exists)) \in BOOLEAN
  OBVIOUS
<1>6. Run(result, write) \in Tables \X BOOLEAN
  <2> DEFINE a == [k \in Keys |-> Effect(k, result[1][k], write)]
  <2> DEFINE b == result[2] /\ (write.type = "insert" => \A k \in write.ids : ~result[1][k].exists)
  <2>1. a \in Tables /\ b \in BOOLEAN /\ Run(result, write) = <<a, b>>
    BY <1>2, <1>4, <1>5
  <2> HIDE DEF a, b
  <2> QED BY <2>1
<1> QED BY <1>2, <1>6

(* The tables between the operations.                                       *)
LEMMA ExecutedIs ==
  ASSUME NEW rows \in Tables, NEW ops \in Seq(Op)
  PROVE  \E r \in [0..Len(ops) -> Tables \X BOOLEAN] :
            /\ r[0] = <<rows, TRUE>> /\ Executed(rows, ops) = r[Len(ops)]
            /\ \A i \in 1..Len(ops) : r[i] = Run(r[i - 1], ops[i])
<1> DEFINE n == Len(ops)
<1> DEFINE V == Tables \X BOOLEAN
<1> DEFINE base == <<rows, TRUE>>
<1> DEFINE F == [x \in V \X (1..n) |-> Run(x[1], ops[x[2]])]
<1> DEFINE iter == CHOOSE f : f = [s \in SUBSET DOMAIN ops |->
                                     IF s = {} THEN base ELSE Run(f[s \ {Max(s)}], ops[Max(s)])]
<1>1. Executed(rows, ops) = iter[DOMAIN ops]
  BY DEF Executed, FoldLeft, MapThenFoldSet
<1>a. base \in V
  OBVIOUS
<1>2. n \in Nat /\ DOMAIN ops = 1..n /\ base \in V /\ \A i \in 1..n : ops[i] \in Op
  <2> HIDE DEF base, V
  <2> QED BY <1>a
<1>3. \A v \in V : \A i \in 1..n : Run(v, ops[i]) \in V /\ F[<<v, i>>] = Run(v, ops[i])
  BY <1>2, RunIs
<1>4. F \in [V \X (1..n) -> V]
  BY <1>3
<1> HIDE DEF n, V, base, F
<1>b. PICK g : IsFold(V, n, F, base, g)
  BY <1>2, <1>4, FoldExists
<1>5. /\ g \in [SUBSET (1..n) -> V]
      /\ \A s \in SUBSET (1..n) : g[s] = IF s = {} THEN base ELSE F[<<g[s \ {Max(s)}], Max(s)>>]
  BY <1>b DEF IsFold
<1>6. \A s \in SUBSET (1..n) : s # {} => Max(s) \in 1..n /\ g[s \ {Max(s)}] \in V
  BY <1>2, <1>5, MaxIs
<1>7. g = [s \in SUBSET (1..n) |-> IF s = {} THEN base ELSE Run(g[s \ {Max(s)}], ops[Max(s)])]
  <2>1. \A s \in SUBSET (1..n) :
            g[s] = IF s = {} THEN base ELSE Run(g[s \ {Max(s)}], ops[Max(s)])
    BY <1>3, <1>5, <1>6
  <2> QED BY <1>5, <2>1
<1>8. iter = [s \in SUBSET (1..n) |-> IF s = {} THEN base ELSE Run(iter[s \ {Max(s)}], ops[Max(s)])]
  BY <1>2, <1>7
<1> HIDE DEF iter
<1>9. iter[1..0] = base
  BY <1>8
<1>10. \A i \in Nat : i + 1 <= n => iter[1..(i + 1)] = Run(iter[1..i], ops[i + 1])
  <2> TAKE i \in Nat
  <2> HAVE i + 1 <= n
  <2>1. Max(1..(i + 1)) = i + 1 /\ (1..(i + 1)) \ {i + 1} = 1..i
    BY MaxLast
  <2>2. 1..(i + 1) \in SUBSET (1..n) /\ i + 1 \in 1..(i + 1)
    BY <1>2
  <2> QED BY <1>8, <2>1, <2>2
<1> DEFINE T == {i \in Nat : i <= n => iter[1..i] \in V}
<1>12. \A i \in 0..n : iter[1..i] \in V
  <2>1. 0 \in T
    BY <1>2, <1>9
  <2>2. ASSUME NEW i \in Nat, i \in T
        PROVE  i + 1 \in T
    <3>1. CASE i + 1 <= n
      <4>1. i <= n /\ iter[1..i] \in V /\ i + 1 \in 1..n
        BY <1>2, <2>2, <3>1
      <4>2. iter[1..(i + 1)] \in V
        BY <1>3, <1>10, <3>1, <4>1
      <4> QED BY <4>2
    <3>2. CASE ~(i + 1 <= n)
      BY <3>2
    <3> QED BY <3>1, <3>2
  <2>3. \A i \in Nat : i \in T
    <3> HIDE DEF T
    <3> QED BY <2>1, <2>2, Induction
  <2> QED BY <1>2, <2>3
<1> DEFINE r == [i \in 0..n |-> iter[1..i]]
<1>13. r \in [0..n -> V]
  BY <1>12
<1>14. r[0] = base /\ Executed(rows, ops) = r[n]
  BY <1>1, <1>2, <1>9
<1>15. ASSUME NEW i \in 1..n
       PROVE  r[i] = Run(r[i - 1], ops[i])
  <2>1. i - 1 \in Nat /\ (i - 1) + 1 = i /\ i - 1 \in 0..n /\ i \in 0..n
    BY <1>2
  <2> QED BY <1>10, <2>1, <1>2
<1> HIDE DEF r
<1> QED BY <1>13, <1>14, <1>15 DEF n, V, base

(* The row of a key as a sequence of operations leaves it, after each.      *)
IsTrail(k, x, ops, r) ==
    /\ r \in [0..Len(ops) -> Clean] /\ r[0] = x
    /\ \A i \in 1..Len(ops) : r[i] = Effect(k, r[i - 1], ops[i])
Trail(k, x, ops) == CHOOSE r : IsTrail(k, x, ops, r)
After(k, x, ops) == Trail(k, x, ops)[Len(ops)]

(* One row of a run of operations is a trail of that row.                   *)
LEMMA RowsOfExecuted ==
  ASSUME NEW rows \in Tables, NEW ops \in Seq(Op), NEW r \in [0..Len(ops) -> Tables \X BOOLEAN],
         r[0] = <<rows, TRUE>>, \A i \in 1..Len(ops) : r[i] = Run(r[i - 1], ops[i]),
         NEW k \in Keys
  PROVE  IsTrail(k, rows[k], ops, [i \in 0..Len(ops) |-> r[i][1][k]])
<1> DEFINE t == [i \in 0..Len(ops) |-> r[i][1][k]]
<1>1. t \in [0..Len(ops) -> Clean] /\ t[0] = rows[k]
  BY DEF Tables
<1>2. ASSUME NEW i \in 1..Len(ops)
      PROVE  t[i] = Effect(k, t[i - 1], ops[i])
  <2>1. i - 1 \in 0..Len(ops) /\ i \in 0..Len(ops) /\ ops[i] \in Op
    OBVIOUS
  <2>2. r[i - 1] \in Tables \X BOOLEAN
    BY <2>1
  <2>3. Run(r[i - 1], ops[i])[1][k] = Effect(k, r[i - 1][1][k], ops[i])
    <3> DEFINE a == r[i - 1]
    <3> DEFINE write == ops[i]
    <3>1. a \in Tables \X BOOLEAN /\ write \in Op /\ k \in Keys
      BY <2>1, <2>2
    <3> HIDE DEF a, write
    <3>2. Run(a, write)[1][k] = Effect(k, a[1][k], write)
      BY ONLY <3>1, RunIs
    <3> QED BY <3>2 DEF a, write
  <2>4. t[i] = r[i][1][k] /\ t[i - 1] = r[i - 1][1][k]
    BY <2>1
  <2>5. r[i] = Run(r[i - 1], ops[i])
    OBVIOUS
  <2> HIDE DEF t
  <2> QED BY ONLY <2>3, <2>4, <2>5
<1> QED BY <1>1, <1>2 DEF IsTrail

(* There is one trail, it starts at the row, and each place is the effect   *)
(* of an operation on the one before.                                       *)
LEMMA TrailIs ==
  ASSUME NEW k \in Keys, NEW x \in Clean, NEW ops \in Seq(Op)
  PROVE  /\ IsTrail(k, x, ops, Trail(k, x, ops))
         /\ Trail(k, x, ops) \in [0..Len(ops) -> Clean]
         /\ Trail(k, x, ops)[0] = x
         /\ \A i \in 1..Len(ops) :
              Trail(k, x, ops)[i] = Effect(k, Trail(k, x, ops)[i - 1], ops[i])
         /\ After(k, x, ops) \in Clean
<1> DEFINE rows == [j \in Keys |-> x]
<1>1. rows \in Tables /\ rows[k] = x
  BY DEF Tables
<1>2. \E r : IsTrail(k, x, ops, r)
  BY <1>1, ExecutedIs, RowsOfExecuted
<1>3. IsTrail(k, x, ops, Trail(k, x, ops))
  BY <1>2 DEF Trail
<1>4. Len(ops) \in 0..Len(ops)
  OBVIOUS
<1> QED BY <1>3, <1>4 DEF IsTrail, After

(* There is only one such function; two sequences that agree up to a place  *)
(* have the same rows up to there.                                          *)
LEMMA Alike ==
  ASSUME NEW k \in Keys, NEW x \in Clean, NEW s \in Seq(Op), NEW t \in Seq(Op),
         NEW f, NEW g, IsTrail(k, x, s, f), IsTrail(k, x, t, g),
         NEW n \in Nat, n <= Len(s), n <= Len(t),
         \A i \in 1..n : s[i] = t[i] \/ (k \notin s[i].ids /\ k \notin t[i].ids)
  PROVE  \A i \in 0..n : f[i] = g[i]
<1> DEFINE T == {i \in Nat : i <= n => f[i] = g[i]}
<1>1. 0 \in T
  BY DEF IsTrail
<1>2. ASSUME NEW i \in Nat, i \in T
      PROVE  i + 1 \in T
  <2> SUFFICES ASSUME i + 1 <= n
               PROVE  f[i + 1] = g[i + 1]
    OBVIOUS
  <2>1. i + 1 \in 1..n /\ i + 1 \in 1..Len(s) /\ i + 1 \in 1..Len(t) /\ (i + 1) - 1 = i
    OBVIOUS
  <2>a. i <= n /\ i \in 0..Len(s)
    BY <2>1
  <2>b. f[i] = g[i]
    BY <1>2, <2>a
  <2>2. i \in 0..Len(s) /\ f[i] = g[i] /\ f[i] \in Clean
    <3>1. f \in [0..Len(s) -> Clean]
      BY DEF IsTrail
    <3> QED BY ONLY <2>a, <2>b, <3>1
  <2>3. f[i + 1] = Effect(k, f[i], s[i + 1]) /\ g[i + 1] = Effect(k, g[i], t[i + 1])
    BY <2>1 DEF IsTrail
  <2> QED BY <2>1, <2>2, <2>3, EffectIs
<1>3. \A i \in Nat : i \in T
  <2> HIDE DEF T
  <2> QED BY <1>1, <1>2, Induction
<1> QED BY <1>3

(* Where nothing touches the key, its row stays; an existing row stays      *)
(* where nothing deletes it, and a missing one where nothing inserts it.    *)
LEMMA Stretch ==
  ASSUME NEW k \in Keys, NEW x \in Clean, NEW ops \in Seq(Op),
         NEW a \in Nat, NEW b \in Nat, a <= b, b <= Len(ops)
  PROVE  /\ (\A i \in (a + 1)..b : k \notin ops[i].ids)
              => Trail(k, x, ops)[b] = Trail(k, x, ops)[a]
         /\ (\A i \in (a + 1)..b : k \in ops[i].ids => ops[i].type # "delete")
              /\ Trail(k, x, ops)[a].exists => Trail(k, x, ops)[b].exists
         /\ (\A i \in (a + 1)..b : k \in ops[i].ids => ops[i].type \notin {"insert", "upsert"})
              /\ ~Trail(k, x, ops)[a].exists => ~Trail(k, x, ops)[b].exists
<1> DEFINE r == Trail(k, x, ops)
<1>1. ASSUME NEW i \in Nat, i < Len(ops)
      PROVE  /\ i + 1 \in 1..Len(ops) /\ r[i] \in Clean /\ r[i + 1] \in Clean /\ ops[i + 1] \in Op
             /\ r[i + 1] = Effect(k, r[i], ops[i + 1])
  <2>1. i + 1 \in 1..Len(ops) /\ (i + 1) - 1 = i /\ i \in 0..Len(ops) /\ i + 1 \in 0..Len(ops)
    BY <1>1
  <2> QED BY <2>1, TrailIs, SMTT(60)
<1> HIDE DEF r
<1>2. ASSUME \A i \in (a + 1)..b : k \notin ops[i].ids
      PROVE  r[b] = r[a]
  <2> DEFINE T == {d \in Nat : a + d <= b => r[a + d] = r[a]}
  <2>1. 0 \in T
    OBVIOUS
  <2>2. ASSUME NEW d \in Nat, d \in T
        PROVE  d + 1 \in T
    <3> SUFFICES ASSUME a + (d + 1) <= b
                 PROVE  r[a + (d + 1)] = r[a]
      OBVIOUS
    <3>1. a + d \in Nat /\ a + d < Len(ops) /\ (a + d) + 1 \in (a + 1)..b
          /\ a + (d + 1) = (a + d) + 1
      OBVIOUS
    <3>2. r[a + d] = r[a]
      BY <2>2, <3>1
    <3>3. r[(a + d) + 1] = r[a + d]
      BY <1>1, <1>2, <3>1, EffectIs
    <3> QED BY <3>1, <3>2, <3>3
  <2>3. b - a \in T
    <3> HIDE DEF T
    <3>1. b - a \in Nat
      OBVIOUS
    <3> QED BY <2>1, <2>2, <3>1, Induction
  <2> QED BY <2>3
<1>3. ASSUME \A i \in (a + 1)..b : k \in ops[i].ids => ops[i].type # "delete", r[a].exists
      PROVE  r[b].exists
  <2> DEFINE T == {d \in Nat : a + d <= b => r[a + d].exists}
  <2>1. 0 \in T
    BY <1>3
  <2>2. ASSUME NEW d \in Nat, d \in T
        PROVE  d + 1 \in T
    <3> SUFFICES ASSUME a + (d + 1) <= b
                 PROVE  r[a + (d + 1)].exists
      OBVIOUS
    <3>1. a + d \in Nat /\ a + d < Len(ops) /\ (a + d) + 1 \in (a + 1)..b
          /\ a + (d + 1) = (a + d) + 1
      OBVIOUS
    <3>2. r[a + d].exists
      BY <2>2, <3>1
    <3>3. ops[(a + d) + 1] \in Op /\ r[a + d] \in Clean
          /\ r[(a + d) + 1] = Effect(k, r[a + d], ops[(a + d) + 1])
      BY <1>1, <3>1
    <3>4. r[(a + d) + 1].exists
      <4> DEFINE write == ops[(a + d) + 1]
      <4>1. CASE k \notin write.ids
        BY <3>2, <3>3, <4>1, EffectIs
      <4>2. CASE k \in write.ids
        <5>1. write.type \in {"insert", "upsert", "update"}
          BY <1>3, <3>1, <3>3, <4>2, OpIs
        <5>2. r[(a + d) + 1] = Assign(r[a + d], write)
          BY <3>2, <3>3, <4>2, <5>1, EffectIs
        <5> QED BY <3>3, <5>2, AssignIs
      <4> QED BY <4>1, <4>2
    <3> QED BY <3>1, <3>4
  <2>3. b - a \in T
    <3> HIDE DEF T
    <3>1. b - a \in Nat
      OBVIOUS
    <3> QED BY <2>1, <2>2, <3>1, Induction
  <2> QED BY <2>3
<1>4. ASSUME \A i \in (a + 1)..b : k \in ops[i].ids => ops[i].type \notin {"insert", "upsert"},
             ~r[a].exists
      PROVE  ~r[b].exists
  <2> DEFINE T == {d \in Nat : a + d <= b => ~r[a + d].exists}
  <2>1. 0 \in T
    BY <1>4
  <2>2. ASSUME NEW d \in Nat, d \in T
        PROVE  d + 1 \in T
    <3> SUFFICES ASSUME a + (d + 1) <= b
                 PROVE  ~r[a + (d + 1)].exists
      OBVIOUS
    <3>1. a + d \in Nat /\ a + d < Len(ops) /\ (a + d) + 1 \in (a + 1)..b
          /\ a + (d + 1) = (a + d) + 1
      OBVIOUS
    <3>2. ~r[a + d].exists
      BY <2>2, <3>1
    <3>3. ops[(a + d) + 1] \in Op /\ r[a + d] \in Clean
          /\ r[(a + d) + 1] = Effect(k, r[a + d], ops[(a + d) + 1])
      BY <1>1, <3>1
    <3>4. ~r[(a + d) + 1].exists
      BY <1>4, <3>1, <3>2, <3>3, EffectIs, NoRowClean, OpIs
    <3> QED BY <3>1, <3>4
  <2>3. b - a \in T
    <3> HIDE DEF T
    <3>1. b - a \in Nat
      OBVIOUS
    <3> QED BY <2>1, <2>2, <3>1, Induction
  <2> QED BY <2>3
<1> QED BY <1>2, <1>3, <1>4 DEF r

(* A part of a sequence does what it does there.                            *)
PartFrom(ops, a, t) == a + Len(t) <= Len(ops) /\ \A i \in 1..Len(t) : t[i] = ops[a + i]
(* The trail of a part of the operations is a part of the trail.            *)
LEMMA TrailFrom ==
  ASSUME NEW k \in Keys, NEW x \in Clean, NEW ops \in Seq(Op), NEW y \in Clean, NEW t \in Seq(Op),
         NEW a \in Nat, PartFrom(ops, a, t), y = Trail(k, x, ops)[a]
  PROVE  \A i \in 0..Len(t) : Trail(k, x, ops)[a + i] = Trail(k, y, t)[i]
<1>0. a + Len(t) <= Len(ops) /\ \A i \in 1..Len(t) : t[i] = ops[a + i]
  BY DEF PartFrom
<1> DEFINE f == Trail(k, x, ops)
<1> DEFINE g == Trail(k, y, t)
<1> DEFINE T == {i \in Nat : i <= Len(t) => f[a + i] = g[i]}
<1>1. 0 \in T
  BY TrailIs
<1>2. ASSUME NEW i \in Nat, i \in T
      PROVE  i + 1 \in T
  <2> SUFFICES ASSUME i + 1 <= Len(t)
               PROVE  f[a + (i + 1)] = g[i + 1]
    OBVIOUS
  <2>1. i + 1 \in 1..Len(t) /\ (i + 1) - 1 = i /\ a + (i + 1) \in 1..Len(ops)
        /\ (a + (i + 1)) - 1 = a + i /\ i \in 0..Len(t)
    BY <1>0
  <2>2. f[a + i] = g[i] /\ g[i] \in Clean
    BY <1>2, <2>1, TrailIs, SMTT(60)
  <2>3. \A j \in 1..Len(ops) : f[j] = Effect(k, f[j - 1], ops[j])
    BY TrailIs
  <2>4. \A j \in 1..Len(t) : g[j] = Effect(k, g[j - 1], t[j])
    BY TrailIs, SMTT(60)
  <2>5. t[i + 1] \in Op /\ ops[a + (i + 1)] \in Op
    BY <2>1
  <2> HIDE DEF f, g
  <2>6. f[a + (i + 1)] = Effect(k, f[a + i], ops[a + (i + 1)])
    BY <2>1, <2>3
  <2>7. g[i + 1] = Effect(k, g[i], t[i + 1])
    BY <2>1, <2>4
  <2>8. t[i + 1] = ops[a + (i + 1)]
    BY <1>0, <2>1
  <2> QED BY <2>2, <2>6, <2>7, <2>8
<1>3. \A i \in Nat : i \in T
  <2> HIDE DEF T
  <2> QED BY <1>1, <1>2, Induction
<1> QED BY <1>3

(* Operations that are alike for a key do the same to it.                   *)
LEMMA AfterAlike ==
  ASSUME NEW k \in Keys, NEW x \in Clean, NEW s \in Seq(Op), NEW t \in Seq(Op), Len(s) = Len(t),
         \A i \in 1..Len(s) : s[i] = t[i] \/ (k \notin s[i].ids /\ k \notin t[i].ids)
  PROVE  After(k, x, s) = After(k, x, t)
<1>1. IsTrail(k, x, s, Trail(k, x, s)) /\ IsTrail(k, x, t, Trail(k, x, t))
  BY TrailIs
<1>2. \A i \in 0..Len(s) : Trail(k, x, s)[i] = Trail(k, x, t)[i]
  BY <1>1, Alike
<1> QED BY <1>2 DEF After

(* No operations change nothing.                                            *)
LEMMA AfterNone ==
  ASSUME NEW k \in Keys, NEW x \in Clean
  PROVE  After(k, x, <<>>) = x
<1>1. <<>> \in Seq(Op) /\ Len(<<>>) = 0
  OBVIOUS
<1> QED BY <1>1, TrailIs, ZenonT(60) DEF After

(* One more operation is its effect at the end.                             *)
LEMMA AfterAppend ==
  ASSUME NEW k \in Keys, NEW x \in Clean, NEW s \in Seq(Op), NEW write \in Op
  PROVE  /\ After(k, x, Append(s, write)) = Effect(k, After(k, x, s), write)
         /\ \A i \in 0..Len(s) : Trail(k, x, Append(s, write))[i] = Trail(k, x, s)[i]
<1> DEFINE t == Append(s, write)
<1>1. t \in Seq(Op) /\ Len(t) = Len(s) + 1 /\ t[Len(s) + 1] = write /\ \A i \in 1..Len(s) : t[i] = s[i]
  OBVIOUS
<1> HIDE DEF t
<1>2. IsTrail(k, x, s, Trail(k, x, s)) /\ IsTrail(k, x, t, Trail(k, x, t))
  BY <1>1, TrailIs
<1>3. \A i \in 0..Len(s) : Trail(k, x, s)[i] = Trail(k, x, t)[i]
  BY <1>1, <1>2, Alike
<1>4. Trail(k, x, t)[Len(s) + 1] = Effect(k, Trail(k, x, t)[(Len(s) + 1) - 1], write)
  BY <1>1, TrailIs, SMTT(60)
<1>5. (Len(s) + 1) - 1 = Len(s) /\ Len(s) \in 0..Len(s)
  OBVIOUS
<1> QED BY <1>1, <1>3, <1>4, <1>5 DEF After, t

(* Two sequences of operations, one after the other.                        *)
LEMMA AfterConcat ==
  ASSUME NEW k \in Keys, NEW x \in Clean, NEW s \in Seq(Op), NEW t \in Seq(Op)
  PROVE  /\ After(k, x, s \o t) = After(k, After(k, x, s), t)
         /\ \A i \in 0..Len(s) : Trail(k, x, s \o t)[i] = Trail(k, x, s)[i]
         /\ \A i \in 0..Len(t) : Trail(k, x, s \o t)[Len(s) + i] = Trail(k, After(k, x, s), t)[i]
<1> DEFINE st == s \o t
<1>1. /\ st \in Seq(Op) /\ Len(st) = Len(s) + Len(t)
      /\ \A i \in 1..Len(s) : st[i] = s[i]
      /\ \A i \in 1..Len(t) : st[Len(s) + i] = t[i]
  OBVIOUS
<1> HIDE DEF st
<1>2. IsTrail(k, x, s, Trail(k, x, s)) /\ IsTrail(k, x, st, Trail(k, x, st))
  BY <1>1, TrailIs
<1>0. Len(s) \in Nat /\ Len(s) <= Len(s) /\ Len(s) <= Len(st)
  BY <1>1
<1>b. \A i \in 1..Len(s) : s[i] = st[i] \/ (k \notin s[i].ids /\ k \notin st[i].ids)
  BY <1>1
<1>3. \A i \in 0..Len(s) : Trail(k, x, s)[i] = Trail(k, x, st)[i]
  BY <1>0, <1>1, <1>2, <1>b, Alike, SMTT(60)
<1>4. After(k, x, s) = Trail(k, x, st)[Len(s)] /\ After(k, x, s) \in Clean
  BY <1>3, TrailIs DEF After
<1>5. \A i \in 0..Len(t) : Trail(k, x, st)[Len(s) + i] = Trail(k, After(k, x, s), t)[i]
  <2>1. PartFrom(st, Len(s), t) /\ Len(s) \in Nat
    BY <1>1 DEF PartFrom
  <2> QED BY <1>1, <1>4, <2>1, TrailFrom
<1>6. After(k, x, st) = After(k, After(k, x, s), t)
  BY <1>1, <1>5 DEF After
<1> QED BY <1>3, <1>5, <1>6 DEF st

(* A rearrangement that keeps the order of the operations of a key does the *)
(* same to it: place i of s is place p[i] of t.  Place Len(s) + 1 stands    *)
(* for the end of both.                                                     *)
Rearranged(k, s, t, p) ==
    /\ Len(t) = Len(s) /\ p \in [1..(Len(s) + 1) -> 1..(Len(s) + 1)]
    /\ p[Len(s) + 1] = Len(s) + 1
    /\ \A i \in 1..Len(s) : p[i] <= Len(s) /\ t[p[i]] = s[i]
    /\ \A j \in 1..Len(s) : \E i \in 1..Len(s) : p[i] = j
    /\ \A i, j \in 1..Len(s) : i < j /\ k \in s[i].ids /\ k \in s[j].ids => p[i] < p[j]

(* A rearrangement that keeps the order of those on the row does the same   *)
(* to it, and each of them meets the same row.                              *)
LEMMA AfterRearranged ==
  ASSUME NEW k \in Keys, NEW x \in Clean, NEW s \in Seq(Op), NEW t \in Seq(Op), NEW p,
         Rearranged(k, s, t, p)
  PROVE  /\ After(k, x, t) = After(k, x, s)
         /\ \A i \in 1..Len(s) : k \in s[i].ids => Trail(k, x, t)[p[i] - 1] = Trail(k, x, s)[i - 1]
<1> DEFINE n == Len(s)
<1> DEFINE f == Trail(k, x, s)
<1> DEFINE g == Trail(k, x, t)
<1> DEFINE At(i) == i = n + 1 \/ k \in s[i].ids
<1> DEFINE Same(i) == i \in 1..(n + 1) /\ At(i) => g[p[i] - 1] = f[i - 1]
<1>0. n \in Nat
  OBVIOUS
<1>1. /\ n \in Nat /\ Len(t) = n /\ \A i \in 1..(n + 1) : p[i] \in 1..(n + 1)
      /\ p[n + 1] = n + 1 /\ \A i \in 1..n : p[i] \in 1..n /\ t[p[i]] = s[i]
      /\ \A j \in 1..n : \E i \in 1..n : p[i] = j
      /\ \A i, j \in 1..n : i < j /\ k \in s[i].ids /\ k \in s[j].ids => p[i] < p[j]
  <2> HIDE DEF n
  <2>1. \A i \in 1..(n + 1) : p[i] \in 1..(n + 1)
    BY DEF Rearranged, n
  <2>2. \A i \in 1..n : p[i] <= n /\ t[p[i]] = s[i] /\ i \in 1..(n + 1)
    BY <1>0 DEF Rearranged, n
  <2>3. \A i \in 1..n : p[i] \in 1..n
    BY <1>0, <2>1, <2>2
  <2>4. /\ \A j \in 1..n : \E i \in 1..n : p[i] = j
        /\ \A i, j \in 1..n : i < j /\ k \in s[i].ids /\ k \in s[j].ids => p[i] < p[j]
        /\ Len(t) = n /\ p[n + 1] = n + 1
    BY DEF Rearranged, n
  <2> QED BY <1>0, <2>1, <2>2, <2>3, <2>4
<1> HIDE DEF n
<1>2. ASSUME NEW i \in 1..(n + 1), NEW j \in 1..(n + 1), i < j, At(i), At(j)
      PROVE  p[i] < p[j]
  <2>1. i \in 1..n /\ k \in s[i].ids
    BY <1>1, <1>2
  <2>2. CASE j = n + 1
    BY <1>1, <2>1, <2>2, SMTT(60)
  <2>3. CASE j # n + 1
    <3>1. j \in 1..n /\ k \in s[j].ids
      BY <1>1, <1>2, <2>3
    <3> QED BY <1>1, <1>2, <2>1, <3>1
  <2> QED BY <2>2, <2>3
<1>3. ASSUME NEW i \in 1..(n + 1), At(i), \A j \in 1..(n + 1) : j < i => Same(j)
      PROVE  Same(i)
  <2>0. /\ i - 1 \in Nat /\ i - 1 <= Len(s) /\ 0 <= i - 1
        /\ p[i] - 1 \in Nat /\ p[i] - 1 <= Len(t) /\ 0 <= p[i] - 1 /\ p[i] \in 1..(n + 1)
    BY <1>1 DEF n
  \* An operation of t on the key that stands before place p[i] stands before i in s.
  <2>a. ASSUME NEW m \in 1..n, m < p[i], k \in t[m].ids
        PROVE  \E j \in 1..n : p[j] = m /\ k \in s[j].ids /\ j < i
    <3>1. PICK j \in 1..n : p[j] = m
      BY <1>1
    <3>2. t[m] = s[j]
      BY <1>1, <3>1
    <3>a. m \in Nat /\ p[i] \in Nat /\ j \in Nat /\ i \in Nat /\ p[j] = m /\ m < p[i] /\ At(j)
          /\ j \in 1..(n + 1)
      BY <1>1, <2>a, <3>1, <3>2, <2>0
    <3> HIDE DEF At
    <3>3. j # i
      BY <3>a
    <3>4. ~(i < j)
      <4> SUFFICES ASSUME i < j PROVE FALSE
        OBVIOUS
      <4>1. p[i] < p[j]
        BY <1>2, <1>3, <3>a
      <4> QED BY <3>a, <4>1
    <3>5. j < i
      BY <3>a, <3>3, <3>4
    <3> QED BY <2>a, <3>1, <3>2, <3>5
  <2>1. CASE \A j \in 1..(i - 1) : k \notin s[j].ids
    <3>1. \A j \in (0 + 1)..(i - 1) : k \notin s[j].ids
      BY <2>1
    <3>2. f[i - 1] = f[0]
      BY <3>1, <2>0, Stretch
    <3>3. \A m \in (0 + 1)..(p[i] - 1) : k \notin t[m].ids
      <4> SUFFICES ASSUME NEW m \in (0 + 1)..(p[i] - 1), k \in t[m].ids PROVE FALSE
        OBVIOUS
      <4>1. m \in 1..n /\ m < p[i]
        BY <1>1, <2>0
      <4>2. PICK j \in 1..n : k \in s[j].ids /\ j < i
        BY <2>a, <4>1
      <4>3. j \in 1..(i - 1)
        BY <1>1, <4>2
      <4> QED BY <2>1, <4>2, <4>3
    <3> DEFINE q == p[i] - 1
    <3>4. g[q] = g[0]
      <4>1. q \in Nat /\ 0 \in Nat /\ 0 <= q /\ q <= Len(t) /\ \A m \in (0 + 1)..q : k \notin t[m].ids
        BY <2>0, <3>3
      <4> HIDE DEF q
      <4> QED BY <4>1, Stretch
    <3>5. f[0] = x /\ g[0] = x
      BY TrailIs
    <3> QED BY <3>2, <3>4, <3>5
  <2>2. CASE \E j \in 1..(i - 1) : k \in s[j].ids
    <3> DEFINE A == {j \in 1..n : j < i /\ k \in s[j].ids}
    <3>0. \A j \in 1..(i - 1) : j \in 1..n /\ j < i
      BY <1>1
    <3>1. A \in SUBSET (1..n) /\ A # {}
      BY <2>2, <3>0
    <3> DEFINE j == Max(A)
    <3>2. j \in A /\ \A m \in A : m <= j
      BY <1>1, <3>1, MaxIs
    <3> HIDE DEF j
    <3>3. j \in 1..n /\ j < i /\ k \in s[j].ids /\ \A m \in 1..n : m < i /\ k \in s[m].ids => m <= j
      BY <3>2
    <3> HIDE DEF A
    <3>a. j \in 1..(n + 1) /\ At(j) /\ p[j] \in 1..n /\ t[p[j]] = s[j]
      BY <1>1, <3>3
    <3>4. g[p[j] - 1] = f[j - 1] /\ p[j] < p[i]
      BY <1>2, <1>3, <3>3, <3>a
    <3>5. /\ f[j] = Effect(k, f[j - 1], s[j]) /\ g[p[j]] = Effect(k, g[p[j] - 1], t[p[j]])
      <4>1. \A l \in 1..Len(s) : f[l] = Effect(k, f[l - 1], s[l])
        BY TrailIs
      <4>2. \A l \in 1..Len(t) : g[l] = Effect(k, g[l - 1], t[l])
        BY TrailIs
      <4> HIDE DEF f, g
      <4> QED BY <1>1, <3>3, <3>a, <4>1, <4>2 DEF n
    <3>b. j \in Nat /\ j <= i - 1 /\ p[j] \in Nat /\ p[j] <= p[i] - 1
      <4>1. i \in Nat /\ j \in Nat /\ j < i
        BY <1>1, <3>3
      <4>a. \A m \in 1..(n + 1) : m \in Nat
        BY <1>1
      <4>b. p[j] \in 1..(n + 1) /\ p[i] \in 1..(n + 1) /\ p[j] < p[i]
        BY <1>1, <3>a, <3>4, <2>0
      <4>2. p[j] \in Nat /\ p[i] \in Nat /\ p[j] < p[i]
        BY <4>a, <4>b
      <4> DEFINE u == p[j]
      <4> DEFINE v == p[i]
      <4>3. u \in Nat /\ v \in Nat /\ u < v
        BY <4>2
      <4> HIDE DEF u, v
      <4>4. j \in Nat /\ j <= i - 1
        BY ONLY <4>1
      <4>5. u \in Nat /\ u <= v - 1
        BY ONLY <4>3
      <4> QED BY <4>4, <4>5 DEF u, v
    <3>6. f[i - 1] = f[j]
      <4>0. i \in Nat /\ i <= n + 1 /\ n \in Nat /\ j \in Nat
        BY <1>1, <3>b
      <4>1. \A m \in (j + 1)..(i - 1) : m \in 1..n /\ m < i /\ ~(m <= j)
        BY ONLY <4>0
      <4>2. \A m \in (j + 1)..(i - 1) : k \notin s[m].ids
        BY <4>1, <3>3
      <4> DEFINE e == i - 1
      <4>3. e \in Nat /\ e <= Len(s) /\ j \in Nat /\ j <= e /\ \A m \in (j + 1)..e : k \notin s[m].ids
        BY <2>0, <3>b, <4>2
      <4> HIDE DEF e
      <4>4. f[e] = f[j]
        BY <4>3, Stretch
      <4> QED BY <4>4 DEF e
    <3>7. \A m \in (p[j] + 1)..(p[i] - 1) : k \notin t[m].ids
      <4> SUFFICES ASSUME NEW m \in (p[j] + 1)..(p[i] - 1), k \in t[m].ids PROVE FALSE
        OBVIOUS
      <4>0. p[j] \in Nat /\ p[i] \in 1..(n + 1) /\ m \in (p[j] + 1)..(p[i] - 1) /\ n \in Nat
        BY <1>1, <2>0, <3>b
      <4>1. m \in 1..n /\ m < p[i] /\ p[j] < m /\ m \in Nat
        <5> DEFINE u == p[j]
        <5> DEFINE v == p[i]
        <5> HIDE DEF u, v
        <5>1. u \in Nat /\ v \in 1..(n + 1) /\ m \in (u + 1)..(v - 1)
          BY <4>0 DEF u, v
        <5>2. m \in 1..n /\ m < v /\ u < m /\ m \in Nat
          BY <4>0, <5>1
        <5> QED BY <5>2 DEF u, v
      <4>2. PICK l \in 1..n : p[l] = m /\ k \in s[l].ids /\ l < i
        BY <2>a, <4>1
      <4>3. l # j /\ l <= j
        BY <3>3, <4>1, <4>2
      <4>5. l < j
        <5>1. l \in Nat /\ j \in Nat
          BY <1>1, <3>b
        <5> QED BY <5>1, <4>3
      <4>4. p[l] < p[j]
        BY <1>1, <3>3, <4>2, <4>5
      <4> QED BY <4>0, <4>1, <4>2, <4>4
    <3>8. g[p[i] - 1] = g[p[j]]
      <4> DEFINE u == p[j]
      <4> DEFINE e == p[i] - 1
      <4>3. e \in Nat /\ e <= Len(t) /\ u \in Nat /\ u <= e /\ \A m \in (u + 1)..e : k \notin t[m].ids
        BY <2>0, <3>b, <3>7
      <4> HIDE DEF e, u
      <4>4. g[e] = g[u]
        BY <4>3, Stretch
      <4> QED BY <4>4 DEF e, u
    <3> QED BY <3>4, <3>5, <3>6, <3>8, <3>a
  <2> QED BY <1>1, <2>1, <2>2
<1> HIDE DEF f, g, At
<1> DEFINE T == {d \in Nat : \A i \in 1..(n + 1) : i <= d => Same(i)}
<1>4. 0 \in T
  OBVIOUS
<1>5. ASSUME NEW d \in Nat, d \in T
      PROVE  d + 1 \in T
  <2>1. \A j \in 1..(n + 1) : j < d + 1 => Same(j)
    BY <1>5
  <2>2. d + 1 \in 1..(n + 1) => Same(d + 1)
    <3> HIDE DEF T
    <3>1. CASE At(d + 1)
      BY <1>3, <2>1, <3>1
    <3>2. CASE ~At(d + 1)
      BY <3>2
    <3> QED BY <3>1, <3>2
  <2>3. \A j \in 1..(n + 1) : j <= d + 1 => j < d + 1 \/ j = d + 1
    OBVIOUS
  <2> HIDE DEF Same
  <2> QED BY <2>1, <2>2, <2>3
<1>6. \A d \in Nat : d \in T
  <2> HIDE DEF T
  <2> QED BY <1>4, <1>5, Induction
<1>7. \A i \in 1..(n + 1) : Same(i)
  <2>1. n + 1 \in Nat
    BY <1>1
  <2>2. n + 1 \in T
    BY <1>6, <2>1
  <2> HIDE DEF Same
  <2>3. \A i \in 1..(n + 1) : i <= n + 1
    BY <1>1
  <2> QED BY <2>2, <2>3
<1>8. g[n] = f[n]
  <2>1. Same(n + 1) /\ At(n + 1) /\ n + 1 \in 1..(n + 1) /\ p[n + 1] = n + 1 /\ (n + 1) - 1 = n
    BY <1>1, <1>7 DEF At
  <2> QED BY <2>1
<1>9. \A i \in 1..n : k \in s[i].ids => g[p[i] - 1] = f[i - 1]
  BY <1>1, <1>7 DEF At
<1> QED BY <1>1, <1>8, <1>9 DEF After, f, g, n

-----------------------------------------------------------------------------
(* Merging and repeating                                                    *)

(* What groupOps makes of two updates of one id.                            *)
LEMMA MergeIs ==
  ASSUME NEW write \in Op, NEW u \in Op
  PROVE  /\ Merge(write, u) \in Op
         /\ Merge(write, u).type = write.type /\ Merge(write, u).ids = write.ids /\ Merge(write, u).eq = write.eq
         /\ Merge(write, u).val = IF u.val = "keep" THEN write.val ELSE u.val
         /\ u.num.kind = "keep" => Merge(write, u).num = write.num
         /\ u.num.kind = "inc" /\ write.num.kind # "keep" =>
              Merge(write, u).num = [kind |-> write.num.kind, by |-> write.num.by + u.num.by]
         /\ u.num.kind = "set" \/ (u.num.kind = "inc" /\ write.num.kind = "keep") =>
              Merge(write, u).num = u.num
<1>1. /\ write.num \in Num /\ u.num \in Num
      /\ write = [type |-> write.type, ids |-> write.ids, eq |-> write.eq, val |-> write.val, num |-> write.num]
      /\ write.num = [kind |-> write.num.kind, by |-> write.num.by]
      /\ write.num.by \in Nat /\ u.num.by \in Nat
  BY DEF Op, Num
<1> DEFINE val == IF u.val = "keep" THEN write.val ELSE u.val
<1> DEFINE num == CASE u.num.kind = "keep" -> write.num
                    [] u.num.kind = "inc" /\ write.num.kind # "keep" ->
                         [write.num EXCEPT !.by = write.num.by + u.num.by]
                    [] OTHER -> u.num
<1>2. Merge(write, u) = [type |-> write.type, ids |-> write.ids, eq |-> write.eq, val |-> val, num |-> num]
  <2>1. Merge(write, u) = [write EXCEPT !.val = val, !.num = num]
    BY DEF Merge
  <2> HIDE DEF val, num
  <2> QED BY <1>1, <2>1
<1>3. val \in Vals \cup {"keep"}
  BY OpIs
<1>4. /\ u.num.kind = "keep" => num = write.num
      /\ u.num.kind = "inc" /\ write.num.kind # "keep" => num = [kind |-> write.num.kind, by |-> write.num.by + u.num.by]
      /\ u.num.kind = "set" \/ (u.num.kind = "inc" /\ write.num.kind = "keep") => num = u.num
  BY <1>1
<1> HIDE DEF num
<1>5. num \in Num
  BY <1>1, <1>4, OpIs DEF Num
<1> HIDE DEF val
<1>6. Merge(write, u) \in Op
  BY <1>2, <1>3, <1>5 DEF Op
<1> QED BY <1>2, <1>4, <1>6 DEF val

(* An update merged into the one before it.                                 *)
LEMMA Merged ==
  ASSUME NEW k \in Keys, NEW row \in Clean, NEW write \in Op, NEW u \in Op,
         write.type = "update", u.type = "update", write.ids = u.ids
  PROVE  Effect(k, Effect(k, row, write), u) = Effect(k, row, Merge(write, u))
<1> DEFINE m == Merge(write, u)
<1>m. /\ m \in Op /\ m.type = "update" /\ m.ids = u.ids
      /\ m.val = IF u.val = "keep" THEN write.val ELSE u.val
      /\ u.num.kind = "keep" => m.num = write.num
      /\ u.num.kind = "inc" /\ write.num.kind # "keep" =>
           m.num = [kind |-> write.num.kind, by |-> write.num.by + u.num.by]
      /\ u.num.kind = "set" \/ (u.num.kind = "inc" /\ write.num.kind = "keep") => m.num = u.num
  BY MergeIs
<1> SUFFICES Effect(k, Effect(k, row, write), u) = Effect(k, row, m)
  OBVIOUS
<1> HIDE DEF m
<1>1. m \in Op /\ m.type = "update" /\ m.ids = u.ids
  BY <1>m
<1>2. CASE k \notin u.ids
  BY <1>1, <1>2, EffectIs
<1>3. CASE k \in u.ids /\ ~row.exists
  BY <1>1, <1>3, EffectIs
<1>4. CASE k \in u.ids /\ row.exists
  <2> DEFINE a == Assign(row, write)
  <2> DEFINE b == Assign(a, u)
  <2> DEFINE c == Assign(row, m)
  <2>1. a \in Clean /\ a.exists /\ b \in Clean /\ b.exists /\ c \in Clean /\ c.exists
    BY <1>1, AssignIs
  <2>2. Effect(k, row, write) = a /\ Effect(k, a, u) = b /\ Effect(k, row, m) = c
    BY <1>1, <1>4, <2>1, EffectIs
  <2>3. b.val = c.val
    <3>1. /\ a.val = IF write.val = "keep" THEN row.val ELSE write.val
          /\ b.val = IF u.val = "keep" THEN a.val ELSE u.val
          /\ c.val = IF m.val = "keep" THEN row.val ELSE m.val
      BY <1>1, <2>1, AssignIs
    <3> HIDE DEF a, b, c
    <3> QED BY <1>m, <3>1
  <2>4. b.n = c.n
    <3>1. write.num.kind \in {"keep", "set", "inc"} /\ u.num.kind \in {"keep", "set", "inc"}
          /\ write.num.by \in Nat /\ u.num.by \in Nat /\ row.n \in Nat
      BY OpIs, CleanIs
    <3>a. /\ write.num.kind = "keep" => a.n = row.n
          /\ write.num.kind = "set" => a.n = write.num.by
          /\ write.num.kind = "inc" => a.n = row.n + write.num.by
      BY AssignIs
    <3>b. /\ u.num.kind = "keep" => b.n = a.n
          /\ u.num.kind = "set" => b.n = u.num.by
          /\ u.num.kind = "inc" => b.n = a.n + u.num.by
      BY <2>1, AssignIs
    <3>c. /\ m.num.kind = "keep" => c.n = row.n
          /\ m.num.kind = "set" => c.n = m.num.by
          /\ m.num.kind = "inc" => c.n = row.n + m.num.by
      BY <1>1, AssignIs
    <3> HIDE DEF a, b, c
    <3>2. CASE u.num.kind \in {"keep", "set"}
      BY <1>m, <3>1, <3>2, <3>a, <3>b, <3>c
    <3>3. CASE u.num.kind = "inc" /\ write.num.kind = "keep"
      BY <1>m, <3>1, <3>3, <3>a, <3>b, <3>c
    <3>4. CASE u.num.kind = "inc" /\ write.num.kind # "keep"
      <4>1. m.num.kind = write.num.kind /\ m.num.by = write.num.by + u.num.by
        BY <1>m, <3>4
      <4>2. b.n = a.n + u.num.by
        BY <3>4, <3>b
      <4>3. CASE write.num.kind = "set"
        <5>1. a.n = write.num.by /\ c.n = m.num.by
          BY <4>1, <4>3, <3>a, <3>c
        <5> QED BY <3>1, <4>1, <4>2, <5>1
      <4>4. CASE write.num.kind = "inc"
        <5>1. a.n = row.n + write.num.by /\ c.n = row.n + m.num.by
          BY <4>1, <4>4, <3>a, <3>c
        <5> HIDE DEF a, b, c, m
        <5> QED BY <3>1, <4>1, <4>2, <5>1
      <4> QED BY <3>1, <3>4, <4>3, <4>4
    <3> QED BY <3>1, <3>2, <3>3, <3>4
  <2> HIDE DEF a, b, c
  <2>5. b = c
    BY <2>1, <2>3, <2>4, SameRow
  <2> QED BY <2>2, <2>5 DEF m
<1> QED BY <1>2, <1>3, <1>4

(* Two trails that meet stay together while the operations are the same.    *)
LEMMA AlikeFrom ==
  ASSUME NEW k \in Keys, NEW x \in Clean, NEW y \in Clean, NEW s \in Seq(Op), NEW t \in Seq(Op),
         Len(s) = Len(t), NEW a \in 0..Len(s), Trail(k, x, s)[a] = Trail(k, y, t)[a],
         \A i \in (a + 1)..Len(s) : s[i] = t[i]
  PROVE  After(k, x, s) = After(k, y, t)
<1> DEFINE f == Trail(k, x, s)
<1> DEFINE g == Trail(k, y, t)
<1> DEFINE T == {d \in Nat : a + d <= Len(s) => f[a + d] = g[a + d]}
<1>1. 0 \in T
  OBVIOUS
<1>2. ASSUME NEW d \in Nat, d \in T
      PROVE  d + 1 \in T
  <2> SUFFICES ASSUME a + (d + 1) <= Len(s)
               PROVE  f[a + (d + 1)] = g[a + (d + 1)]
    OBVIOUS
  <2> DEFINE i == a + (d + 1)
  <2>1. i \in 1..Len(s) /\ i \in 1..Len(t) /\ i \in (a + 1)..Len(s) /\ i - 1 = a + d
    OBVIOUS
  <2>2. f[i - 1] = g[i - 1]
    BY <1>2, <2>1
  <2>3. \A j \in 1..Len(s) : f[j] = Effect(k, f[j - 1], s[j])
    BY TrailIs
  <2>4. \A j \in 1..Len(t) : g[j] = Effect(k, g[j - 1], t[j])
    BY TrailIs, ZenonT(60)
  <2>5. s[i] = t[i]
    BY <2>1
  <2> HIDE DEF f, g, i
  <2>6. f[i] = Effect(k, f[i - 1], s[i]) /\ g[i] = Effect(k, g[i - 1], t[i])
    BY <2>1, <2>3, <2>4
  <2>7. f[i] = g[i]
    BY <2>2, <2>5, <2>6
  <2> QED BY <2>7 DEF i
<1>3. Len(s) - a \in T
  <2> HIDE DEF T
  <2>1. Len(s) - a \in Nat
    OBVIOUS
  <2> QED BY <1>1, <1>2, <2>1, Induction
<1>4. a + (Len(s) - a) = Len(s)
  OBVIOUS
<1> QED BY <1>3, <1>4 DEF After

(* The update at r is merged into the one at p and yet left where it is, as *)
(* when the batch is still to be run again.                                 *)
Absorbs(k, s, t, p, r) ==
    /\ s[p].type = "update" /\ s[r].type = "update" /\ s[p].ids = s[r].ids /\ s[r].num.kind # "inc"
    /\ \A i \in p..r : k \in s[p].ids /\ k \in s[i].ids => s[i].type = "update"
    /\ t[p] = Merge(s[p], s[r]) /\ \A i \in 1..Len(s) : i # p => t[i] = s[i]

(* Unless it increments, it hides what was merged.                          *)
LEMMA Absorbed ==
  ASSUME NEW k \in Keys, NEW x \in Clean, NEW s \in Seq(Op), NEW t \in Seq(Op), Len(t) = Len(s),
         NEW p \in 1..Len(s), NEW r \in 1..Len(s), p < r, Absorbs(k, s, t, p, r)
  PROVE  After(k, x, t) = After(k, x, s)
<1> DEFINE u == s[r]
<1> USE DEF Absorbs
<1>0. s[p] \in Op /\ u \in Op /\ t[p] \in Op /\ t[p].ids = s[p].ids /\ t[p].type = "update"
  <2>1. s[p] \in Op /\ s[r] \in Op
    OBVIOUS
  <2> DEFINE m == Merge(s[p], s[r])
  <2>2. m \in Op /\ m.ids = s[p].ids /\ m.type = s[p].type
    BY <2>1, MergeIs
  <2> QED BY <2>1, <2>2
<1>1. CASE k \notin s[p].ids
  <2>1. \A i \in 1..Len(t) : t[i] = s[i] \/ (k \notin t[i].ids /\ k \notin s[i].ids)
    BY <1>0, <1>1
  <2> QED BY <2>1, AfterAlike
<1>2. CASE k \in s[p].ids
  <2> DEFINE f == Trail(k, x, s)
  <2> DEFINE g == Trail(k, x, t)
  <2>1. IsTrail(k, x, s, f) /\ IsTrail(k, x, t, g)
    BY TrailIs
  <2>2. /\ p - 1 \in Nat /\ p - 1 <= Len(s) /\ p - 1 <= Len(t) /\ p - 1 \in 0..(p - 1)
        /\ \A i \in 1..(p - 1) : i \in 1..Len(s) /\ i # p
    OBVIOUS
  <2>3. \A i \in 1..(p - 1) : s[i] = t[i] \/ (k \notin s[i].ids /\ k \notin t[i].ids)
    BY <2>2
  <2>4. f[p - 1] = g[p - 1]
    BY <2>1, <2>2, <2>3, Alike, SMTT(60)
  <2>5. /\ \A i \in 1..Len(s) : f[i - 1] \in Clean /\ f[i] \in Clean /\ f[i] = Effect(k, f[i - 1], s[i])
        /\ \A i \in 1..Len(s) : g[i - 1] \in Clean /\ g[i] \in Clean /\ g[i] = Effect(k, g[i - 1], t[i])
    <3>1. \A i \in 1..Len(s) : i \in 0..Len(s) /\ i - 1 \in 0..Len(s) /\ i \in 1..Len(t) /\ i \in 0..Len(t) /\ i - 1 \in 0..Len(t)
      OBVIOUS
    <3>2. \A i \in 0..Len(s) : f[i] \in Clean
      BY TrailIs
    <3>3. \A i \in 0..Len(t) : g[i] \in Clean
      <4>1. \A i \in 0..Len(t) : Trail(k, x, t)[i] \in Clean
        <5>1. Trail(k, x, t) \in [0..Len(t) -> Clean]
          BY TrailIs
        <5> QED BY <5>1
      <4> QED BY <4>1
    <3>4. /\ \A i \in 1..Len(s) : f[i] = Effect(k, f[i - 1], s[i])
          /\ \A i \in 1..Len(t) : g[i] = Effect(k, g[i - 1], t[i])
      <4>1. k \in Keys /\ x \in Clean /\ s \in Seq(Op) /\ t \in Seq(Op)
        OBVIOUS
      <4>2. \A i \in 1..Len(s) : f[i] = Effect(k, f[i - 1], s[i])
        BY ONLY <4>1, TrailIs, ZenonT(60)
      <4>3. \A i \in 1..Len(t) : g[i] = Effect(k, g[i - 1], t[i])
        BY ONLY <4>1, TrailIs, ZenonT(60)
      <4> QED BY <4>2, <4>3
    <3> HIDE DEF f, g
    <3> QED BY <3>1, <3>2, <3>3, <3>4
  <2> DEFINE Close(v, w) == /\ v.exists = w.exists
                            /\ u.val = "keep" => v.val = w.val
                            /\ u.num.kind = "keep" => v.n = w.n
  <2>6. ASSUME NEW v \in Clean, NEW w \in Clean, NEW write \in Op, NEW mp \in Op, write.type = "update", Close(v, w),
               mp = write \/ mp = Merge(write, u)
        PROVE  k \in write.ids /\ k \in mp.ids => Close(Effect(k, v, write), Effect(k, w, mp))
    <3> SUFFICES ASSUME k \in write.ids, k \in mp.ids
                 PROVE  Close(Effect(k, v, write), Effect(k, w, mp))
      OBVIOUS
    <3> DEFINE m == Merge(write, u)
    <3>m. /\ m.type = write.type /\ m.val = IF u.val = "keep" THEN write.val ELSE u.val
          /\ u.num.kind = "keep" => m.num = write.num
      BY <1>0, MergeIs
    <3> HIDE DEF m
    <3>n. mp = write \/ mp = m
      BY <2>6 DEF m
    <3>0. mp.type = "update"
      BY <2>6, <3>m, <3>n
    <3>1. CASE ~v.exists
      BY <2>6, <3>0, <3>1, EffectIs
    <3>2. CASE v.exists
      <4> DEFINE va == Assign(v, write)
      <4> DEFINE wa == Assign(w, mp)
      <4>1. Effect(k, v, write) = va /\ Effect(k, w, mp) = wa
        BY <2>6, <3>0, <3>2, EffectIs
      <4>2. va.exists /\ wa.exists /\ va.exists \in BOOLEAN /\ wa.exists \in BOOLEAN
        BY AssignIs, CleanIs
      <4>3. ASSUME u.val = "keep" PROVE va.val = wa.val
        <5>1. mp.val = write.val
          BY <3>m, <3>n, <4>3
        <5>2. v.val = w.val
          BY <2>6, <4>3
        <5>3. va.val = (IF write.val = "keep" THEN v.val ELSE write.val)
              /\ wa.val = (IF mp.val = "keep" THEN w.val ELSE mp.val)
          BY AssignIs
        <5> HIDE DEF va, wa
        <5> QED BY <5>1, <5>2, <5>3
      <4>4. ASSUME u.num.kind = "keep" PROVE va.n = wa.n
        <5>1. mp.num = write.num
          BY <3>m, <3>n, <4>4
        <5>2. write.num.kind \in {"keep", "set", "inc"}
          BY OpIs
        <5>3. v.n = w.n
          BY <2>6, <4>4
        <5>4. /\ write.num.kind = "keep" => va.n = v.n /\ wa.n = w.n
              /\ write.num.kind = "set" => va.n = write.num.by /\ wa.n = write.num.by
              /\ write.num.kind = "inc" => va.n = v.n + write.num.by /\ wa.n = w.n + write.num.by
          <6>1. /\ write.num.kind = "keep" => va.n = v.n
                /\ write.num.kind = "set" => va.n = write.num.by
                /\ write.num.kind = "inc" => va.n = v.n + write.num.by
            BY AssignIs
          <6>2. /\ mp.num.kind = "keep" => wa.n = w.n
                /\ mp.num.kind = "set" => wa.n = mp.num.by
                /\ mp.num.kind = "inc" => wa.n = w.n + mp.num.by
            BY AssignIs
          <6> HIDE DEF va, wa
          <6> QED BY <5>1, <6>1, <6>2
        <5> HIDE DEF va, wa
        <5> QED BY <5>2, <5>3, <5>4
      <4> HIDE DEF va, wa
      <4> QED BY <4>1, <4>2, <4>3, <4>4
    <3> QED BY <3>1, <3>2
  <2> HIDE DEF f, g, Close
  <2> DEFINE T == {d \in Nat : p + d < r => Close(f[p + d], g[p + d])}
  <2>7. 0 \in T
    <3>1. f[p] = Effect(k, f[p - 1], s[p]) /\ g[p] = Effect(k, f[p - 1], t[p]) /\ f[p - 1] \in Clean
      BY <2>4, <2>5
    <3>2. Close(f[p - 1], f[p - 1])
      BY DEF Close
    <3>3. Close(f[p], g[p])
      BY <1>0, <1>2, <2>6, <3>1, <3>2
    <3>4. p + 0 = p
      OBVIOUS
    <3> QED BY <3>3, <3>4
  <2>8. ASSUME NEW d \in Nat, d \in T
        PROVE  d + 1 \in T
    <3> SUFFICES ASSUME p + (d + 1) < r
                 PROVE  Close(f[p + (d + 1)], g[p + (d + 1)])
      OBVIOUS
    <3> DEFINE i == p + (d + 1)
    <3>1. i \in 1..Len(s) /\ i \in p..r /\ i # p /\ i - 1 = p + d /\ p + d < r
      OBVIOUS
    <3>2. Close(f[i - 1], g[i - 1])
      BY <2>8, <3>1
    <3>3. s[i] \in Op /\ t[i] = s[i]
      BY <3>1
    <3>4. k \in s[i].ids => s[i].type = "update"
      BY <1>2, <3>1
    <3> HIDE DEF i
    <3>5. /\ f[i] = Effect(k, f[i - 1], s[i]) /\ g[i] = Effect(k, g[i - 1], s[i])
          /\ f[i - 1] \in Clean /\ g[i - 1] \in Clean
      BY <2>5, <3>1, <3>3
    <3>6. Close(f[i], g[i])
      <4>1. CASE k \in s[i].ids
        BY <2>6, <3>2, <3>3, <3>4, <3>5, <4>1
      <4>2. CASE k \notin s[i].ids
        BY <3>2, <3>3, <3>5, <4>2, EffectIs
      <4> QED BY <4>1, <4>2
    <3> QED BY <3>6 DEF i
  <2>9. Close(f[r - 1], g[r - 1])
    <3> HIDE DEF T
    <3>1. r - 1 - p \in Nat /\ p + (r - 1 - p) < r /\ p + (r - 1 - p) = r - 1
      OBVIOUS
    <3>2. r - 1 - p \in T
      BY <2>7, <2>8, <3>1, Induction
    <3> QED BY <3>1, <3>2 DEF T
  <2>10. f[r] = g[r]
    <3> DEFINE v == f[r - 1]
    <3> DEFINE w == g[r - 1]
    <3>1. /\ v \in Clean /\ w \in Clean /\ f[r] = Effect(k, v, u) /\ g[r] = Effect(k, w, u)
          /\ f[r] \in Clean /\ g[r] \in Clean
      <4>1. t[r] = u
        OBVIOUS
      <4> QED BY <2>5, <4>1
    <3>2. Close(v, w) /\ k \in u.ids /\ u.type = "update" /\ u.num.kind \in {"keep", "set"}
      BY <1>0, <1>2, <2>9, OpIs
    <3>u. u \in Op
      BY <1>0
    <3> HIDE DEF v, w, u
    <3>3. CASE ~v.exists
      <4>1. v = NoRow /\ w = NoRow
        BY <3>1, <3>2, <3>3, CleanIs DEF Close
      <4> QED BY <3>1, <4>1
    <3>4. CASE v.exists
      <4>1. f[r] = Assign(v, u) /\ g[r] = Assign(w, u)
        BY <3>1, <3>2, <3>4, <3>u, EffectIs, ZenonT(60) DEF Close
      <4>2. Assign(v, u).val = Assign(w, u).val
        <5>1. /\ Assign(v, u).val = (IF u.val = "keep" THEN v.val ELSE u.val)
              /\ Assign(w, u).val = (IF u.val = "keep" THEN w.val ELSE u.val)
          BY <3>1, <3>u, AssignIs
        <5>2. u.val = "keep" => v.val = w.val
          BY <3>2 DEF Close
        <5> QED BY <5>1, <5>2
      <4>3. Assign(v, u).n = Assign(w, u).n
        <5>1. /\ u.num.kind = "keep" => Assign(v, u).n = v.n
              /\ u.num.kind = "set" => Assign(v, u).n = u.num.by
          BY <3>1, <3>u, AssignIs
        <5>2. /\ u.num.kind = "keep" => Assign(w, u).n = w.n
              /\ u.num.kind = "set" => Assign(w, u).n = u.num.by
          BY <3>1, <3>u, AssignIs
        <5>3. u.num.kind = "keep" => v.n = w.n
          BY <3>2 DEF Close
        <5> QED BY <3>2, <5>1, <5>2, <5>3
      <4>4. Assign(v, u).exists = Assign(w, u).exists
        <5>1. Assign(v, u).exists /\ Assign(w, u).exists
          BY <3>1, <3>u, AssignIs
        <5>2. Assign(v, u).exists \in BOOLEAN /\ Assign(w, u).exists \in BOOLEAN
          BY <3>1, <3>u, AssignIs, CleanIs
        <5> QED BY <5>1, <5>2
      <4> QED BY <3>1, <4>1, <4>2, <4>3, <4>4, SameRow
    <3> QED BY <3>3, <3>4
  <2>11. \A i \in (r + 1)..Len(t) : t[i] = s[i]
    <3>1. \A i \in (r + 1)..Len(t) : i \in 1..Len(s) /\ i # p
      OBVIOUS
    <3> QED BY <3>1
  <2>12. r \in 0..Len(t)
    OBVIOUS
  <2> QED BY <2>10, <2>11, <2>12, AlikeFrom DEF f, g
<1> QED BY <1>1, <1>2
(* Operations in the order of their types that neither insert nor           *)
(* increment do the same twice: each field is assigned last by the same     *)
(* operation, or by none.                                                   *)
LEMMA Again ==
  ASSUME NEW k \in Keys, NEW x \in Clean, NEW s \in Seq(Op),
         \A i \in 1..Len(s) : k \in s[i].ids => s[i].type # "insert" /\ s[i].num.kind # "inc",
         \A i, j \in 1..Len(s) : i < j /\ k \in s[i].ids /\ k \in s[j].ids =>
            Priority(s[i]) <= Priority(s[j])
  PROVE  After(k, After(k, x, s), s) = After(k, x, s)
<1> DEFINE y == After(k, x, s)
<1> DEFINE f == Trail(k, x, s)
<1> DEFINE g == Trail(k, y, s)
<1>0. y \in Clean /\ y = f[Len(s)] /\ f[0] = x
  BY TrailIs DEF After
<1>1. g[0] = y
  BY <1>0, TrailIs
<1>2. ASSUME NEW i \in Nat, i < Len(s)
      PROVE  /\ i + 1 \in 1..Len(s) /\ s[i + 1] \in Op
             /\ f[i] \in Clean /\ f[i + 1] \in Clean /\ g[i] \in Clean /\ g[i + 1] \in Clean
             /\ f[i + 1] = Effect(k, f[i], s[i + 1]) /\ g[i + 1] = Effect(k, g[i], s[i + 1])
  <2>1. i + 1 \in 1..Len(s) /\ (i + 1) - 1 = i /\ i \in 0..Len(s) /\ i + 1 \in 0..Len(s)
    BY <1>2
  <2>2. /\ Trail(k, x, s) \in [0..Len(s) -> Clean]
        /\ \A j \in 1..Len(s) : Trail(k, x, s)[j] = Effect(k, Trail(k, x, s)[j - 1], s[j])
    BY TrailIs
  <2>3. /\ Trail(k, y, s) \in [0..Len(s) -> Clean]
        /\ \A j \in 1..Len(s) : Trail(k, y, s)[j] = Effect(k, Trail(k, y, s)[j - 1], s[j])
    BY <1>0, TrailIs
  <2> HIDE DEF y
  <2> QED BY <2>1, <2>2, <2>3
<1> DEFINE Follows(i) == /\ g[i].exists \in {f[i].exists, y.exists}
                      /\ g[i].val \in {f[i].val, y.val}
                      /\ g[i].n \in {f[i].n, y.n}
<1> HIDE DEF y, f, g
<1> DEFINE T == {i \in Nat : i <= Len(s) => Follows(i)}
<1>3. 0 \in T
  BY <1>1
<1>4. ASSUME NEW i \in Nat, i \in T
      PROVE  i + 1 \in T
  <2> SUFFICES ASSUME i + 1 <= Len(s)
               PROVE  Follows(i + 1)
    OBVIOUS
  <2> DEFINE write == s[i + 1]
  <2> DEFINE v == f[i]
  <2> DEFINE w == g[i]
  <2>0. Follows(i) /\ i < Len(s)
    BY <1>4
  <2>1. /\ i + 1 \in 1..Len(s) /\ write \in Op /\ v \in Clean /\ w \in Clean
        /\ f[i + 1] \in Clean /\ g[i + 1] \in Clean
        /\ f[i + 1] = Effect(k, v, write) /\ g[i + 1] = Effect(k, w, write)
    BY <1>2, <2>0
  <2>2. k \in write.ids => write.type # "insert" /\ write.num.kind # "inc"
    BY <2>1
  \* A missing row stays missing once updates have begun.
  <2>3. k \in write.ids /\ write.type = "update" /\ ~v.exists => ~y.exists
    <3> SUFFICES ASSUME k \in write.ids, write.type = "update", ~v.exists
                 PROVE  ~y.exists
      OBVIOUS
    <3>1. \A j \in (i + 1)..Len(s) : k \in s[j].ids => s[j].type \notin {"insert", "upsert"}
      <4> SUFFICES ASSUME NEW j \in (i + 1)..Len(s), k \in s[j].ids
                   PROVE  s[j].type \notin {"insert", "upsert"}
        OBVIOUS
      <4>1. j \in 1..Len(s) /\ (j = i + 1 \/ i + 1 < j) /\ s[j] \in Op
        BY <2>1
      <4>2. CASE i + 1 < j
        <5>1. Priority(write) <= Priority(s[j])
          BY <2>1, <4>1, <4>2
        <5>2. Priority(write) = 2
          BY DEF Priority
        <5> QED BY <5>1, <5>2 DEF Priority
      <4> QED BY <4>1, <4>2
    <3>2. Len(s) \in Nat /\ i <= Len(s) /\ Len(s) <= Len(s)
      BY <2>0
    <3> DEFINE n == Len(s)
    <3>3. n \in Nat /\ i <= n /\ n <= Len(s) /\ \A j \in (i + 1)..n : k \in s[j].ids => s[j].type \notin {"insert", "upsert"}
      BY <3>1, <3>2
    <3>4. ~Trail(k, x, s)[i].exists => ~Trail(k, x, s)[n].exists
      <4> HIDE DEF n
      <4> QED BY <3>3, Stretch
    <3> QED BY <1>0, <3>4 DEF f, y
  <2> HIDE DEF v, w, write
  <2>4. v = f[i] /\ w = g[i]
    BY DEF v, w
  <2>5. CASE k \notin write.ids
    BY <2>0, <2>1, <2>4, <2>5, EffectIs
  <2>6. CASE k \in write.ids /\ write.type = "delete"
    <3>1. f[i + 1] = g[i + 1]
      BY <2>1, <2>6, EffectIs
    <3> QED BY <3>1
  <2>7. ASSUME f[i + 1] = Assign(v, write), g[i + 1] = Assign(w, write), k \in write.ids
        PROVE  Follows(i + 1)
    <3>1. write.num.kind \in {"keep", "set"}
      BY <2>1, <2>2, <2>7, OpIs
    <3>2. /\ Assign(v, write).exists /\ Assign(w, write).exists
          /\ Assign(v, write).val = (IF write.val = "keep" THEN v.val ELSE write.val)
          /\ Assign(w, write).val = (IF write.val = "keep" THEN w.val ELSE write.val)
      BY <2>1, AssignIs
    <3>3. /\ write.num.kind = "keep" => Assign(v, write).n = v.n /\ Assign(w, write).n = w.n
          /\ write.num.kind = "set" => Assign(v, write).n = write.num.by /\ Assign(w, write).n = write.num.by
      BY <2>1, AssignIs
    <3>4. f[i + 1].exists \in BOOLEAN /\ g[i + 1].exists \in BOOLEAN
      BY <2>1, CleanIs
    <3>5. g[i + 1].exists = f[i + 1].exists
      BY <2>7, <3>2, <3>4
    <3>6. g[i + 1].val \in {f[i + 1].val, y.val}
      BY <2>0, <2>4, <2>7, <3>2
    <3>7. g[i + 1].n \in {f[i + 1].n, y.n}
      BY <2>0, <2>4, <2>7, <3>1, <3>3
    <3> QED BY <3>5, <3>6, <3>7
  <2>8. CASE k \in write.ids /\ write.type = "upsert"
    BY <2>1, <2>7, <2>8, EffectIs
  <2>9. CASE k \in write.ids /\ write.type = "update"
    <3>1. CASE v.exists /\ w.exists
      BY <2>1, <2>7, <2>9, <3>1, EffectIs
    <3>2. CASE ~v.exists /\ ~w.exists
      <4>1. f[i + 1] = v /\ g[i + 1] = w
        BY <2>1, <2>9, <3>2, EffectIs
      <4> QED BY <2>0, <2>4, <4>1
    <3>3. CASE ~v.exists /\ w.exists
      <4>1. ~y.exists
        BY <2>3, <2>9, <3>3 DEF write, v
      <4> QED BY <2>0, <2>4, <3>3, <4>1
    <3>4. CASE v.exists /\ ~w.exists
      <4>1. w.exists = y.exists
        BY <2>0, <2>4, <3>4
      <4>2. w = NoRow /\ y = NoRow
        BY <1>0, <2>1, <3>4, <4>1, CleanIs
      <4>3. g[i + 1] = y
        BY <2>1, <2>9, <3>4, <4>2, EffectIs
      <4> QED BY <4>3
    <3> QED BY <3>1, <3>2, <3>3, <3>4
  <2> QED BY <2>1, <2>2, <2>5, <2>6, <2>8, <2>9, OpIs
<1>5. Len(s) \in T
  <2> HIDE DEF T
  <2>1. Len(s) \in Nat
    OBVIOUS
  <2> QED BY <1>3, <1>4, <2>1, Induction
<1>6. g[Len(s)] = y
  <2>1. g[Len(s)].exists = y.exists /\ g[Len(s)].val = y.val /\ g[Len(s)].n = y.n
    BY <1>0, <1>5
  <2>2. g[Len(s)] \in Clean
    BY <1>0, TrailIs DEF After, g
  <2> QED BY <1>0, <2>1, <2>2, SameRow
<1> QED BY <1>6 DEF After, g, y
-----------------------------------------------------------------------------
(* groupOps                                                                 *)

(* The values that a fold passes through, one after each member.            *)
Iterates(V, n, F, base, iter) ==
    /\ iter[{}] = base
    /\ \A s \in SUBSET (1..n) : s # {} /\ iter[s \ {Max(s)}] \in V =>
            iter[s] = F[<<iter[s \ {Max(s)}], Max(s)>>]
Passes(V, n, F, base, last, r) ==
    /\ r \in [0..n -> V] /\ r[0] = base /\ last = r[n]
    /\ \A i \in 1..n : r[i] = F[<<r[i - 1], i>>]

(* A fold passes its values from the first to the last.                     *)
LEMMA FoldSteps ==
  ASSUME NEW V, NEW n \in Nat, NEW F \in [V \X (1..n) -> V], NEW base \in V, NEW iter,
         Iterates(V, n, F, base, iter)
  PROVE  \E r : Passes(V, n, F, base, iter[1..n], r)
<1>0. /\ iter[{}] = base
      /\ \A s \in SUBSET (1..n) : s # {} /\ iter[s \ {Max(s)}] \in V =>
            iter[s] = F[<<iter[s \ {Max(s)}], Max(s)>>]
  BY DEF Iterates
<1>1. \A i \in Nat : i + 1 <= n /\ iter[1..i] \in V => iter[1..(i + 1)] = F[<<iter[1..i], i + 1>>]
  <2> TAKE i \in Nat
  <2> HAVE i + 1 <= n /\ iter[1..i] \in V
  <2>1. Max(1..(i + 1)) = i + 1 /\ (1..(i + 1)) \ {i + 1} = 1..i
    BY MaxLast
  <2>2. 1..(i + 1) \in SUBSET (1..n) /\ i + 1 \in 1..(i + 1)
    OBVIOUS
  <2> QED BY <1>0, <2>1, <2>2
<1>2. 1..0 = {}
  OBVIOUS
<1> DEFINE T == {i \in Nat : i <= n => iter[1..i] \in V}
<1>3. \A i \in 0..n : iter[1..i] \in V
  <2>1. 0 \in T
    BY <1>0, <1>2
  <2>2. ASSUME NEW i \in Nat, i \in T
        PROVE  i + 1 \in T
    <3>1. CASE i + 1 <= n
      <4>1. i <= n /\ iter[1..i] \in V /\ i + 1 \in 1..n
        BY <2>2, <3>1
      <4>2. iter[1..(i + 1)] \in V
        BY <1>1, <3>1, <4>1
      <4> QED BY <4>2
    <3>2. CASE ~(i + 1 <= n)
      BY <3>2
    <3> QED BY <3>1, <3>2
  <2>3. \A i \in Nat : i \in T
    <3> HIDE DEF T
    <3> QED BY <2>1, <2>2, Induction
  <2> QED BY <2>3
<1> DEFINE r == [i \in 0..n |-> iter[1..i]]
<1>4. r \in [0..n -> V]
  BY <1>3
<1>5. r[0] = base /\ iter[1..n] = r[n]
  BY <1>0, <1>2
<1>6. ASSUME NEW i \in 1..n
      PROVE  r[i] = F[<<r[i - 1], i>>]
  <2>1. i - 1 \in Nat /\ (i - 1) + 1 = i /\ i - 1 \in 0..n /\ i \in 0..n
    OBVIOUS
  <2> QED BY <1>1, <1>3, <2>1
<1> HIDE DEF r
<1> QED BY <1>4, <1>5, <1>6 DEF Passes

(* What the references denote when the objects are objs.                    *)
Ops(objs, refs) == [i \in DOMAIN refs |-> objs[refs[i]]]

(* The operations that references stand for.                                *)
LEMMA OfIs ==
  ASSUME NEW D, NEW objs \in [D -> Op], NEW refs \in Seq(D)
  PROVE  /\ Ops(objs, refs) \in Seq(Op) /\ Len(Ops(objs, refs)) = Len(refs)
         /\ DOMAIN Ops(objs, refs) = 1..Len(refs) /\ DOMAIN refs = 1..Len(refs)
         /\ \A i \in 1..Len(refs) : refs[i] \in D /\ Ops(objs, refs)[i] = objs[refs[i]]
<1>1. DOMAIN refs = 1..Len(refs) /\ Len(refs) \in Nat /\ \A i \in 1..Len(refs) : refs[i] \in D
  OBVIOUS
<1>2. Ops(objs, refs) \in [1..Len(refs) -> Op]
  BY <1>1 DEF Ops
<1>3. Ops(objs, refs) \in Seq(Op)
  BY <1>1, <1>2
<1>4. DOMAIN Ops(objs, refs) = 1..Len(refs)
  BY <1>1 DEF Ops
<1> QED BY <1>1, <1>3, <1>4 DEF Ops

(* An operation is kept, or merged into the one at place t.                 *)
Keeps(kept, objs, r, result) ==
    /\ result = <<Append(kept, r), objs>>
    /\ objs[r].eq => \A q \in ToSet(kept) : ~(objs[q].eq /\ objs[q].ids = objs[r].ids)
Merges(kept, objs, r, result, t) ==
    /\ objs[r].eq /\ objs[kept[t]].eq /\ objs[kept[t]].ids = objs[r].ids
    /\ result = <<kept, [objs EXCEPT ![kept[t]] = Merge(objs[kept[t]], objs[r])]>>

(* groupOps keeps an operation as it is or merges it into a kept one.       *)
LEMMA GroupIs ==
  ASSUME NEW D, NEW kept \in Seq(D), NEW objs \in [D -> Op], NEW r \in D
  PROVE  /\ Group(<<kept, objs>>, r) \in Seq(D) \X [D -> Op]
         /\ \/ Keeps(kept, objs, r, Group(<<kept, objs>>, r))
            \/ \E t \in 1..Len(kept) : Merges(kept, objs, r, Group(<<kept, objs>>, r), t)
<1> DEFINE same == {q \in ToSet(kept) : objs[q].eq /\ objs[q].ids = objs[r].ids}
<1> DEFINE q == CHOOSE q \in same : TRUE
<1>1. Group(<<kept, objs>>, r) =
        IF objs[r].eq /\ same # {} THEN <<kept, [objs EXCEPT ![q] = Merge(objs[q], objs[r])]>>
                                   ELSE <<Append(kept, r), objs>>
  BY DEF Group
<1>2. CASE objs[r].eq /\ same # {}
  <2>1. q \in same
    BY <1>2
  <2> HIDE DEF q
  <2>2. q \in ToSet(kept) /\ objs[q].eq /\ objs[q].ids = objs[r].ids
    BY <2>1
  <2>3. PICK t \in 1..Len(kept) : q = kept[t]
    BY <2>2 DEF ToSet
  <2>4. q \in D /\ objs[q] \in Op /\ objs[r] \in Op
    BY <2>3
  <2>5. Merge(objs[q], objs[r]) \in Op
    BY <2>4, MergeIs
  <2> DEFINE m == Merge(objs[q], objs[r])
  <2>6. [objs EXCEPT ![q] = m] \in [D -> Op]
    <3> HIDE DEF m
    <3>1. m \in Op
      BY <2>5 DEF m
    <3> QED BY <3>1
  <2> HIDE DEF m
  <2>7. Group(<<kept, objs>>, r) = <<kept, [objs EXCEPT ![q] = m]>>
    BY <1>1, <1>2 DEF m
  <2>8. Group(<<kept, objs>>, r) \in Seq(D) \X [D -> Op]
    <3> DEFINE new == [objs EXCEPT ![q] = m]
    <3>1. new \in [D -> Op] /\ Group(<<kept, objs>>, r) = <<kept, new>>
      BY <2>6, <2>7
    <3> HIDE DEF new
    <3>2. <<kept, new>> \in Seq(D) \X [D -> Op]
      BY <3>1
    <3> QED BY <3>1, <3>2
  <2>9. /\ objs[r].eq /\ objs[kept[t]].eq /\ objs[kept[t]].ids = objs[r].ids
        /\ Group(<<kept, objs>>, r) = <<kept, [objs EXCEPT ![kept[t]] = Merge(objs[kept[t]], objs[r])]>>
    BY <1>2, <2>2, <2>3, <2>7 DEF m
  <2> HIDE DEF same
  <2>10. Merges(kept, objs, r, Group(<<kept, objs>>, r), t)
    BY <2>9 DEF Merges
  <2> QED BY <2>8, <2>10
<1>3. CASE ~(objs[r].eq /\ same # {})
  <2>1. Group(<<kept, objs>>, r) = <<Append(kept, r), objs>>
    BY <1>1, <1>3
  <2>2. Append(kept, r) \in Seq(D)
    OBVIOUS
  <2>3. Group(<<kept, objs>>, r) \in Seq(D) \X [D -> Op]
    <3> DEFINE new == Append(kept, r)
    <3>1. new \in Seq(D) /\ Group(<<kept, objs>>, r) = <<new, objs>>
      BY <2>1, <2>2
    <3> HIDE DEF new
    <3>2. <<new, objs>> \in Seq(D) \X [D -> Op]
      BY <3>1
    <3> QED BY <3>1, <3>2
  <2>4. objs[r].eq => \A p \in ToSet(kept) : ~(objs[p].eq /\ objs[p].ids = objs[r].ids)
    BY <1>3
  <2> HIDE DEF same
  <2>5. Keeps(kept, objs, r, Group(<<kept, objs>>, r))
    BY <2>1, <2>4 DEF Keeps
  <2> QED BY <2>3, <2>5
<1> QED BY <1>2, <1>3

(* groupOps goes through the batch one operation after the other.           *)
LEMMA CoalescedSteps ==
  ASSUME objects \in Seq(Op), NEW refs \in Seq(DOMAIN objects)
  PROVE  \E g \in [0..Len(refs) -> Seq(DOMAIN objects) \X [DOMAIN objects -> Op]] :
            /\ g[0] = <<<<>>, objects>> /\ Coalesced(refs) = g[Len(refs)]
            /\ \A i \in 1..Len(refs) : g[i] = Group(g[i - 1], refs[i])
<1> DEFINE D == DOMAIN objects
<1> DEFINE n == Len(refs)
<1> DEFINE V == Seq(D) \X [D -> Op]
<1> DEFINE base == <<<<>>, objects>>
<1> DEFINE F == [x \in V \X (1..n) |-> Group(x[1], refs[x[2]])]
<1> DEFINE iter == CHOOSE f : f = [s \in SUBSET DOMAIN refs |->
                                     IF s = {} THEN base ELSE Group(f[s \ {Max(s)}], refs[Max(s)])]
<1>1. Coalesced(refs) = iter[DOMAIN refs]
  BY DEF Coalesced, FoldLeft, MapThenFoldSet
<1>a. base \in V
  <2>1. <<>> \in Seq(D)
    OBVIOUS
  <2>2. objects \in [D -> Op]
    OBVIOUS
  <2> HIDE DEF D
  <2> QED BY <2>1, <2>2
<1>2. n \in Nat /\ DOMAIN refs = 1..n /\ base \in V /\ \A i \in 1..n : refs[i] \in D
  <2> HIDE DEF base, V
  <2> QED BY <1>a
<1>3. \A v \in V : \A i \in 1..n : Group(v, refs[i]) \in V /\ F[<<v, i>>] = Group(v, refs[i])
  <2> TAKE v \in V
  <2> TAKE i \in 1..n
  <2>1. v = <<v[1], v[2]>> /\ v[1] \in Seq(D) /\ v[2] \in [D -> Op] /\ refs[i] \in D
    BY <1>2
  <2>2. Group(v, refs[i]) \in V
    <3> DEFINE a == v[1]
    <3> DEFINE b == v[2]
    <3>1. a \in Seq(D) /\ b \in [D -> Op] /\ v = <<a, b>>
      BY <2>1
    <3> HIDE DEF a, b, D
    <3>2. Group(<<a, b>>, refs[i]) \in Seq(D) \X [D -> Op]
      BY <2>1, <3>1, GroupIs
    <3> QED BY <3>1, <3>2
  <2>3. F[<<v, i>>] = Group(v, refs[i])
    OBVIOUS
  <2> QED BY <2>2, <2>3
<1>4. F \in [V \X (1..n) -> V]
  BY <1>3
<1> HIDE DEF n, V, base, F, D
<1>b. PICK g : IsFold(V, n, F, base, g)
  BY <1>2, <1>4, FoldExists
<1>5. /\ g \in [SUBSET (1..n) -> V]
      /\ \A s \in SUBSET (1..n) : g[s] = IF s = {} THEN base ELSE F[<<g[s \ {Max(s)}], Max(s)>>]
  BY <1>b DEF IsFold
<1>6. \A s \in SUBSET (1..n) : s # {} => Max(s) \in 1..n /\ g[s \ {Max(s)}] \in V
  BY <1>2, <1>5, MaxIs
<1>7. g = [s \in SUBSET (1..n) |-> IF s = {} THEN base ELSE Group(g[s \ {Max(s)}], refs[Max(s)])]
  <2>1. \A s \in SUBSET (1..n) :
            g[s] = IF s = {} THEN base ELSE Group(g[s \ {Max(s)}], refs[Max(s)])
    BY <1>3, <1>5, <1>6
  <2> QED BY <1>5, <2>1
<1>8. iter = [s \in SUBSET (1..n) |-> IF s = {} THEN base ELSE Group(iter[s \ {Max(s)}], refs[Max(s)])]
  BY <1>2, <1>7
<1> HIDE DEF iter
<1>9. iter[{}] = base
  BY <1>8
<1>10. \A s \in SUBSET (1..n) : s # {} /\ iter[s \ {Max(s)}] \in V =>
            iter[s] = F[<<iter[s \ {Max(s)}], Max(s)>>]
  BY <1>3, <1>6, <1>8
<1>c. Iterates(V, n, F, base, iter)
  BY <1>9, <1>10 DEF Iterates
<1>d. PICK r : Passes(V, n, F, base, iter[1..n], r)
  BY <1>2, <1>4, <1>c, FoldSteps
<1>11. /\ r \in [0..n -> V] /\ r[0] = base /\ iter[1..n] = r[n]
       /\ \A i \in 1..n : r[i] = F[<<r[i - 1], i>>]
  BY <1>d DEF Passes
<1>12. \A i \in 1..n : r[i] = Group(r[i - 1], refs[i])
  <2>1. \A i \in 1..n : i - 1 \in 0..n
    BY <1>2
  <2> QED BY <1>3, <1>11, <2>1
<1> QED BY <1>1, <1>2, <1>11, <1>12 DEF n, V, base, D
(* An update merged into an earlier one, when nothing touches the key from  *)
(* there on, does what it would have done at the end.                       *)
LEMMA MergeLast ==
  ASSUME NEW k \in Keys, NEW x \in Clean, NEW s \in Seq(Op), NEW t \in Seq(Op), Len(t) = Len(s),
         NEW p \in 1..Len(s), NEW u \in Op,
         s[p].type = "update", u.type = "update", s[p].ids = u.ids,
         \A i \in (p + 1)..Len(s) : k \in u.ids => k \notin s[i].ids,
         t[p] = Merge(s[p], u), \A i \in 1..Len(s) : i # p => t[i] = s[i]
  PROVE  After(k, x, t) = Effect(k, After(k, x, s), u)
<1>0. s[p] \in Op /\ After(k, x, s) \in Clean
  <2>1. s[p] \in Op
    OBVIOUS
  <2> QED BY <2>1, TrailIs
<1>m. t[p].ids = u.ids
  <2> DEFINE m == Merge(s[p], u)
  <2>1. m.ids = s[p].ids
    BY <1>0, MergeIs
  <2> QED BY <2>1
<1>1. CASE k \notin u.ids
  <2>1. \A i \in 1..Len(t) : t[i] = s[i] \/ (k \notin t[i].ids /\ k \notin s[i].ids)
    BY <1>m, <1>1
  <2>2. After(k, x, t) = After(k, x, s)
    BY <2>1, AfterAlike
  <2> QED BY <1>0, <1>1, <2>2, EffectIs
<1>2. CASE k \in u.ids
  <2> DEFINE f == Trail(k, x, s)
  <2> DEFINE g == Trail(k, x, t)
  <2> DEFINE n == Len(s)
  <2>0. n \in Nat /\ Len(t) = n /\ p \in 1..n /\ p \in Nat /\ p <= n /\ n <= n /\ p - 1 \in 0..n /\ p \in 0..n
        /\ n \in 0..n
    OBVIOUS
  <2>1. \A i \in (p + 1)..n : i \in 1..n /\ i # p
    OBVIOUS
  <2>2. /\ \A i \in (p + 1)..n : k \notin s[i].ids
        /\ \A i \in (p + 1)..n : k \notin t[i].ids
    BY <1>2, <2>1
  <2>3. f[n] = f[p]
    <3> HIDE DEF n
    <3>1. p \in Nat /\ n \in Nat /\ p <= n /\ n <= Len(s)
      BY <2>0 DEF n
    <3> QED BY <2>2, <3>1, Stretch
  <2>4. g[n] = g[p]
    <3> HIDE DEF n
    <3> QED BY <2>0, <2>2, Stretch
  <2>5. f[p - 1] = g[p - 1]
    <3>1. IsTrail(k, x, s, f) /\ IsTrail(k, x, t, g)
      BY TrailIs
    <3>2. /\ p - 1 \in Nat /\ p - 1 <= Len(s) /\ p - 1 <= Len(t) /\ p - 1 \in 0..(p - 1)
          /\ \A i \in 1..(p - 1) : i \in 1..Len(s) /\ i # p
      OBVIOUS
    <3>3. \A i \in 1..(p - 1) : s[i] = t[i] \/ (k \notin s[i].ids /\ k \notin t[i].ids)
      BY <3>2
    <3> DEFINE e == p - 1
    <3>4. /\ e \in Nat /\ e <= Len(s) /\ e <= Len(t) /\ e \in 0..e
          /\ \A i \in 1..e : s[i] = t[i] \/ (k \notin s[i].ids /\ k \notin t[i].ids)
      BY <3>2, <3>3
    <3> HIDE DEF f, g, e
    <3>a. k \in Keys /\ x \in Clean /\ s \in Seq(Op) /\ t \in Seq(Op)
      OBVIOUS
    <3>b. \A i \in 0..e : f[i] = g[i]
      BY ONLY <3>a, <3>1, <3>4, Alike
    <3>5. f[e] = g[e]
      BY <3>4, <3>b
    <3> QED BY <3>5 DEF e
  <2>6. f[p - 1] \in Clean /\ f[p] = Effect(k, f[p - 1], s[p])
    <3>1. Trail(k, x, s) \in [0..Len(s) -> Clean]
      BY TrailIs
    <3>2. \A i \in 1..Len(s) : Trail(k, x, s)[i] = Effect(k, Trail(k, x, s)[i - 1], s[i])
      BY TrailIs, ZenonT(60)
    <3> QED BY <2>0, <3>1, <3>2
  <2>7. g[p] = Effect(k, g[p - 1], t[p])
    <3>2. \A i \in 1..Len(t) : Trail(k, x, t)[i] = Effect(k, Trail(k, x, t)[i - 1], t[i])
      BY TrailIs
    <3> QED BY <2>0, <3>2
  <2> HIDE DEF f, g, n
  <2>8. Effect(k, Effect(k, f[p - 1], s[p]), u) = Effect(k, f[p - 1], Merge(s[p], u))
    BY <1>0, <2>6, Merged
  <2>9. g[n] = Effect(k, f[n], u)
    BY <2>3, <2>4, <2>5, <2>6, <2>7, <2>8
  <2> QED BY <2>9 DEF After, f, g, n
<1> QED BY <1>1, <1>2

SameShape(write, old) == write.type = old.type /\ write.ids = old.ids /\ write.eq = old.eq

(* An update by id has one id.                                              *)
Keyed(objs) == \A r \in DOMAIN objs :
    objs[r].eq => objs[r].type = "update" /\ \E k \in Keys : objs[r].ids = {k}

Distinct(refs) == \A i, m \in 1..Len(refs) : i # m => refs[i] # refs[m]

(* h has the places of the kept references among the first j.               *)
KeptAt(refs, kept, j, h) ==
    /\ h \in [1..Len(kept) -> 1..j]
    /\ \A i \in 1..Len(kept) : kept[i] = refs[h[i]]
    /\ \A i, m \in 1..Len(kept) : i < m => h[i] < h[m]

(* groupOps after the first j references: what was kept does what they did, *)
(* and so does the whole batch as it is now if no increment was merged.     *)
Grouping(refs, kept, objs, j) ==
    /\ \E h : KeptAt(refs, kept, j, h)
    /\ \A r \in DOMAIN objects : SameShape(objs[r], objects[r])
    /\ \A r \in DOMAIN objects : r \notin ToSet(kept) \/ ~objects[r].eq => objs[r] = objects[r]
    /\ (\E r \in DOMAIN objects : objs[r].num.kind = "inc")
         => \E r \in DOMAIN objects : objects[r].num.kind = "inc"
    /\ \A i, m \in 1..Len(kept) :
            i < m /\ objs[kept[i]].eq /\ objs[kept[m]].eq => objs[kept[i]].ids # objs[kept[m]].ids
    /\ \A k \in Keys : \A x \in Clean : After(k, x, Ops(objs, kept)) = Trail(k, x, Ops(objects, refs))[j]
    /\ (\A i \in 1..j : refs[i] \notin ToSet(kept) => objects[refs[i]].num.kind # "inc")
         => \A k \in Keys : \A x \in Clean : After(k, x, Ops(objs, refs)) = After(k, x, Ops(objects, refs))

(* Before the first operation nothing is kept and nothing merged.           *)
LEMMA GroupingBegins ==
  ASSUME objects \in Seq(Op), NEW refs \in Seq(DOMAIN objects)
  PROVE  Grouping(refs, <<>>, objects, 0)
<1>1. KeptAt(refs, <<>>, 0, [i \in 1..0 |-> 1])
  BY DEF KeptAt
<1>2. Ops(objects, <<>>) \in Seq(Op) /\ Len(Ops(objects, <<>>)) = 0
  <2> DEFINE D == DOMAIN objects
  <2>1. objects \in [D -> Op]
    OBVIOUS
  <2> HIDE DEF D
  <2>2. <<>> \in Seq(D) /\ Len(<<>>) = 0
    OBVIOUS
  <2> DEFINE none == <<>>
  <2>3. none \in Seq(D) /\ Len(none) = 0
    BY <2>2
  <2> HIDE DEF none
  <2>4. Ops(objects, none) \in Seq(Op) /\ Len(Ops(objects, none)) = 0
    BY <2>1, <2>3, OfIs
  <2> QED BY <2>4 DEF none
<1>3. \A k \in Keys : \A x \in Clean : After(k, x, Ops(objects, <<>>)) = x
  BY <1>2, TrailIs DEF After
<1>4. Ops(objects, refs) \in Seq(Op)
  <2>1. objects \in [DOMAIN objects -> Op]
    OBVIOUS
  <2> QED BY <2>1, OfIs
<1>5. \A k \in Keys : \A x \in Clean : Trail(k, x, Ops(objects, refs))[0] = x
  BY <1>4, TrailIs
<1>6. Len(<<>>) = 0
  OBVIOUS
<1>7. \E h : KeptAt(refs, <<>>, 0, h)
  BY <1>1
<1>8. \A i, m \in 1..Len(<<>>) : ~(i < m)
  BY <1>6
<1> QED BY <1>3, <1>5, <1>7, <1>8 DEF Grouping, SameShape
(* One operation more: kept, or merged into the one kept for its id.        *)
LEMMA GroupStep ==
  ASSUME objects \in Seq(Op), Keyed(objects),
         NEW refs \in Seq(DOMAIN objects), Distinct(refs), Phased(Ops(objects, refs)),
         NEW kept \in Seq(DOMAIN objects), NEW objs \in [DOMAIN objects -> Op],
         NEW j \in Nat, j < Len(refs), Grouping(refs, kept, objs, j),
         NEW kept2, NEW objs2, <<kept2, objs2>> = Group(<<kept, objs>>, refs[j + 1])
  PROVE  Grouping(refs, kept2, objs2, j + 1)
<1> DEFINE D == DOMAIN objects
<1> DEFINE n == Len(refs)
<1> DEFINE r == refs[j + 1]
<1> DEFINE c == Ops(objects, refs)
<1> DEFINE l == Len(kept)
<1>1. /\ objects \in [D -> Op] /\ n \in Nat /\ j + 1 \in 1..n /\ j \in 0..n /\ (j + 1) - 1 = j /\ r \in D
      /\ \A i \in 1..j : i \in 1..n /\ i # j + 1 /\ i < j + 1
      /\ \A i \in 1..n : refs[i] \in D
      /\ refs \in Seq(D) /\ kept \in Seq(D) /\ objs \in [D -> Op]
      /\ l \in Nat /\ \A i \in 1..l : kept[i] \in D
  BY SMTT(60)
<1>2. c \in Seq(Op) /\ Len(c) = n /\ DOMAIN c = 1..n /\ \A i \in 1..n : c[i] = objects[refs[i]]
  <2>1. objects \in [D -> Op] /\ refs \in Seq(D) /\ Len(refs) = n
    BY <1>1
  <2> HIDE DEF D, n, c
  <2>2. /\ Ops(objects, refs) \in Seq(Op) /\ Len(Ops(objects, refs)) = n
        /\ DOMAIN Ops(objects, refs) = 1..n
        /\ \A i \in 1..n : Ops(objects, refs)[i] = objects[refs[i]]
    BY ONLY <2>1, OfIs
  <2> QED BY <2>2 DEF c
<1>3. /\ \A i, m \in 1..n : i # m => refs[i] # refs[m]
      /\ \A i, m \in 1..n : i < m /\ c[i].ids \cap c[m].ids # {} =>
            /\ Priority(c[i]) <= Priority(c[m])
            /\ c[i].eq /\ c[m].eq =>
                 \A q \in (i + 1)..(m - 1) : c[q].ids \cap c[i].ids # {} => c[q].eq
  BY <1>2 DEF Distinct, Phased
<1>4. \A q \in D : objects[q].eq => objects[q].type = "update" /\ \E k \in Keys : objects[q].ids = {k}
  BY DEF Keyed
<1> HIDE DEF D, n, r, c, l
<1>5. PICK h : KeptAt(refs, kept, j, h)
  BY DEF Grouping
<1>6. /\ \A i \in 1..l : h[i] \in 1..j /\ h[i] \in 1..n /\ kept[i] = refs[h[i]]
      /\ \A i, m \in 1..l : i < m => h[i] < h[m]
  BY <1>1, <1>5 DEF KeptAt, l
<1>7. /\ \A q \in D : SameShape(objs[q], objects[q])
      /\ \A q \in D : q \notin ToSet(kept) \/ ~objects[q].eq => objs[q] = objects[q]
      /\ (\E q \in D : objs[q].num.kind = "inc") => \E q \in D : objects[q].num.kind = "inc"
      /\ \A i, m \in 1..l :
            i < m /\ objs[kept[i]].eq /\ objs[kept[m]].eq => objs[kept[i]].ids # objs[kept[m]].ids
      /\ \A k \in Keys : \A x \in Clean : After(k, x, Ops(objs, kept)) = Trail(k, x, c)[j]
      /\ (\A i \in 1..j : refs[i] \notin ToSet(kept) => objects[refs[i]].num.kind # "inc")
           => \A k \in Keys : \A x \in Clean : After(k, x, Ops(objs, refs)) = After(k, x, c)
  BY DEF Grouping, D, l, c
<1>u. \A i, m \in 1..l :
         i < m /\ objs[kept[i]].eq /\ objs[kept[m]].eq => objs[kept[i]].ids # objs[kept[m]].ids
  BY <1>7
<1>8. ToSet(kept) = {kept[i] : i \in 1..l}
  BY DEF ToSet, l
<1>9. r \notin ToSet(kept)
  <2> SUFFICES ASSUME NEW i \in 1..l, kept[i] = r PROVE FALSE
    BY <1>8
  <2>1. h[i] \in 1..n /\ h[i] # j + 1 /\ refs[h[i]] = refs[j + 1]
    BY <1>1, <1>6 DEF r
  <2> QED BY <1>1, <1>3, <2>1
<1>10. objs[r] = objects[r] /\ c[j + 1] = objects[r] /\ objs[r] \in Op
  BY <1>1, <1>2, <1>7, <1>9 DEF r
<1>11. \A k \in Keys : \A x \in Clean : Trail(k, x, c)[j + 1] = Effect(k, Trail(k, x, c)[j], objs[r])
  <2>1. \A k \in Keys : \A x \in Clean : \A i \in 1..Len(c) :
           Trail(k, x, c)[i] = Effect(k, Trail(k, x, c)[i - 1], c[i])
    BY ONLY <1>2, TrailIs, ZenonT(60)
  <2> QED BY <1>1, <1>2, <1>10, <2>1, SMTT(60)
<1>12. Ops(objs, kept) \in Seq(Op) /\ Len(Ops(objs, kept)) = l
       /\ \A i \in 1..l : Ops(objs, kept)[i] = objs[kept[i]]
  <2>1. objs \in [D -> Op] /\ kept \in Seq(D) /\ Len(kept) = l
    BY <1>1 DEF l
  <2> QED BY ONLY <2>1, OfIs
<1>13. \/ Keeps(kept, objs, r, <<kept2, objs2>>)
       \/ \E t \in 1..l : Merges(kept, objs, r, <<kept2, objs2>>, t)
  <2>1. <<kept2, objs2>> = Group(<<kept, objs>>, r)
    BY DEF r
  <2>2. kept \in Seq(D) /\ objs \in [D -> Op] /\ r \in D
    BY <1>1
  <2>3. \/ Keeps(kept, objs, r, Group(<<kept, objs>>, r))
        \/ \E t \in 1..Len(kept) : Merges(kept, objs, r, Group(<<kept, objs>>, r), t)
    BY ONLY <2>2, GroupIs
  <2> QED BY <2>1, <2>3 DEF l
\* It is kept.
<1>14. ASSUME kept2 = Append(kept, r), objs2 = objs,
              objs[r].eq => \A q \in ToSet(kept) : ~(objs[q].eq /\ objs[q].ids = objs[r].ids)
       PROVE  Grouping(refs, kept2, objs2, j + 1)
  <2>1. /\ kept2 \in Seq(D) /\ Len(kept2) = l + 1 /\ kept2[l + 1] = r /\ \A i \in 1..l : kept2[i] = kept[i]
        /\ \A i \in 1..(l + 1) : i \in 1..l \/ i = l + 1
    <3>1. kept \in Seq(D) /\ r \in D /\ Len(kept) = l /\ l \in Nat
      BY <1>1 DEF l
    <3>2. /\ Append(kept, r) \in Seq(D) /\ Len(Append(kept, r)) = l + 1 /\ Append(kept, r)[l + 1] = r
          /\ \A i \in 1..l : Append(kept, r)[i] = kept[i]
      BY <3>1
    <3>3. \A i \in 1..(l + 1) : i \in 1..l \/ i = l + 1
      BY <3>1
    <3> QED BY <1>14, <3>2, <3>3
  <2>a. DOMAIN kept2 = 1..(l + 1)
    BY <2>1
  <2>b. ToSet(kept2) = {kept2[i] : i \in 1..(l + 1)}
    BY <2>a DEF ToSet
  <2>2. ToSet(kept) \subseteq ToSet(kept2) /\ r \in ToSet(kept2)
    <3>1. ToSet(kept2) = {kept2[i] : i \in 1..(l + 1)}
      BY <2>b
    <3>2. \A i \in 1..l : i \in 1..(l + 1)
      BY <1>1
    <3>3. l + 1 \in 1..(l + 1)
      BY <1>1
    <3> QED BY <1>8, <2>1, <3>1, <3>2, <3>3
  <2>3. \E g : KeptAt(refs, kept2, j + 1, g)
    <3> DEFINE g == [i \in 1..(l + 1) |-> IF i = l + 1 THEN j + 1 ELSE h[i]]
    <3>1. \A i \in 1..l : i \in 1..(l + 1) /\ i # l + 1
      BY <1>1
    <3>2. g[l + 1] = j + 1 /\ \A i \in 1..l : g[i] = h[i]
      BY <1>1, <3>1
    <3>3. g \in [1..(l + 1) -> 1..(j + 1)]
      <4>1. \A i \in 1..l : h[i] \in 1..(j + 1)
        BY <1>6
      <4>2. j + 1 \in 1..(j + 1)
        OBVIOUS
      <4> QED BY <2>1, <4>1, <4>2
    <3> HIDE DEF g
    <3>4. \A i \in 1..(l + 1) : kept2[i] = refs[g[i]]
      BY <1>6, <2>1, <3>2 DEF r
    <3>5. ASSUME NEW i \in 1..(l + 1), NEW m \in 1..(l + 1), i < m
          PROVE  g[i] < g[m]
      <4>1. i \in 1..l
        BY <1>1, <3>5
      <4>2. CASE m \in 1..l
        BY <1>6, <3>2, <3>5, <4>1, <4>2
      <4>3. CASE m = l + 1
        <5>1. h[i] \in 1..j
          BY <1>6, <4>1
        <5>2. h[i] < j + 1
          BY <5>1
        <5> QED BY <3>2, <4>1, <4>3, <5>2
      <4> QED BY <2>1, <4>2, <4>3
    <3> QED BY <2>1, <3>3, <3>4, <3>5 DEF KeptAt
  <2>4. \A q \in D : q \notin ToSet(kept2) \/ ~objects[q].eq => objs2[q] = objects[q]
    BY <1>7, <1>14, <2>2
  <2>5. ASSUME NEW i \in 1..(l + 1), NEW m \in 1..(l + 1), i < m, objs[kept2[i]].eq, objs[kept2[m]].eq
        PROVE  objs[kept2[i]].ids # objs[kept2[m]].ids
    <3>1. i \in 1..l
      BY <1>1, <2>5
    <3>2. CASE m \in 1..l
      <4>1. kept2[i] = kept[i] /\ kept2[m] = kept[m]
        BY <2>1, <3>1, <3>2
      <4> QED BY <1>u, <2>5, <3>1, <3>2, <4>1
    <3>3. CASE m = l + 1
      <4>1. kept[i] \in ToSet(kept) /\ kept2[i] = kept[i] /\ kept2[m] = r
        BY <1>8, <2>1, <3>1, <3>3
      <4> QED BY <1>14, <2>5, <4>1
    <3> QED BY <2>1, <3>2, <3>3
  <2>6. ASSUME NEW k \in Keys, NEW x \in Clean
        PROVE  After(k, x, Ops(objs, kept2)) = Trail(k, x, c)[j + 1]
    <3> DEFINE s == Ops(objs, kept)
    <3>1. Ops(objs, kept2) = Append(s, objs[r])
      <4>1. /\ Ops(objs, kept2) \in Seq(Op) /\ Len(Ops(objs, kept2)) = l + 1
            /\ \A i \in 1..(l + 1) : Ops(objs, kept2)[i] = objs[kept2[i]]
        <5>1. Len(kept2) = l + 1 /\ kept2 \in Seq(D) /\ objs \in [D -> Op]
          BY <1>1, <2>1
        <5>2. /\ Ops(objs, kept2) \in Seq(Op) /\ Len(Ops(objs, kept2)) = Len(kept2)
              /\ \A i \in 1..Len(kept2) : Ops(objs, kept2)[i] = objs[kept2[i]]
          <6>1. objs \in [D -> Op] /\ kept2 \in Seq(D)
            BY <5>1
          <6>2. Ops(objs, kept2) \in Seq(Op) /\ Len(Ops(objs, kept2)) = Len(kept2)
            BY ONLY <6>1, OfIs, ZenonT(60)
          <6>3. \A i \in 1..Len(kept2) : Ops(objs, kept2)[i] = objs[kept2[i]]
            BY ONLY <6>1 DEF Ops
          <6> QED BY ONLY <6>2, <6>3
        <5> QED BY ONLY <5>1, <5>2
      <4>2. s \in Seq(Op) /\ Len(s) = l /\ \A i \in 1..l : s[i] = objs[kept[i]]
        BY <1>12
      <4> DEFINE a == Ops(objs, kept2)
      <4> DEFINE b == Append(s, objs[r])
      <4> HIDE DEF s, a
      <4>3. b \in Seq(Op) /\ Len(b) = l + 1 /\ b[l + 1] = objs[r] /\ \A i \in 1..l : b[i] = s[i]
        BY <1>10, <4>2, SMTT(60)
      <4> HIDE DEF b
      <4>4. \A i \in 1..(l + 1) : a[i] = b[i]
        <5> SUFFICES ASSUME NEW i \in 1..(l + 1)
                     PROVE  a[i] = b[i]
          OBVIOUS
        <5>0. a[i] = objs[kept2[i]]
          BY <4>1 DEF a
        <5>1. CASE i \in 1..l
          BY <2>1, <4>2, <4>3, <5>0, <5>1
        <5>2. CASE i = l + 1
          BY <2>1, <4>3, <5>0, <5>2
        <5> QED BY <2>1, <5>1, <5>2
      <4>5. a \in Seq(Op) /\ Len(a) = l + 1
        BY <4>1 DEF a
      <4>6. a = b
        BY <4>3, <4>4, <4>5
      <4> QED BY <4>6 DEF a, b
    <3>2. s \in Seq(Op)
      BY <1>12
    <3> HIDE DEF s
    <3>3. After(k, x, Append(s, objs[r])) = Effect(k, After(k, x, s), objs[r])
      BY <1>10, <3>2, AfterAppend
    <3>4. After(k, x, s) = Trail(k, x, c)[j]
      BY <1>7 DEF s
    <3> QED BY <1>11, <3>1, <3>3, <3>4
  <2>7. ASSUME \A i \in 1..(j + 1) : refs[i] \notin ToSet(kept2) => objects[refs[i]].num.kind # "inc"
        PROVE  \A k \in Keys : \A x \in Clean : After(k, x, Ops(objs, refs)) = After(k, x, c)
    <3>1. \A i \in 1..j : i \in 1..(j + 1) /\ refs[i] \in D
      BY <1>1
    <3>2. \A i \in 1..j : refs[i] \notin ToSet(kept) => refs[i] \notin ToSet(kept2) \/ refs[i] = r
      <4> SUFFICES ASSUME NEW i \in 1..j, refs[i] \in ToSet(kept2)
                   PROVE  refs[i] \in ToSet(kept) \/ refs[i] = r
        OBVIOUS
      <4>1. ToSet(kept2) = {kept2[m] : m \in 1..(l + 1)}
        BY <2>b
      <4> QED BY <1>8, <2>1, <4>1
    <3>3. \A i \in 1..j : refs[i] # r
      BY <1>1, <1>3 DEF r
    <3>4. \A i \in 1..j : refs[i] \notin ToSet(kept) => objects[refs[i]].num.kind # "inc"
      BY <2>7, <3>1, <3>2, <3>3
    <3> QED BY <1>7, <3>4
  <2>8. Len(kept2) = l + 1
    BY <2>1
  <2>9. \A q \in D : SameShape(objs2[q], objects[q])
    BY <1>7, <1>14
  <2>10. (\E q \in D : objs2[q].num.kind = "inc") => \E q \in D : objects[q].num.kind = "inc"
    BY <1>7, <1>14
  <2>11. \A i, m \in 1..Len(kept2) :
            i < m /\ objs2[kept2[i]].eq /\ objs2[kept2[m]].eq => objs2[kept2[i]].ids # objs2[kept2[m]].ids
    <3>1. objs2 = objs
      BY <1>14
    <3> QED BY <2>5, <2>8, <3>1
  <2>12. /\ \A k \in Keys : \A x \in Clean : After(k, x, Ops(objs2, kept2)) = Trail(k, x, c)[j + 1]
         /\ (\A i \in 1..(j + 1) : refs[i] \notin ToSet(kept2) => objects[refs[i]].num.kind # "inc")
              => \A k \in Keys : \A x \in Clean : After(k, x, Ops(objs2, refs)) = After(k, x, c)
    BY <1>14, <2>6, <2>7
  <2> HIDE DEF KeptAt
  <2> QED BY <2>3, <2>4, <2>9, <2>10, <2>11, <2>12, Zenon DEF Grouping, D, c
\* It is merged into what stands at place t of those kept.
<1>15. ASSUME NEW t \in 1..l, objs[r].eq, objs[kept[t]].eq, objs[kept[t]].ids = objs[r].ids, kept2 = kept,
              objs2 = [objs EXCEPT ![kept[t]] = Merge(objs[kept[t]], objs[r])]
       PROVE  Grouping(refs, kept2, objs2, j + 1)
  <2> DEFINE q == kept[t]
  <2> DEFINE p == h[t]
  <2> DEFINE m == Merge(objs[q], objs[r])
  <2>1. /\ q \in D /\ q = refs[p] /\ p \in 1..j /\ p \in 1..n /\ q \in ToSet(kept) /\ q # r
        /\ objs[q] \in Op
    BY <1>1, <1>6, <1>8, <1>9
  <2>2. /\ m \in Op /\ SameShape(m, objs[q])
        /\ m.num.kind = "inc" => objs[q].num.kind = "inc" \/ objs[r].num.kind = "inc"
    <3> DEFINE a == objs[q]
    <3> DEFINE b == objs[r]
    <3>1. a \in Op /\ b \in Op /\ m = Merge(a, b)
      BY <1>10, <2>1
    <3> HIDE DEF a, b, m
    <3>2. b.num.kind \in {"keep", "set", "inc"}
      BY <3>1, OpIs
    <3>3. m \in Op /\ SameShape(m, a) /\ (m.num.kind = "inc" => a.num.kind = "inc" \/ b.num.kind = "inc")
      BY <3>1, <3>2, MergeIs DEF SameShape
    <3> QED BY <3>3 DEF a, b
  <2> HIDE DEF m
  <2>3. objs2 = [objs EXCEPT ![q] = m]
    BY <1>15 DEF m
  <2> HIDE DEF q, p
  <2>4. /\ objs2 \in [D -> Op] /\ objs2[q] = m /\ \A o \in D : o # q => objs2[o] = objs[o]
    BY <1>1, <2>1, <2>2, <2>3
  <2>5. \A o \in D : SameShape(objs2[o], objs[o]) /\ SameShape(objs2[o], objects[o])
    <3> SUFFICES ASSUME NEW o \in D
                 PROVE  SameShape(objs2[o], objs[o]) /\ SameShape(objs2[o], objects[o])
      OBVIOUS
    <3>1. SameShape(objs[o], objects[o])
      BY <1>7
    <3>2. SameShape(objs2[o], objs[o])
      <4>1. CASE o = q
        BY <2>2, <2>4, <4>1
      <4>2. CASE o # q
        BY <2>4, <4>2 DEF SameShape
      <4> QED BY <4>1, <4>2
    <3> QED BY <3>1, <3>2 DEF SameShape
  <2>6. \E g : KeptAt(refs, kept2, j + 1, g)
    <3>1. /\ h \in [1..Len(kept) -> 1..j]
          /\ \A i \in 1..Len(kept) : kept[i] = refs[h[i]]
          /\ \A i, o \in 1..Len(kept) : i < o => h[i] < h[o]
      BY <1>5 DEF KeptAt
    <3>2. \A i \in 1..j : i \in 1..(j + 1)
      OBVIOUS
    <3>3. h \in [1..Len(kept) -> 1..(j + 1)]
      BY <3>1, <3>2
    <3>4. KeptAt(refs, kept, j + 1, h)
      BY <3>1, <3>3 DEF KeptAt
    <3> QED BY <1>15, <3>4
  <2>7. \A o \in D : o \notin ToSet(kept2) \/ ~objects[o].eq => objs2[o] = objects[o]
    <3>1. q \in ToSet(kept2) /\ objects[q].eq
      <4>1. objs[q].eq /\ SameShape(objs[q], objects[q])
        BY <1>7, <1>15, <2>1 DEF q
      <4> QED BY <1>15, <2>1, <4>1 DEF SameShape
    <3> QED BY <1>7, <1>15, <2>4, <3>1
  <2>8. (\E o \in D : objs2[o].num.kind = "inc") => \E o \in D : objects[o].num.kind = "inc"
    <3> SUFFICES ASSUME NEW o \in D, objs2[o].num.kind = "inc"
                 PROVE  \E e \in D : objs[e].num.kind = "inc"
      BY <1>7
    <3>1. CASE o = q
      BY <1>1, <2>1, <2>2, <2>4, <3>1
    <3>2. CASE o # q
      BY <2>4, <3>2
    <3> QED BY <3>1, <3>2
  <2>9. \A i, o \in 1..l :
           i < o /\ objs2[kept2[i]].eq /\ objs2[kept2[o]].eq => objs2[kept2[i]].ids # objs2[kept2[o]].ids
    <3>1. \A i \in 1..l : kept2[i] = kept[i] /\ kept[i] \in D /\ SameShape(objs2[kept[i]], objs[kept[i]])
      BY <1>1, <1>15, <2>5
    <3>2. \A i \in 1..l : /\ objs2[kept2[i]].eq = objs[kept[i]].eq
                          /\ objs2[kept2[i]].ids = objs[kept[i]].ids
      BY <3>1 DEF SameShape
    <3> SUFFICES ASSUME NEW i \in 1..l, NEW o \in 1..l,
                        i < o, objs2[kept2[i]].eq, objs2[kept2[o]].eq
                 PROVE  objs2[kept2[i]].ids # objs2[kept2[o]].ids
      OBVIOUS
    <3>3. objs[kept[i]].eq /\ objs[kept[o]].eq
      BY <3>2
    <3>4. objs[kept[i]].ids # objs[kept[o]].ids
      BY <1>u, <3>3
    <3> QED BY <3>2, <3>4
  <2>10. /\ objs[q].eq /\ objs[q].ids = objs[r].ids /\ objs[q].type = "update" /\ objs[r].type = "update"
         /\ objects[q].eq /\ objects[q].ids = objs[r].ids /\ c[p] = objects[q] /\ c[j + 1].eq
    <3>1. objs[q].eq /\ objs[q].ids = objs[r].ids /\ objs[r].eq
      BY <1>15 DEF q
    <3>2. q \in D /\ r \in D /\ c[p] = objects[q] /\ c[j + 1] = objects[r]
      BY <1>1, <1>2, <1>10, <2>1
    <3>3. SameShape(objs[q], objects[q]) /\ objs[r] = objects[r]
      BY <1>7, <1>10, <3>2
    <3>4. objects[q].eq /\ objects[q].ids = objs[r].ids /\ objects[r].eq
      BY <3>1, <3>3 DEF SameShape
    <3>5. objects[q].type = "update" /\ objects[r].type = "update"
      BY <1>4, <3>2, <3>4
    <3> QED BY <3>1, <3>2, <3>3, <3>4, <3>5 DEF SameShape
  \* Between the two only updates by id touch the key.
  <2>11. ASSUME NEW i \in 1..n, p < i, i < j + 1, NEW k \in Keys, k \in objs[r].ids, k \in c[i].ids
         PROVE  c[i].eq
    <3>1. k \in c[p].ids /\ k \in c[j + 1].ids /\ c[p].eq /\ c[j + 1].eq
      BY <1>10, <2>10, <2>11
    <3>2. p < j + 1 /\ i \in (p + 1)..((j + 1) - 1) /\ p \in 1..n /\ j + 1 \in 1..n
      <4>1. p \in Nat /\ i \in Nat
        BY <1>1, <2>1
      <4> QED BY <1>1, <2>1, <2>11, <4>1
    <3>3. c[p].ids \cap c[j + 1].ids # {} /\ c[i].ids \cap c[p].ids # {}
      BY <2>11, <3>1
    <3> QED BY <1>3, <3>1, <3>2, <3>3
  <2>12. ASSUME NEW k \in Keys, NEW x \in Clean
         PROVE  After(k, x, Ops(objs2, kept)) = Trail(k, x, c)[j + 1]
    <3> DEFINE s == Ops(objs, kept)
    <3> DEFINE w == Ops(objs2, kept)
    <3>1. w \in Seq(Op) /\ Len(w) = l /\ \A i \in 1..l : w[i] = objs2[kept[i]]
      <4>1. objs2 \in [D -> Op] /\ kept \in Seq(D) /\ Len(kept) = l
        BY <1>1, <2>4 DEF l
      <4> QED BY ONLY <4>1, OfIs, SMTT(60)
    <3>2. s \in Seq(Op) /\ Len(s) = l /\ \A i \in 1..l : s[i] = objs[kept[i]]
      BY <1>12
    <3> HIDE DEF s, w
    <3>3. \A i \in 1..l : i # t => kept[i] # q
      <4> SUFFICES ASSUME NEW i \in 1..l, i # t, kept[i] = q PROVE FALSE
        OBVIOUS
      <4>1. h[i] \in 1..n /\ refs[h[i]] = refs[p] /\ (i < t \/ t < i)
        BY <1>1, <1>6, <2>1, SMTT(60)
      <4>2. h[i] = p
        BY <1>3, <2>1, <4>1
      <4>3. h[i] < p \/ p < h[i]
        BY <1>6, <4>1 DEF p
      <4>4. p \in Nat
        BY <2>1
      <4> QED BY <4>2, <4>3, <4>4
    <3>4. /\ t \in 1..Len(s) /\ Len(w) = Len(s) /\ s[t] = objs[q] /\ w[t] = Merge(s[t], objs[r])
          /\ \A i \in 1..Len(s) : i # t => w[i] = s[i]
      <4>1. kept[t] = q
        BY DEF q
      <4>2. s[t] = objs[q] /\ w[t] = m
        BY <2>4, <3>1, <3>2, <4>1
      <4>3. \A i \in 1..l : i # t => w[i] = s[i]
        BY <1>1, <2>4, <3>1, <3>2, <3>3, ZenonT(60)
      <4> QED BY <3>1, <3>2, <4>2, <4>3 DEF m
    <3>5. \A i \in (t + 1)..Len(s) : k \in objs[r].ids => k \notin s[i].ids
      <4> SUFFICES ASSUME NEW i \in (t + 1)..Len(s), k \in objs[r].ids, k \in s[i].ids PROVE FALSE
        OBVIOUS
      <4>1. i \in 1..l /\ t < i
        BY <1>1, <3>2
      <4>2. h[i] \in 1..j /\ h[i] \in 1..n /\ p < h[i] /\ kept[i] = refs[h[i]] /\ s[i] = objs[kept[i]]
            /\ kept[i] \in D
        BY <1>1, <1>6, <3>2, <4>1 DEF p
      <4>3. c[h[i]] = objects[kept[i]] /\ SameShape(objs[kept[i]], objects[kept[i]])
        <5>1. kept[i] \in D /\ h[i] \in 1..n /\ kept[i] = refs[h[i]]
          BY <4>2
        <5>2. c[h[i]] = objects[refs[h[i]]]
          BY <1>2, <5>1
        <5>3. SameShape(objs[kept[i]], objects[kept[i]])
          BY <1>7, <5>1
        <5> QED BY <5>1, <5>2, <5>3
      <4>4. h[i] < j + 1
        BY <1>1, <4>2
      <4>5. k \in c[h[i]].ids
        BY <4>2, <4>3 DEF SameShape
      <4>6. c[h[i]].eq
        BY <2>11, <4>2, <4>4, <4>5
      <4>7. objs[kept[i]].eq /\ objs[kept[i]].ids = objs[q].ids
        <5>1. PICK k1 \in Keys : objects[kept[i]].ids = {k1}
          BY <1>4, <4>2, <4>3, <4>6
        <5>2. PICK k2 \in Keys : objects[q].ids = {k2}
          BY <1>4, <2>1, <2>10
        <5> QED BY <2>10, <4>3, <4>5, <4>6, <5>1, <5>2 DEF SameShape
      <4>8. kept[t] = q /\ objs[kept[t]].eq
        BY <2>10 DEF q
      <4> QED BY <1>7, <4>1, <4>7, <4>8
    <3>6. s[t].type = "update" /\ objs[r].type = "update" /\ s[t].ids = objs[r].ids
      BY <2>10, <3>4
    <3>7. After(k, x, w) = Effect(k, After(k, x, s), objs[r])
      BY <1>10, <3>1, <3>2, <3>4, <3>5, <3>6, MergeLast, ZenonT(60)
    <3>8. After(k, x, s) = Trail(k, x, c)[j]
      BY <1>7 DEF s
    <3> QED BY <1>11, <3>7, <3>8 DEF w
  <2>13. ASSUME \A i \in 1..(j + 1) : refs[i] \notin ToSet(kept2) => objects[refs[i]].num.kind # "inc",
                NEW k \in Keys, NEW x \in Clean
         PROVE  After(k, x, Ops(objs2, refs)) = After(k, x, c)
    <3> DEFINE s == Ops(objs, refs)
    <3> DEFINE w == Ops(objs2, refs)
    <3>1. w \in Seq(Op) /\ Len(w) = n /\ \A i \in 1..n : w[i] = objs2[refs[i]]
      <4>1. objs2 \in [D -> Op] /\ refs \in Seq(D) /\ Len(refs) = n
        BY <1>1, <2>4 DEF n
      <4> QED BY ONLY <4>1, OfIs
    <3>2. s \in Seq(Op) /\ Len(s) = n /\ \A i \in 1..n : s[i] = objs[refs[i]]
      <4>1. objs \in [D -> Op] /\ refs \in Seq(D) /\ Len(refs) = n
        BY <1>1 DEF n
      <4> QED BY ONLY <4>1, OfIs, SMTT(60)
    <3> HIDE DEF s, w
    <3>3. \A i \in 1..j : i \in 1..(j + 1)
      OBVIOUS
    <3>4. After(k, x, s) = After(k, x, c)
      BY <1>7, <1>15, <2>13, <3>3 DEF s
    <3>5. objs[r].num.kind # "inc"
      <4>1. j + 1 \in 1..(j + 1)
        OBVIOUS
      <4> QED BY <1>9, <1>10, <1>15, <2>13, <4>1 DEF r
    <3>6. /\ p \in 1..Len(s) /\ j + 1 \in 1..Len(s) /\ p < j + 1
          /\ s[p] = objs[q] /\ s[j + 1] = objs[r] /\ w[p] = m
      <4>1. p < j + 1
        BY <2>1
      <4> QED BY <1>1, <2>1, <2>4, <3>1, <3>2, <4>1 DEF r
    <3>7. \A i \in 1..Len(s) : i # p => w[i] = s[i]
      <4>1. \A i \in 1..n : i # p => refs[i] # q /\ refs[i] \in D
        BY <1>1, <1>3, <2>1
      <4> QED BY <2>4, <3>1, <3>2, <4>1, ZenonT(60)
    <3>8. ASSUME NEW i \in p..(j + 1), k \in s[p].ids, k \in s[i].ids
          PROVE  s[i].type = "update"
      <4>1. p \in Nat /\ i \in 1..n /\ (i = p \/ i = j + 1 \/ (p < i /\ i < j + 1))
        BY <1>1, <2>1
      <4>2. CASE p < i /\ i < j + 1
        <5>1. SameShape(s[i], c[i]) /\ c[i] = objects[refs[i]] /\ refs[i] \in D
          BY <1>1, <1>2, <1>7, <3>2, <4>1
        <5>2. c[i].eq
          BY <2>10, <2>11, <3>6, <3>8, <4>1, <4>2, <5>1 DEF SameShape
        <5> QED BY <1>4, <5>1, <5>2 DEF SameShape
      <4> QED BY <2>10, <3>6, <4>1, <4>2
    <3>9. w[p] = Merge(s[p], s[j + 1])
      BY <3>6 DEF m
    <3>10. s[p].type = "update" /\ s[j + 1].type = "update" /\ s[p].ids = s[j + 1].ids /\ s[j + 1].num.kind # "inc"
      BY <2>10, <3>5, <3>6
    <3>11. After(k, x, w) = After(k, x, s)
      <4> DEFINE e == j + 1
      <4>1. /\ e \in 1..Len(s) /\ p < e /\ s[e].type = "update" /\ s[p].ids = s[e].ids /\ s[e].num.kind # "inc"
            /\ \A i \in p..e : k \in s[p].ids /\ k \in s[i].ids => s[i].type = "update"
            /\ w[p] = Merge(s[p], s[e])
        BY <3>6, <3>8, <3>9, <3>10
      <4>2. Len(w) = Len(s) /\ s[p].type = "update" /\ p \in 1..Len(s)
        BY <3>1, <3>2, <3>6, <3>10
      <4> HIDE DEF e
      <4>3. k \in Keys /\ x \in Clean
        OBVIOUS
      <4>4. Absorbs(k, s, w, p, e)
        BY ONLY <3>7, <4>1, <4>2 DEF Absorbs
      <4> QED BY ONLY <3>1, <3>2, <4>1, <4>2, <4>3, <4>4, Absorbed
    <3> QED BY <3>4, <3>11 DEF w
  <2>14. Len(kept2) = l
    BY <1>15 DEF l
  <2>15. \A o \in D : SameShape(objs2[o], objects[o])
    BY <2>5
  <2>16. \A i, o \in 1..Len(kept2) :
            i < o /\ objs2[kept2[i]].eq /\ objs2[kept2[o]].eq => objs2[kept2[i]].ids # objs2[kept2[o]].ids
    BY <2>9, <2>14
  <2>17. \A k \in Keys : \A x \in Clean : After(k, x, Ops(objs2, kept2)) = Trail(k, x, c)[j + 1]
    BY <1>15, <2>12
  <2>18. (\A i \in 1..(j + 1) : refs[i] \notin ToSet(kept2) => objects[refs[i]].num.kind # "inc")
            => \A k \in Keys : \A x \in Clean : After(k, x, Ops(objs2, refs)) = After(k, x, c)
    BY <2>13
  <2> QED BY ONLY <2>6, <2>7, <2>8, <2>15, <2>16, <2>17, <2>18 DEF Grouping, D, c
<1> QED
  <2>1. CASE Keeps(kept, objs, r, <<kept2, objs2>>)
    BY <1>14, <2>1 DEF Keeps
  <2>2. ASSUME NEW t \in 1..l, Merges(kept, objs, r, <<kept2, objs2>>, t)
        PROVE  Grouping(refs, kept2, objs2, j + 1)
    BY <1>15, <2>2 DEF Merges
  <2> QED BY <1>13, <2>1, <2>2

(* groupOps answers with references and objects.                            *)
LEMMA CoalescedTyped ==
  ASSUME objects \in Seq(Op), NEW refs \in Seq(DOMAIN objects)
  PROVE  Coalesced(refs)[1] \in Seq(DOMAIN objects) /\ Coalesced(refs)[2] \in [DOMAIN objects -> Op]
<1>1. PICK g \in [0..Len(refs) -> Seq(DOMAIN objects) \X [DOMAIN objects -> Op]] :
         Coalesced(refs) = g[Len(refs)]
  BY CoalescedSteps
<1>2. Len(refs) \in 0..Len(refs)
  OBVIOUS
<1>3. g[Len(refs)] \in Seq(DOMAIN objects) \X [DOMAIN objects -> Op]
  BY <1>2
<1> QED BY <1>1, <1>3

(* At its end groupOps has kept a batch that does the same, merged as       *)
(* Grouping says.                                                           *)
LEMMA CoalescedIs ==
  ASSUME objects \in Seq(Op), Keyed(objects),
         NEW refs \in Seq(DOMAIN objects), Distinct(refs), Phased(Ops(objects, refs))
  PROVE  Grouping(refs, Coalesced(refs)[1], Coalesced(refs)[2], Len(refs))
<1> DEFINE D == DOMAIN objects
<1> DEFINE n == Len(refs)
<1>1. PICK g \in [0..n -> Seq(D) \X [D -> Op]] :
         /\ g[0] = <<<<>>, objects>> /\ Coalesced(refs) = g[n]
         /\ \A i \in 1..n : g[i] = Group(g[i - 1], refs[i])
  BY CoalescedSteps
<1>2. n \in Nat
  OBVIOUS
<1> HIDE DEF n
<1> DEFINE T == {j \in Nat : j <= n => Grouping(refs, g[j][1], g[j][2], j)}
<1>3. 0 \in T
  <2>1. g[0][1] = <<>> /\ g[0][2] = objects
    BY <1>1
  <2>2. Grouping(refs, <<>>, objects, 0)
    BY GroupingBegins
  <2> QED BY <2>1, <2>2
<1>4. ASSUME NEW j \in Nat, j \in T
      PROVE  j + 1 \in T
  <2> SUFFICES ASSUME j + 1 <= n
               PROVE  Grouping(refs, g[j + 1][1], g[j + 1][2], j + 1)
    OBVIOUS
  <2>1. j \in 0..n /\ j < n /\ j + 1 \in 1..n /\ j + 1 \in 0..n /\ (j + 1) - 1 = j
    BY <1>2
  <2>2. g[j] = <<g[j][1], g[j][2]>> /\ g[j][1] \in Seq(D) /\ g[j][2] \in [D -> Op]
    BY <1>1, <2>1, SMTT(60)
  <2>3. g[j + 1] = <<g[j + 1][1], g[j + 1][2]>>
    BY <1>1, <2>1, SMTT(60)
  <2>4. Grouping(refs, g[j][1], g[j][2], j)
    BY <1>4, <2>1
  <2>5. g[j + 1] = Group(g[j], refs[j + 1])
    BY <1>1, <2>1
  <2> DEFINE kept == g[j][1]
  <2> DEFINE objs == g[j][2]
  <2> DEFINE kept2 == g[j + 1][1]
  <2> DEFINE objs2 == g[j + 1][2]
  <2>6. /\ kept \in Seq(DOMAIN objects) /\ objs \in [DOMAIN objects -> Op]
        /\ <<kept2, objs2>> = Group(<<kept, objs>>, refs[j + 1])
        /\ Grouping(refs, kept, objs, j) /\ j < Len(refs)
    BY <2>1, <2>2, <2>3, <2>4, <2>5 DEF n
  <2> HIDE DEF kept, objs, kept2, objs2
  <2>7. Grouping(refs, kept2, objs2, j + 1)
    BY <2>6, GroupStep
  <2> QED BY <2>7 DEF kept2, objs2
<1>5. n \in T
  <2> HIDE DEF T
  <2> QED BY <1>2, <1>3, <1>4, Induction
<1> QED BY <1>1, <1>2, <1>5 DEF n

-----------------------------------------------------------------------------
(* applyOps                                                                 *)

(* Rows as reads see them, Increment objects included.                      *)
LEMMA RowIs ==
  ASSUME NEW row \in Row, NEW write \in Op
  PROVE  Assign(row, write) \in Row /\ NewRow(write) \in Row
<1> DEFINE N(old) == CASE write.num.kind = "keep" -> old.n
                       [] write.num.kind = "set" -> write.num.by
                       [] write.num.kind = "inc" -> (IF old.raw THEN 0 ELSE old.n) + write.num.by
<1> DEFINE X(old) == IF write.val = "keep" THEN old.val ELSE write.val
<1> DEFINE W(old) == old.raw /\ write.num.kind = "keep"
<1>1. ASSUME NEW old \in Row
      PROVE  Assign(old, write) \in Row
  <2>1. N(old) \in Nat
    <3>1. /\ write.num.kind \in {"keep", "set", "inc"} /\ write.num.by \in Nat /\ old.n \in Nat /\ old.raw \in BOOLEAN
      BY OpIs DEF Row
    <3>2. (IF old.raw THEN 0 ELSE old.n) + write.num.by \in Nat
      BY <3>1
    <3> QED BY <3>1, <3>2
  <2>2. X(old) \in Vals \cup {"none"}
    BY OpIs DEF Row
  <2>3. W(old) \in BOOLEAN
    BY Zenon
  <2>4. Assign(old, write) = [val |-> X(old), n |-> N(old), raw |-> W(old), exists |-> TRUE]
    BY Zenon DEF Assign
  <2> HIDE DEF X, N, W
  <2> QED BY <2>1, <2>2, <2>3, <2>4 DEF Row
<1>2. NoRow \in Row
  BY DEF NoRow, Row
<1> DEFINE a == Assign(NoRow, write)
<1> DEFINE b == write.num.kind = "inc"
<1>3. NewRow(write) = [a EXCEPT !.raw = b] /\ a \in Row /\ b \in BOOLEAN
  BY <1>1, <1>2 DEF NewRow
<1> HIDE DEF a, b
<1>4. [a EXCEPT !.raw = b] \in Row
  BY <1>3 DEF Row
<1> QED BY <1>1, <1>3, <1>4

(* applyOps answers with rows.                                              *)
LEMMA ApplyOpsTyped ==
  ASSUME NEW k \in Keys, NEW rows \in Seq(Row), NEW write \in Op
  PROVE  ApplyOps(k, rows, write) \in Seq(Row)
<1>1. /\ NewRow(write) \in Row
      /\ \A i \in 1..Len(rows) : rows[i] \in Row /\ Assign(rows[i], write) \in Row
  <2>1. NoRow \in Row
    BY DEF NoRow, Row
  <2> QED BY <2>1, RowIs
<1>2. Append(rows, NewRow(write)) \in Seq(Row) /\ <<NewRow(write)>> \in Seq(Row) /\ <<>> \in Seq(Row)
  <2> DEFINE new == NewRow(write)
  <2>1. new \in Row
    BY <1>1
  <2> HIDE DEF new
  <2>2. Append(rows, new) \in Seq(Row) /\ <<new>> \in Seq(Row) /\ <<>> \in Seq(Row)
    BY <2>1
  <2> QED BY <2>2 DEF new
<1>3. rows # <<>> => [rows EXCEPT ![1] = Assign(rows[1], write)] \in Seq(Row)
  <2> SUFFICES ASSUME rows # <<>>
               PROVE  [rows EXCEPT ![1] = Assign(rows[1], write)] \in Seq(Row)
    OBVIOUS
  <2> DEFINE new == Assign(rows[1], write)
  <2>1. 1 \in 1..Len(rows)
    OBVIOUS
  <2>2. new \in Row
    BY <1>1, <2>1
  <2> HIDE DEF new
  <2>3. [rows EXCEPT ![1] = new] \in Seq(Row)
    BY <2>1, <2>2
  <2> QED BY <2>3 DEF new
<1>4. [i \in DOMAIN rows |-> Assign(rows[i], write)] \in Seq(Row)
  <2>1. DOMAIN rows = 1..Len(rows) /\ Len(rows) \in Nat
    OBVIOUS
  <2>2. [i \in DOMAIN rows |-> Assign(rows[i], write)] \in [1..Len(rows) -> Row]
    BY <1>1, <2>1
  <2> QED BY <2>1, <2>2
<1>5. write.type \in {"insert", "upsert", "update", "delete"}
  BY OpIs
<1>6. CASE k \notin write.ids
  BY <1>6 DEF ApplyOps
<1>7. CASE k \in write.ids /\ write.type \in {"insert", "delete"}
  BY <1>2, <1>7 DEF ApplyOps
<1>8. CASE k \in write.ids /\ write.type = "upsert"
  BY <1>2, <1>3, <1>8 DEF ApplyOps
<1>9. CASE k \in write.ids /\ write.type = "update"
  BY <1>4, <1>9 DEF ApplyOps
<1> QED BY <1>5, <1>6, <1>7, <1>8, <1>9

(* On the row a client sees an operation does what it does on the disk,     *)
(* unless it inserts a row that is there, or counts up one that is not.     *)
LEMMA ApplyOpsIs ==
  ASSUME NEW k \in Keys, NEW row \in Clean, NEW write \in Op,
         k \in write.ids /\ write.type = "insert" => ~row.exists /\ write.num.kind # "inc",
         k \in write.ids /\ write.type = "upsert" /\ write.num.kind = "inc" => row.exists
  PROVE  ApplyOps(k, RowsOf(row), write) = RowsOf(Effect(k, row, write))
<1>1. write.type \in {"insert", "upsert", "update", "delete"}
  BY OpIs
<1>2. /\ row.exists => RowsOf(row) = <<row>>
      /\ ~row.exists => RowsOf(row) = <<>> /\ row = NoRow
  BY CleanIs DEF RowsOf
<1> DEFINE a == Assign(row, write)
<1>3. a \in Clean /\ a.exists /\ RowsOf(a) = <<a>>
  BY AssignIs DEF RowsOf
<1>4. ~row.exists /\ write.num.kind # "inc" => NewRow(write) = a
  <2> SUFFICES ASSUME ~row.exists, write.num.kind # "inc"
               PROVE  NewRow(write) = a
    OBVIOUS
  <2>1. row = NoRow
    BY <1>2
  <2> DEFINE b == write.num.kind = "inc"
  <2>2. NewRow(write) = [a EXCEPT !.raw = b] /\ b = FALSE
    BY <2>1 DEF NewRow
  <2> HIDE DEF a, b
  <2>3. a = [val |-> a.val, n |-> a.n, raw |-> a.raw, exists |-> a.exists] /\ a.raw = FALSE
    BY <1>3, CleanIs
  <2>4. [a EXCEPT !.raw = b] = a
    BY <2>2, <2>3
  <2> QED BY <2>2, <2>4
<1>5. CASE k \notin write.ids
  BY <1>5, EffectIs DEF ApplyOps
<1>6. CASE k \in write.ids /\ write.type = "insert"
  <2>1. RowsOf(row) = <<>> /\ NewRow(write) = a /\ Effect(k, row, write) = a
    BY <1>2, <1>4, <1>6, EffectIs
  <2>2. ApplyOps(k, RowsOf(row), write) = Append(RowsOf(row), NewRow(write))
    BY <1>6 DEF ApplyOps
  <2> HIDE DEF a
  <2>3. Append(<<>>, a) = <<a>>
    OBVIOUS
  <2> QED BY <1>3, <2>1, <2>2, <2>3
<1>7. CASE k \in write.ids /\ write.type = "upsert"
  <2>1. Effect(k, row, write) = a
    BY <1>7, EffectIs
  <2>2. CASE ~row.exists
    <3>1. RowsOf(row) = <<>> /\ NewRow(write) = a
      BY <1>2, <1>4, <1>7, <2>2
    <3>2. ApplyOps(k, <<>>, write) = <<NewRow(write)>>
      BY <1>7 DEF ApplyOps
    <3> QED BY <1>3, <2>1, <3>1, <3>2
  <2>3. CASE row.exists
    <3>1. RowsOf(row) = <<row>> /\ <<row>> # <<>>
      BY <1>2, <2>3
    <3> DEFINE rows == <<row>>
    <3>2. ApplyOps(k, rows, write) = [rows EXCEPT ![1] = Assign(rows[1], write)]
      BY <1>7, <3>1 DEF ApplyOps
    <3>3. rows[1] = row
      OBVIOUS
    <3> HIDE DEF a
    <3>4. [rows EXCEPT ![1] = a] = <<a>>
      OBVIOUS
    <3> QED BY <1>3, <2>1, <3>1, <3>2, <3>3, <3>4 DEF a
  <2> QED BY <2>2, <2>3
<1>8. CASE k \in write.ids /\ write.type = "update"
  <2>1. CASE ~row.exists
    <3>1. RowsOf(row) = <<>> /\ Effect(k, row, write) = row
      BY <1>2, <1>8, <2>1, EffectIs
    <3>2. ApplyOps(k, <<>>, write) = [i \in DOMAIN <<>> |-> Assign(<<>>[i], write)]
      BY <1>8 DEF ApplyOps
    <3> DEFINE none == [i \in DOMAIN <<>> |-> Assign(<<>>[i], write)]
    <3>3. none = <<>>
      OBVIOUS
    <3> QED BY <3>1, <3>2, <3>3
  <2>2. CASE row.exists
    <3>1. RowsOf(row) = <<row>> /\ Effect(k, row, write) = a
      BY <1>2, <1>8, <2>2, EffectIs
    <3> DEFINE rows == <<row>>
    <3>2. ApplyOps(k, rows, write) = [i \in DOMAIN rows |-> Assign(rows[i], write)]
      BY <1>8 DEF ApplyOps
    <3>3. DOMAIN rows = 1..1 /\ rows[1] = row /\ 1..1 = {1}
      OBVIOUS
    <3>4. \A i \in DOMAIN rows : Assign(rows[i], write) = a
      BY <3>3
    <3> HIDE DEF a
    <3>5. [i \in DOMAIN rows |-> Assign(rows[i], write)] = [i \in 1..1 |-> a]
      BY <3>3, <3>4
    <3>6. [i \in 1..1 |-> a] = <<a>>
      OBVIOUS
    <3> QED BY <1>3, <3>1, <3>2, <3>5, <3>6
  <2> QED BY <2>1, <2>2
<1>9. CASE k \in write.ids /\ write.type = "delete"
  <2>1. Effect(k, row, write) = NoRow /\ RowsOf(NoRow) = <<>>
    BY <1>9, EffectIs DEF RowsOf, NoRow
  <2>2. ApplyOps(k, RowsOf(row), write) = <<>>
    BY <1>9 DEF ApplyOps
  <2> QED BY <2>1, <2>2
<1> QED BY <1>1, <1>5, <1>6, <1>7, <1>8, <1>9

(* applyOps on what the disk has.                                           *)
Overlaid(k, rows, ops) == FoldLeft(LAMBDA old, write : ApplyOps(k, old, write), rows, ops)

(* A read applies the buffered operations one after the other.              *)
LEMMA OverlaidSteps ==
  ASSUME NEW k \in Keys, NEW rows \in Seq(Row), NEW ops \in Seq(Op)
  PROVE  \E g \in [0..Len(ops) -> Seq(Row)] :
            /\ g[0] = rows /\ Overlaid(k, rows, ops) = g[Len(ops)]
            /\ \A i \in 1..Len(ops) : g[i] = ApplyOps(k, g[i - 1], ops[i])
<1> DEFINE n == Len(ops)
<1> DEFINE V == Seq(Row)
<1> DEFINE F == [x \in V \X (1..n) |-> ApplyOps(k, x[1], ops[x[2]])]
<1> DEFINE iter == CHOOSE f : f = [s \in SUBSET DOMAIN ops |->
                                     IF s = {} THEN rows ELSE ApplyOps(k, f[s \ {Max(s)}], ops[Max(s)])]
<1>1. Overlaid(k, rows, ops) = iter[DOMAIN ops]
  BY DEF Overlaid, FoldLeft, MapThenFoldSet
<1>2. n \in Nat /\ DOMAIN ops = 1..n /\ rows \in V /\ \A i \in 1..n : ops[i] \in Op
  OBVIOUS
<1>3. \A v \in V : \A i \in 1..n : ApplyOps(k, v, ops[i]) \in V /\ F[<<v, i>>] = ApplyOps(k, v, ops[i])
  BY <1>2, ApplyOpsTyped
<1>4. F \in [V \X (1..n) -> V]
  BY <1>3
<1> HIDE DEF n, V, F
<1>b. PICK g : IsFold(V, n, F, rows, g)
  BY <1>2, <1>4, FoldExists
<1>5. /\ g \in [SUBSET (1..n) -> V]
      /\ \A s \in SUBSET (1..n) : g[s] = IF s = {} THEN rows ELSE F[<<g[s \ {Max(s)}], Max(s)>>]
  BY <1>b DEF IsFold
<1>6. \A s \in SUBSET (1..n) : s # {} => Max(s) \in 1..n /\ g[s \ {Max(s)}] \in V
  BY <1>2, <1>5, MaxIs
<1>7. g = [s \in SUBSET (1..n) |-> IF s = {} THEN rows ELSE ApplyOps(k, g[s \ {Max(s)}], ops[Max(s)])]
  <2>1. \A s \in SUBSET (1..n) :
            g[s] = IF s = {} THEN rows ELSE ApplyOps(k, g[s \ {Max(s)}], ops[Max(s)])
    BY <1>3, <1>5, <1>6
  <2> QED BY <1>5, <2>1
<1>8. iter = [s \in SUBSET (1..n) |-> IF s = {} THEN rows ELSE ApplyOps(k, iter[s \ {Max(s)}], ops[Max(s)])]
  BY <1>2, <1>7
<1> HIDE DEF iter
<1>9. iter[{}] = rows
  BY <1>8
<1>10. \A s \in SUBSET (1..n) : s # {} /\ iter[s \ {Max(s)}] \in V =>
            iter[s] = F[<<iter[s \ {Max(s)}], Max(s)>>]
  BY <1>3, <1>6, <1>8
<1>c. Iterates(V, n, F, rows, iter)
  BY <1>9, <1>10 DEF Iterates
<1>d. PICK r : Passes(V, n, F, rows, iter[1..n], r)
  BY <1>2, <1>4, <1>c, FoldSteps
<1>11. /\ r \in [0..n -> V] /\ r[0] = rows /\ iter[1..n] = r[n]
       /\ \A i \in 1..n : r[i] = F[<<r[i - 1], i>>]
  BY <1>d DEF Passes
<1>12. \A i \in 1..n : r[i] = ApplyOps(k, r[i - 1], ops[i])
  <2>1. \A i \in 1..n : i - 1 \in 0..n
    BY <1>2
  <2> QED BY <1>3, <1>11, <2>1
<1> QED BY <1>1, <1>2, <1>11, <1>12 DEF n, V

(* What a read overlays on the row is the row after the operations, where   *)
(* no insert meets a row and no upsert increments a missing one.            *)
LEMMA OverlaidIs ==
  ASSUME NEW k \in Keys, NEW x \in Clean, NEW ops \in Seq(Op),
         \A i \in 1..Len(ops) : k \in ops[i].ids =>
            /\ ops[i].type = "insert" => ~Trail(k, x, ops)[i - 1].exists /\ ops[i].num.kind # "inc"
            /\ ops[i].type = "upsert" /\ ops[i].num.kind = "inc" => Trail(k, x, ops)[i - 1].exists
  PROVE  Overlaid(k, RowsOf(x), ops) = RowsOf(After(k, x, ops))
<1> DEFINE f == Trail(k, x, ops)
<1> DEFINE n == Len(ops)
<1>1. RowsOf(x) \in Seq(Row)
  <2>1. x \in Row
    BY DEF Clean
  <2> QED BY <2>1 DEF RowsOf
<1>2. PICK g \in [0..n -> Seq(Row)] :
         /\ g[0] = RowsOf(x) /\ Overlaid(k, RowsOf(x), ops) = g[n]
         /\ \A i \in 1..n : g[i] = ApplyOps(k, g[i - 1], ops[i])
  BY <1>1, OverlaidSteps
<1>3. f[0] = x /\ n \in Nat
  BY TrailIs
<1>4. \A i \in 1..n : f[i - 1] \in Clean /\ f[i] = Effect(k, f[i - 1], ops[i]) /\ ops[i] \in Op
  <2>1. f \in [0..n -> Clean] /\ \A i \in 1..n : f[i] = Effect(k, f[i - 1], ops[i])
    BY TrailIs
  <2>2. \A i \in 1..n : i - 1 \in 0..n /\ ops[i] \in Op
    OBVIOUS
  <2> HIDE DEF f, n
  <2> QED BY <2>1, <2>2
<1>a. \A i \in 1..n : k \in ops[i].ids =>
            /\ ops[i].type = "insert" => ~f[i - 1].exists /\ ops[i].num.kind # "inc"
            /\ ops[i].type = "upsert" /\ ops[i].num.kind = "inc" => f[i - 1].exists
  OBVIOUS
<1> HIDE DEF f, n
<1> DEFINE T == {i \in Nat : i <= n => g[i] = RowsOf(f[i])}
<1>5. 0 \in T
  BY <1>2, <1>3
<1>6. ASSUME NEW i \in Nat, i \in T
      PROVE  i + 1 \in T
  <2> SUFFICES ASSUME i + 1 <= n
               PROVE  g[i + 1] = RowsOf(f[i + 1])
    OBVIOUS
  <2> DEFINE e == i + 1
  <2>1. e \in 1..n /\ e - 1 = i /\ i <= n
    BY <1>3
  <2>2. g[e - 1] = RowsOf(f[e - 1])
    BY <1>6, <2>1
  <2> HIDE DEF e
  <2>3. g[e] = ApplyOps(k, RowsOf(f[e - 1]), ops[e])
    BY <1>2, <2>1, <2>2
  <2>4. f[e - 1] \in Clean /\ ops[e] \in Op /\ f[e] = Effect(k, f[e - 1], ops[e])
    BY <1>4, <2>1
  <2>5. ApplyOps(k, RowsOf(f[e - 1]), ops[e]) = RowsOf(Effect(k, f[e - 1], ops[e]))
    BY <1>a, <2>1, <2>4, ApplyOpsIs
  <2> QED BY <2>3, <2>4, <2>5 DEF e
<1>7. n \in T
  <2> HIDE DEF T
  <2> QED BY <1>3, <1>5, <1>6, Induction
<1> QED BY <1>2, <1>3, <1>7 DEF After, f, n

-----------------------------------------------------------------------------
(* The sort of flush()                                                      *)

(* The comparison of flush() is a strict total order.                       *)
LEMMA BeforeIs ==
  ASSUME objects \in Seq(Op), NEW r \in DOMAIN objects, NEW q \in DOMAIN objects
  PROVE  /\ ~Before(r, r)
         /\ r # q => Before(r, q) \/ Before(q, r)
         /\ ~(Before(r, q) /\ Before(q, r))
         /\ Before(r, q) => Priority(objects[r]) <= Priority(objects[q])
         /\ Priority(objects[r]) <= Priority(objects[q]) /\ r < q => Before(r, q)
         /\ \A s \in DOMAIN objects : Before(s, r) /\ Before(r, q) => Before(s, q)
<1>1. \A s \in DOMAIN objects : s \in Nat /\ Priority(objects[s]) \in Nat
  <2> SUFFICES ASSUME NEW s \in DOMAIN objects
               PROVE  s \in Nat /\ Priority(objects[s]) \in Nat
    OBVIOUS
  <2>1. objects[s] \in Op
    OBVIOUS
  <2>2. objects[s].type \in {"insert", "upsert", "update", "delete"}
    BY <2>1, OpIs
  <2>3. Priority(objects[s]) \in {0, 1, 2, 3}
    BY <2>2 DEF Priority
  <2> QED BY <2>3
<1> DEFINE pr == Priority(objects[r])
<1> DEFINE pq == Priority(objects[q])
<1>2. pr \in Nat /\ pq \in Nat /\ r \in Nat /\ q \in Nat
  BY <1>1
<1>3. /\ Before(r, q) <=> pr < pq \/ (pr = pq /\ r < q)
      /\ Before(q, r) <=> pq < pr \/ (pq = pr /\ q < r)
      /\ Before(r, r) <=> pr < pr \/ (pr = pr /\ r < r)
  BY DEF Before
<1>4. \A s \in DOMAIN objects : Before(s, r) /\ Before(r, q) => Before(s, q)
  <2> TAKE s \in DOMAIN objects
  <2> DEFINE ps == Priority(objects[s])
  <2>1. s \in Nat /\ ps \in Nat
    BY <1>1
  <2>2. /\ Before(s, r) <=> ps < pr \/ (ps = pr /\ s < r)
        /\ Before(s, q) <=> ps < pq \/ (ps = pq /\ s < q)
    BY DEF Before
  <2> HIDE DEF ps, pr, pq
  <2> QED BY <1>2, <1>3, <2>1, <2>2
<1> HIDE DEF pr, pq
<1>5. /\ ~Before(r, r) /\ (r # q => Before(r, q) \/ Before(q, r)) /\ ~(Before(r, q) /\ Before(q, r))
      /\ Before(r, q) => pr <= pq
      /\ pr <= pq /\ r < q => Before(r, q)
  BY <1>2, <1>3
<1> QED BY <1>4, <1>5 DEF pr, pq

InjectiveOn(S, f) == \A x, y \in S : f[x] = f[y] => x = y

(* As many different values as there are numbers are all of them.           *)
LEMMA CountInjection ==
  ASSUME NEW n \in Nat, NEW S, NEW f \in [S -> 1..n], IsFiniteSet(S), Cardinality(S) = n, InjectiveOn(S, f)
  PROVE  \A m \in 1..n : \E x \in S : f[x] = m
<1>1. IsFiniteSet(1..n) /\ Cardinality(1..n) = n
  <2>1. 1 \in Int /\ n \in Int
    OBVIOUS
  <2>2. IsFiniteSet(1..n) /\ Cardinality(1..n) = IF 1 > n THEN 0 ELSE n - 1 + 1
    BY <2>1, FS_Interval
  <2> QED BY <2>2
<1>2. f \in Injection(S, 1..n)
  BY DEF Injection, IsInjective, InjectiveOn
<1>3. f \in Surjection(S, 1..n)
  BY <1>1, <1>2, FS_Injection
<1> QED BY <1>3 DEF Surjection

(* A sequence of different values has as many as it is long.                *)
LEMMA CountSequence ==
  ASSUME NEW D, NEW refs \in Seq(D), Distinct(refs)
  PROVE  IsFiniteSet(ToSet(refs)) /\ Cardinality(ToSet(refs)) = Len(refs)
<1> DEFINE n == Len(refs)
<1> DEFINE S == ToSet(refs)
<1>1. n \in Nat /\ DOMAIN refs = 1..n /\ S = {refs[i] : i \in 1..n}
  BY DEF ToSet
<1>2. refs \in [1..n -> S] /\ \A x \in S : \E i \in 1..n : refs[i] = x
  BY <1>1
<1>3. IsInjective(refs)
  BY <1>1 DEF Distinct, IsInjective
<1>4. refs \in Bijection(1..n, S)
  BY <1>2, <1>3 DEF Bijection, Injection, Surjection
<1>5. ExistsBijection(1..n, S)
  BY <1>4 DEF ExistsBijection
<1>6. IsFiniteSet(1..n) /\ Cardinality(1..n) = n
  <2> HIDE DEF n
  <2>1. 1 \in Int /\ n \in Int
    BY <1>1
  <2>2. IsFiniteSet(1..n) /\ Cardinality(1..n) = IF 1 > n THEN 0 ELSE n - 1 + 1
    BY <2>1, FS_Interval
  <2> QED BY <1>1, <2>2
<1> HIDE DEF n, S
<1>7. IsFiniteSet(S) /\ Cardinality(S) = Cardinality(1..n)
  BY <1>5, <1>6, FS_Bijection
<1> QED BY <1>6, <1>7 DEF n, S

Ordered(list) == \A i, j \in DOMAIN list : i < j => Before(list[i], list[j])

(* The place of a reference is one more than the number of those before it. *)
LEMMA SortedExists ==
  ASSUME objects \in Seq(Op), NEW refs \in Seq(DOMAIN objects), Distinct(refs)
  PROVE  \E list \in SetToSeqs(ToSet(refs)) : Ordered(list)
<1> DEFINE n == Len(refs)
<1> DEFINE S == ToSet(refs)
<1> DEFINE D == DOMAIN objects
<1>1. n \in Nat /\ S \subseteq D
  <2>1. DOMAIN refs = 1..n /\ \A i \in 1..n : refs[i] \in D
    OBVIOUS
  <2>2. S = {refs[i] : i \in 1..n}
    BY <2>1 DEF ToSet
  <2> QED BY <2>1, <2>2
<1>2. IsFiniteSet(S) /\ Cardinality(S) = n
  BY CountSequence
<1> DEFINE Below(r) == {q \in S : Before(q, r)}
<1> HIDE DEF n, S
<1>3. ASSUME NEW r \in S
      PROVE  IsFiniteSet(Below(r)) /\ Cardinality(Below(r)) \in Nat /\ Cardinality(Below(r)) < n
  <2>1. Below(r) \in SUBSET S /\ Below(r) # S
    BY <1>1, BeforeIs
  <2> HIDE DEF Below
  <2>2. IsFiniteSet(Below(r)) /\ Cardinality(Below(r)) <= n /\ (Cardinality(S) = Cardinality(Below(r)) => S = Below(r))
    BY <1>2, <2>1, FS_Subset
  <2>3. Cardinality(Below(r)) \in Nat
    BY <2>2, FS_CardinalityType
  <2> QED BY <1>1, <1>2, <2>1, <2>2, <2>3
<1>4. ASSUME NEW q \in S, NEW r \in S, Before(q, r)
      PROVE  Cardinality(Below(q)) < Cardinality(Below(r))
  <2>1. q \in D /\ r \in D
    BY <1>1
  <2>2. Below(q) \in SUBSET Below(r) /\ q \in Below(r) /\ q \notin Below(q)
    <3>1. \A s \in S : Before(s, q) => Before(s, r)
      BY <1>1, <1>4, <2>1, BeforeIs
    <3>2. ~Before(q, q)
      BY <2>1, BeforeIs
    <3> QED BY <1>4, <3>1, <3>2
  <2>3. /\ IsFiniteSet(Below(r)) /\ Cardinality(Below(r)) \in Nat /\ Cardinality(Below(q)) \in Nat
    BY <1>3
  <2> DEFINE a == Below(q)
  <2> DEFINE b == Below(r)
  <2> HIDE DEF Below, a, b
  <2>4. a \in SUBSET b /\ IsFiniteSet(b) /\ a # b
    BY <2>2, <2>3 DEF a, b
  <2>5. Cardinality(a) <= Cardinality(b) /\ Cardinality(a) # Cardinality(b)
    <3>1. Cardinality(a) <= Cardinality(b) /\ (Cardinality(b) = Cardinality(a) => b = a)
      BY <2>4, FS_Subset
    <3> QED BY <2>4, <3>1
  <2>6. Cardinality(a) \in Nat /\ Cardinality(b) \in Nat
    BY <2>3 DEF a, b
  <2>7. Cardinality(a) < Cardinality(b)
    BY <2>5, <2>6
  <2> QED BY <2>7 DEF a, b
<1> DEFINE rank == [r \in S |-> Cardinality(Below(r)) + 1]
<1>5. rank \in [S -> 1..n]
  <2> HIDE DEF Below
  <2>1. \A r \in S : Cardinality(Below(r)) + 1 \in 1..n
    BY <1>1, <1>3
  <2> QED BY <2>1
<1>6. \A q, r \in S : Before(q, r) => rank[q] < rank[r]
  <2> TAKE q \in S, r \in S
  <2> HAVE Before(q, r)
  <2>1. Cardinality(Below(q)) < Cardinality(Below(r))
    BY <1>4
  <2>2. Cardinality(Below(q)) \in Nat /\ Cardinality(Below(r)) \in Nat
    BY <1>3
  <2> HIDE DEF Below
  <2> QED BY <2>1, <2>2
<1> HIDE DEF rank, Below
<1>7. InjectiveOn(S, rank)
  <2> SUFFICES ASSUME NEW q \in S, NEW r \in S, rank[q] = rank[r], q # r PROVE FALSE
    BY DEF InjectiveOn
  <2>1. Before(q, r) \/ Before(r, q)
    BY <1>1, BeforeIs
  <2>2. rank[q] < rank[r] \/ rank[r] < rank[q]
    BY <1>6, <2>1
  <2>3. rank[q] \in Nat /\ rank[r] \in Nat
    BY <1>1, <1>5
  <2> QED BY <2>2, <2>3
<1>8. \A m \in 1..n : \E r \in S : rank[r] = m
  BY <1>1, <1>2, <1>5, <1>7, CountInjection
<1> DEFINE list == [m \in 1..n |-> CHOOSE r \in S : rank[r] = m]
<1>9. \A m \in 1..n : list[m] \in S /\ rank[list[m]] = m
  BY <1>8
<1>10. list \in [1..n -> S] /\ DOMAIN list = 1..n
  BY <1>9
<1> HIDE DEF list
<1>11. list \in SetToSeqs(S)
  <2>1. \A i, j \in 1..n : i # j => list[i] # list[j]
    BY <1>9
  <2> QED BY <1>2, <1>10, <2>1 DEF SetToSeqs
<1>12. ASSUME NEW i \in 1..n, NEW j \in 1..n, i < j
       PROVE  Before(list[i], list[j])
  <2>1. list[i] \in S /\ list[j] \in S /\ rank[list[i]] = i /\ rank[list[j]] = j /\ i \in Nat /\ j \in Nat
    BY <1>1, <1>9
  <2>2. list[i] # list[j] /\ ~Before(list[j], list[i])
    BY <1>6, <1>12, <2>1
  <2>3. list[i] \in D /\ list[j] \in D
    BY <1>1, <2>1
  <2> QED BY <2>2, <2>3, BeforeIs
<1>13. Ordered(list)
  BY <1>10, <1>12 DEF Ordered
<1> QED BY <1>11, <1>13 DEF S

(* There is a sorted batch, and it holds what the batch held.               *)
LEMMA SortedIs ==
  ASSUME objects \in Seq(Op), NEW refs \in Seq(DOMAIN objects), Distinct(refs)
  PROVE  /\ Sorted(refs) \in Seq(DOMAIN objects) /\ Len(Sorted(refs)) = Len(refs) /\ Distinct(Sorted(refs))
         /\ Ordered(Sorted(refs)) /\ ToSet(Sorted(refs)) = ToSet(refs)
<1> DEFINE n == Len(refs)
<1> DEFINE S == ToSet(refs)
<1> DEFINE D == DOMAIN objects
<1> DEFINE list == Sorted(refs)
<1>1. n \in Nat /\ S \subseteq D
  <2>1. DOMAIN refs = 1..n /\ \A i \in 1..n : refs[i] \in D
    OBVIOUS
  <2>2. S = {refs[i] : i \in 1..n}
    BY <2>1 DEF ToSet
  <2> QED BY <2>1, <2>2
<1>2. IsFiniteSet(S) /\ Cardinality(S) = n
  BY CountSequence
<1>3. list \in SetToSeqs(S) /\ Ordered(list)
  BY SortedExists DEF Sorted, Ordered
<1> HIDE DEF list, n, S
<1>4. list \in [1..n -> S] /\ \A i, j \in 1..n : i # j => list[i] # list[j]
  BY <1>2, <1>3 DEF SetToSeqs
<1>5. list \in Seq(D) /\ Len(list) = n
  <2>1. list \in [1..n -> D]
    BY <1>1, <1>4
  <2> QED BY <1>1, <2>1
<1>6. Distinct(list)
  BY <1>4, <1>5 DEF Distinct
<1>7. ToSet(list) = S
  <2>1. IsFiniteSet(ToSet(list)) /\ Cardinality(ToSet(list)) = n
    BY <1>5, <1>6, CountSequence
  <2>2. ToSet(list) \in SUBSET S
    BY <1>4 DEF ToSet
  <2>3. Cardinality(S) = Cardinality(ToSet(list)) => S = ToSet(list)
    BY <1>2, <2>2, FS_Subset
  <2> QED BY <1>2, <2>1, <2>3
<1> QED BY <1>3, <1>5, <1>6, <1>7 DEF list, n, S

(* References in the order of their pushes.                                 *)
Increasing(refs) == \A i, m \in 1..Len(refs) : i < m => refs[i] < refs[m]

(* References that increase are different.                                  *)
LEMMA IncreasingDistinct ==
  ASSUME NEW D \in SUBSET Nat, NEW refs \in Seq(D), Increasing(refs)
  PROVE  Distinct(refs)
<1> SUFFICES ASSUME NEW i \in 1..Len(refs), NEW m \in 1..Len(refs), i # m, refs[i] = refs[m] PROVE FALSE
  BY DEF Distinct
<1>1. refs[i] \in Nat /\ refs[m] \in Nat /\ (i < m \/ m < i)
  <2>1. refs[i] \in D /\ refs[m] \in D
    OBVIOUS
  <2>2. i \in Nat /\ m \in Nat /\ i # m
    OBVIOUS
  <2>3. refs[i] \in Nat /\ refs[m] \in Nat
    BY <2>1
  <2>4. i < m \/ m < i
    BY <2>2
  <2> QED BY <2>3, <2>4
<1>2. refs[i] < refs[m] \/ refs[m] < refs[i]
  BY <1>1 DEF Increasing
<1> QED BY <1>1, <1>2

(* Place i of refs is place p[i] of list, and references to operations that *)
(* share a key keep their order.                                            *)
Permutes(objs, refs, list, p) ==
    /\ Len(list) = Len(refs) /\ p \in [1..(Len(refs) + 1) -> 1..(Len(refs) + 1)]
    /\ p[Len(refs) + 1] = Len(refs) + 1
    /\ \A i \in 1..Len(refs) : p[i] <= Len(refs) /\ list[p[i]] = refs[i]
    /\ \A j \in 1..Len(refs) : \E i \in 1..Len(refs) : p[i] = j
    /\ \A i, j \in 1..Len(refs) :
            i < j /\ objs[refs[i]].ids \cap objs[refs[j]].ids # {} => p[i] < p[j]

(* Sorting a batch of phased operations is a rearrangement that keeps the   *)
(* order on each row.                                                       *)
LEMMA SortedRearranges ==
  ASSUME objects \in Seq(Op), Keyed(objects), NEW refs \in Seq(DOMAIN objects), Increasing(refs),
         Phased(Ops(objects, refs))
  PROVE  /\ Phased(Ops(objects, Sorted(refs)))
         /\ \E p : Permutes(objects, refs, Sorted(refs), p)
<1> DEFINE n == Len(refs)
<1> DEFINE D == DOMAIN objects
<1> DEFINE list == Sorted(refs)
<1> DEFINE s == Ops(objects, refs)
<1> DEFINE t == Ops(objects, list)
<1>a. D \in SUBSET Nat /\ objects \in [D -> Op] /\ n \in Nat /\ refs \in Seq(D)
  OBVIOUS
<1>b. Distinct(refs)
  BY <1>a, IncreasingDistinct
<1>c. /\ list \in Seq(D) /\ Len(list) = n /\ Distinct(list) /\ Ordered(list) /\ ToSet(list) = ToSet(refs)
  BY <1>b, SortedIs
<1> HIDE DEF list
<1>1. s \in Seq(Op) /\ Len(s) = n /\ DOMAIN s = 1..n /\ \A i \in 1..n : refs[i] \in D /\ s[i] = objects[refs[i]]
  <2> HIDE DEF D
  <2> QED BY <1>a, OfIs
<1>2. t \in Seq(Op) /\ Len(t) = n /\ DOMAIN t = 1..n /\ \A i \in 1..n : list[i] \in D /\ t[i] = objects[list[i]]
  <2> HIDE DEF D, n
  <2>1. objects \in [D -> Op] /\ list \in Seq(D) /\ Len(list) = n
    BY <1>a, <1>c
  <2> QED BY ONLY <2>1, OfIs
<1>3. /\ \A i, m \in 1..n : i # m => refs[i] # refs[m]
      /\ \A i, m \in 1..n : i < m => refs[i] < refs[m]
  BY <1>b DEF Distinct, Increasing
<1>4. /\ \A i, m \in 1..n : i # m => list[i] # list[m]
      /\ \A i, m \in 1..n : i < m => Before(list[i], list[m])
  <2>1. DOMAIN list = 1..n
    BY <1>c
  <2> QED BY <1>c, <2>1 DEF Distinct, Ordered
<1>5. /\ \A i \in 1..n : \E m \in 1..n : list[m] = refs[i]
      /\ \A m \in 1..n : \E i \in 1..n : list[m] = refs[i]
  <2>1. DOMAIN list = 1..n /\ DOMAIN refs = 1..n
    BY <1>c
  <2>2. {list[i] : i \in 1..n} = {refs[i] : i \in 1..n}
    BY <1>c, <2>1 DEF ToSet
  <2> HIDE DEF n
  <2> QED BY <2>2
<1>6. /\ \A i, m \in 1..n : i < m /\ s[i].ids \cap s[m].ids # {} =>
            /\ Priority(s[i]) <= Priority(s[m])
            /\ s[i].eq /\ s[m].eq => \A q \in (i + 1)..(m - 1) : s[q].ids \cap s[i].ids # {} => s[q].eq
  BY <1>1 DEF Phased
<1>7. \A q \in D : objects[q].eq => objects[q].type = "update" /\ \E k \in Keys : objects[q].ids = {k}
  BY DEF Keyed
<1>8. /\ \A r, q \in D : ~(Before(r, q) /\ Before(q, r))
      /\ \A r, q \in D : Before(r, q) => Priority(objects[r]) <= Priority(objects[q])
      /\ \A r, q \in D : Priority(objects[r]) <= Priority(objects[q]) /\ r < q => Before(r, q)
  BY BeforeIs
<1> HIDE DEF n, D, s, t
<1> DEFINE p == [i \in 1..(n + 1) |-> IF i = n + 1 THEN n + 1 ELSE CHOOSE m \in 1..n : list[m] = refs[i]]
<1>9. /\ \A i \in 1..n : p[i] \in 1..n /\ list[p[i]] = refs[i]
      /\ p[n + 1] = n + 1
      /\ \A i \in 1..n : i \in Nat
  <2>1. n + 1 \in 1..(n + 1) /\ \A i \in 1..n : i \in 1..(n + 1) /\ i # n + 1 /\ i \in Nat
    BY <1>a
  <2> QED BY <1>5, <2>1
<1>10. p \in [1..(n + 1) -> 1..(n + 1)]
  <2>1. \A i \in 1..(n + 1) : i \in 1..n \/ i = n + 1
    BY <1>a
  <2>2. \A i \in 1..n : i \in 1..(n + 1)
    BY <1>a
  <2>3. \A i \in 1..(n + 1) : p[i] \in 1..(n + 1)
    BY <1>9, <2>1, <2>2
  <2> QED BY <2>3
<1> HIDE DEF p
<1>11. \A i \in 1..n : t[p[i]] = s[i]
  <2>1. \A i \in 1..n : t[p[i]] = objects[list[p[i]]]
    BY <1>2, <1>9
  <2> TAKE i \in 1..n
  <2>2. list[p[i]] = refs[i] /\ s[i] = objects[refs[i]] /\ t[p[i]] = objects[list[p[i]]]
    BY <1>1, <1>9, <2>1
  <2> QED BY <2>2
<1>12. \A m \in 1..n : \E i \in 1..n : p[i] = m
  <2> TAKE m \in 1..n
  <2>1. PICK i \in 1..n : list[m] = refs[i]
    BY <1>5
  <2>2. p[i] \in 1..n /\ list[p[i]] = list[m]
    BY <1>9, <2>1
  <2> QED BY <1>4, <2>2
<1>13. ASSUME NEW i \in 1..n, NEW j \in 1..n, i < j, s[i].ids \cap s[j].ids # {}
       PROVE  p[i] < p[j]
  <2>1. Before(refs[i], refs[j])
    BY <1>1, <1>3, <1>6, <1>8, <1>13
  <2>2. p[i] # p[j]
    <3>1. i # j
      BY <1>9, <1>13
    <3> QED BY <1>3, <1>9, <3>1
  <2>3. ~(p[j] < p[i])
    BY <1>1, <1>4, <1>8, <1>9, <2>1
  <2> DEFINE a == p[i]
  <2> DEFINE b == p[j]
  <2>4. a \in Nat /\ b \in Nat /\ a # b /\ ~(b < a)
    BY <1>9, <2>2, <2>3
  <2> HIDE DEF a, b
  <2>5. a < b
    BY <2>4
  <2> QED BY <2>5 DEF a, b
<1>14. Permutes(objects, refs, list, p)
  <2>1. \A i, j \in 1..n : i < j /\ objects[refs[i]].ids \cap objects[refs[j]].ids # {} => p[i] < p[j]
    BY <1>1, <1>13
  <2>2. \A i \in 1..n : p[i] <= n
    <3>1. \A m \in 1..n : m <= n
      BY <1>a
    <3> QED BY <1>9, <3>1
  <2> QED BY <1>c, <1>9, <1>10, <1>12, <2>1, <2>2 DEF Permutes, n
<1>15. ASSUME NEW i \in 1..n, NEW j \in 1..n, i < j, t[i].ids \cap t[j].ids # {}
       PROVE  /\ Priority(t[i]) <= Priority(t[j])
              /\ t[i].eq /\ t[j].eq => \A q \in (i + 1)..(j - 1) : t[q].ids \cap t[i].ids # {} => t[q].eq
  <2>1. Priority(t[i]) <= Priority(t[j])
    <3>1. Before(list[i], list[j]) /\ list[i] \in D /\ list[j] \in D
      BY <1>2, <1>4, <1>15
    <3>2. Priority(objects[list[i]]) <= Priority(objects[list[j]])
      BY <1>8, <3>1
    <3>3. t[i] = objects[list[i]] /\ t[j] = objects[list[j]]
      BY <1>2
    <3> QED BY <3>2, <3>3
  <2>2. ASSUME t[i].eq, t[j].eq, NEW q \in (i + 1)..(j - 1), t[q].ids \cap t[i].ids # {}
        PROVE  t[q].eq
    <3>1. q \in 1..n /\ i < q /\ q < j
      <4>1. n \in Nat /\ i \in 1..n /\ j \in 1..n /\ q \in (i + 1)..(j - 1)
        BY <1>a
      <4> QED BY ONLY <4>1
    <3>2. PICK a \in 1..n, b \in 1..n, c \in 1..n : p[a] = i /\ p[b] = j /\ p[c] = q
      BY <1>12, <3>1
    <3>3. s[a] = t[i] /\ s[b] = t[j] /\ s[c] = t[q]
      BY <1>11, <3>2
    <3>4. PICK k \in Keys : t[i].ids = {k}
      <4>1. list[i] \in D /\ t[i] = objects[list[i]]
        BY <1>2
      <4> QED BY <1>7, <2>2, <4>1
    <3>5. k \in s[a].ids /\ k \in s[b].ids /\ k \in s[c].ids
      BY <1>15, <2>2, <3>3, <3>4
    <3>6. \A x, y \in 1..n : p[x] < p[y] /\ k \in s[x].ids /\ k \in s[y].ids => x < y
      <4> SUFFICES ASSUME NEW x \in 1..n, NEW y \in 1..n, p[x] < p[y], k \in s[x].ids, k \in s[y].ids
                   PROVE  x < y
        OBVIOUS
      <4>1. p[x] \in Nat /\ p[y] \in Nat /\ x \in Nat /\ y \in Nat
        BY <1>9
      <4>2. y < x => p[y] < p[x]
        BY <1>13
      <4>3. ~(y < x) /\ x # y
        <5> DEFINE u == p[x]
        <5> DEFINE v == p[y]
        <5>1. u \in Nat /\ v \in Nat /\ u < v /\ (y < x => v < u) /\ (x = y => u = v)
          BY <4>1, <4>2
        <5> HIDE DEF u, v
        <5> QED BY <5>1
      <4> QED BY <4>1, <4>3
    <3>7. a < c /\ c < b
      BY <3>1, <3>2, <3>5, <3>6
    <3>8. c \in (a + 1)..(b - 1) /\ a < b
      <4>1. a \in Nat /\ b \in Nat /\ c \in Nat
        BY <1>9
      <4> QED BY <3>7, <4>1
    <3>9. s[a].ids \cap s[b].ids # {} /\ s[c].ids \cap s[a].ids # {} /\ s[a].eq /\ s[b].eq
      BY <2>2, <3>3, <3>5
    <3> QED BY <1>6, <3>3, <3>8, <3>9
  <2> QED BY <2>1, <2>2
<1>16. Phased(t)
  BY <1>2, <1>15 DEF Phased
<1> QED BY <1>14, <1>16 DEF t, list

(* Merging changes no ids, so that the rearrangement remains one.           *)
LEMMA PermutesAlike ==
  ASSUME NEW D, NEW objs \in [D -> Op], NEW objs2 \in [D -> Op], NEW refs \in Seq(D), NEW list \in Seq(D),
         NEW p, Permutes(objs, refs, list, p), \A r \in D : objs2[r].ids = objs[r].ids
  PROVE  \A k \in Keys : Rearranged(k, Ops(objs2, refs), Ops(objs2, list), p)
<1> DEFINE n == Len(refs)
<1> DEFINE s == Ops(objs2, refs)
<1> DEFINE t == Ops(objs2, list)
<1>1. s \in Seq(Op) /\ Len(s) = n /\ \A i \in 1..n : refs[i] \in D /\ s[i] = objs2[refs[i]]
  BY OfIs
<1>2. Len(list) = n
  BY DEF Permutes
<1>3. t \in Seq(Op) /\ Len(t) = n /\ \A i \in 1..n : t[i] = objs2[list[i]]
  <2> HIDE DEF n
  <2>1. objs2 \in [D -> Op] /\ list \in Seq(D) /\ Len(list) = n
    BY <1>2
  <2> QED BY ONLY <2>1, OfIs
<1>4. n \in Nat
  OBVIOUS
<1>5. /\ p \in [1..(n + 1) -> 1..(n + 1)] /\ p[n + 1] = n + 1
      /\ \A i \in 1..n : p[i] <= n /\ list[p[i]] = refs[i]
      /\ \A j \in 1..n : \E i \in 1..n : p[i] = j
      /\ \A i, j \in 1..n : i < j /\ objs[refs[i]].ids \cap objs[refs[j]].ids # {} => p[i] < p[j]
  BY DEF Permutes
<1> HIDE DEF s, t, n
<1>6. \A i \in 1..n : t[p[i]] = s[i]
  <2> TAKE i \in 1..n
  <2>1. i \in 1..(n + 1) /\ \A j \in 1..(n + 1) : j <= n => j \in 1..n
    BY <1>4
  <2>2. p[i] \in 1..n
    BY <1>5, <2>1
  <2>3. t[p[i]] = objs2[list[p[i]]] /\ list[p[i]] = refs[i] /\ s[i] = objs2[refs[i]]
    BY <1>1, <1>3, <1>5, <2>2
  <2> QED BY <2>3
<1>7. ASSUME NEW k \in Keys, NEW i \in 1..n, NEW j \in 1..n, i < j, k \in s[i].ids, k \in s[j].ids
      PROVE  p[i] < p[j]
  <2>1. objs[refs[i]].ids = s[i].ids /\ objs[refs[j]].ids = s[j].ids
    BY <1>1
  <2> QED BY <1>5, <1>7, <2>1
<1>8. \A k \in Keys : Rearranged(k, s, t, p)
  BY <1>1, <1>3, <1>5, <1>6, <1>7 DEF Rearranged
<1> QED BY <1>8 DEF s, t

(* The order of a batch depends on the types, the keys and eq only.         *)
LEMMA PhasedAlike ==
  ASSUME NEW s \in Seq(Op), NEW t \in Seq(Op), Len(t) = Len(s), \A i \in 1..Len(s) : SameShape(t[i], s[i]),
         Phased(s)
  PROVE  Phased(t)
<1> DEFINE n == Len(s)
<1>1. DOMAIN s = 1..n /\ DOMAIN t = 1..n /\ n \in Nat
  OBVIOUS
<1>2. \A i \in 1..n : t[i].type = s[i].type /\ t[i].ids = s[i].ids /\ t[i].eq = s[i].eq
  BY DEF SameShape
<1>3. \A i \in 1..n : Priority(t[i]) = Priority(s[i])
  BY <1>2 DEF Priority
<1> HIDE DEF n
<1>4. \A i, j \in 1..n : \A q \in (i + 1)..(j - 1) : q \in 1..n
  BY <1>1
<1>5. \A i, j \in 1..n : i < j /\ s[i].ids \cap s[j].ids # {} =>
        /\ Priority(s[i]) <= Priority(s[j])
        /\ s[i].eq /\ s[j].eq => \A q \in (i + 1)..(j - 1) : s[q].ids \cap s[i].ids # {} => s[q].eq
  BY <1>1 DEF Phased
<1> SUFFICES ASSUME NEW i \in 1..n, NEW j \in 1..n, i < j, t[i].ids \cap t[j].ids # {}
             PROVE  /\ Priority(t[i]) <= Priority(t[j])
                    /\ t[i].eq /\ t[j].eq => \A q \in (i + 1)..(j - 1) : t[q].ids \cap t[i].ids # {} => t[q].eq
  BY <1>1 DEF Phased
<1>6. s[i].ids \cap s[j].ids # {}
  BY <1>2
<1>7. Priority(t[i]) <= Priority(t[j])
  BY <1>3, <1>5, <1>6
<1>8. ASSUME t[i].eq, t[j].eq, NEW q \in (i + 1)..(j - 1), t[q].ids \cap t[i].ids # {}
      PROVE  t[q].eq
  <2>1. q \in 1..n
    BY <1>4
  <2>2. s[i].eq /\ s[j].eq /\ s[q].ids \cap s[i].ids # {} /\ t[q].eq = s[q].eq
    BY <1>2, <1>8, <2>1
  <2> QED BY <1>5, <1>6, <2>2
<1> QED BY <1>7, <1>8

-----------------------------------------------------------------------------
(* What a batch does to the table                                           *)

(* What is inserted is not there yet, and nothing before touches its key.   *)
FreshInserts(rows, ops) ==
    \A i \in 1..Len(ops) : ops[i].type = "insert" =>
        \A k \in ops[i].ids : ~rows[k].exists /\ \A j \in 1..(i - 1) : k \notin ops[j].ids

(* A batch does to each row what its trail says, and none of its inserts    *)
(* fails where all are fresh.                                               *)
LEMMA ExecutedRows ==
  ASSUME NEW rows \in Tables, NEW ops \in Seq(Op)
  PROVE  /\ Executed(rows, ops)[1] \in Tables
         /\ \A k \in Keys : Executed(rows, ops)[1][k] = After(k, rows[k], ops)
         /\ FreshInserts(rows, ops) => Executed(rows, ops)[2]
<1> DEFINE n == Len(ops)
<1>1. PICK r \in [0..n -> Tables \X BOOLEAN] :
         /\ r[0] = <<rows, TRUE>> /\ Executed(rows, ops) = r[n]
         /\ \A i \in 1..n : r[i] = Run(r[i - 1], ops[i])
  BY ExecutedIs
<1>2. n \in Nat /\ n \in 0..n
  OBVIOUS
<1>3. ASSUME NEW k \in Keys
      PROVE  rows[k] \in Clean /\ \A i \in 0..n : r[i][1][k] = Trail(k, rows[k], ops)[i]
  <2>0. rows[k] \in Clean
    BY DEF Tables
  <2> DEFINE f == [i \in 0..n |-> r[i][1][k]]
  <2>1. IsTrail(k, rows[k], ops, f)
    BY <1>1, RowsOfExecuted
  <2>2. IsTrail(k, rows[k], ops, Trail(k, rows[k], ops))
    BY <2>0, TrailIs
  <2> DEFINE g == Trail(k, rows[k], ops)
  <2> HIDE DEF f, g
  <2>3. n <= Len(ops) /\ \A i \in 1..n : ops[i] = ops[i] \/ (k \notin ops[i].ids /\ k \notin ops[i].ids)
    OBVIOUS
  <2>4. \A i \in 0..n : f[i] = g[i]
    <3> HIDE DEF n
    <3>1. k \in Keys /\ ops \in Seq(Op) /\ IsTrail(k, rows[k], ops, f) /\ IsTrail(k, rows[k], ops, g)
      BY <2>1, <2>2 DEF g
    <3> QED BY ONLY <1>2, <2>0, <2>3, <3>1, Alike
  <2> QED BY <2>0, <2>4 DEF f, g
<1>4. \A k \in Keys : Executed(rows, ops)[1][k] = After(k, rows[k], ops)
  BY <1>1, <1>2, <1>3 DEF After
<1>5. Executed(rows, ops)[1] \in Tables
  <2>1. r[n] \in Tables \X BOOLEAN
    BY <1>2
  <2> QED BY <1>1, <2>1
<1>6. ASSUME FreshInserts(rows, ops)
      PROVE  Executed(rows, ops)[2]
  <2> DEFINE T == {i \in Nat : i <= n => r[i][2] = TRUE}
  <2> HIDE DEF n
  <2>1. 0 \in T
    <3>1. r[0][2] = TRUE
      BY <1>1
    <3> QED BY <3>1
  <2>2. ASSUME NEW i \in Nat, i <= n => r[i][2] = TRUE, i + 1 <= n
        PROVE  r[i + 1][2] = TRUE
    <3> DEFINE e == i + 1
    <3>1. e \in 1..n /\ e - 1 = i /\ i <= n /\ i \in 0..n
      BY <1>2, <2>2
    <3>2. r[e - 1][2] = TRUE /\ r[e - 1] \in Tables \X BOOLEAN
      BY <1>1, <2>2, <3>1
    <3>3. ops[e] \in Op
      BY <3>1 DEF n
    <3>e. r[e] = Run(r[e - 1], ops[e])
      BY <1>1, <3>1
    <3> HIDE DEF e
    <3>4. r[e][2] = (r[e - 1][2] /\ (ops[e].type = "insert" => \A k \in ops[e].ids : ~r[e - 1][1][k].exists))
      <4> DEFINE v == r[e - 1]
      <4>1. v \in Tables \X BOOLEAN /\ r[e] = Run(v, ops[e])
        BY <3>2, <3>e
      <4> HIDE DEF v
      <4>2. r[e][2] = (v[2] /\ (ops[e].type = "insert" => \A k \in ops[e].ids : ~v[1][k].exists))
        BY <3>3, <4>1 DEF Run
      <4> QED BY <4>2 DEF v
    <3>5. ASSUME ops[e].type = "insert", NEW k \in ops[e].ids
          PROVE  ~r[e - 1][1][k].exists
      <4>1. k \in Keys
        BY <3>3, OpIs
      <4>2. ~rows[k].exists /\ \A j \in 1..i : k \notin ops[j].ids
        BY <1>6, <3>1, <3>5 DEF FreshInserts, n
      <4>3. r[e - 1][1][k] = Trail(k, rows[k], ops)[i] /\ rows[k] \in Clean
        BY <1>3, <3>1, <4>1
      <4>4. Trail(k, rows[k], ops)[i] = Trail(k, rows[k], ops)[0]
        <5> DEFINE x == rows[k]
        <5>1. x \in Clean /\ i <= Len(ops) /\ 0 \in Nat /\ 0 <= i /\ \A j \in (0 + 1)..i : k \notin ops[j].ids
          BY <3>1, <4>2, <4>3 DEF n
        <5> HIDE DEF x
        <5>2. Trail(k, x, ops)[i] = Trail(k, x, ops)[0]
          BY <4>1, <5>1, Stretch
        <5> QED BY <5>2 DEF x
      <4>5. Trail(k, rows[k], ops)[0] = rows[k]
        BY <4>1, <4>3, TrailIs
      <4> QED BY <4>2, <4>3, <4>4, <4>5
    <3>6. r[e][2] = TRUE
      BY <3>2, <3>4, <3>5
    <3> QED BY <3>6 DEF e
  <2>3. n \in T
    <3>1. ASSUME NEW i \in Nat, i \in T
          PROVE  i + 1 \in T
      <4>1. i + 1 <= n => r[i + 1][2] = TRUE
        BY <2>2, <3>1
      <4>2. i + 1 \in Nat
        OBVIOUS
      <4> QED BY <4>1, <4>2
    <3> HIDE DEF T
    <3> QED BY <1>2, <2>1, <3>1, Induction
  <2>4. r[n][2] = TRUE
    BY <1>2, <2>3
  <2> QED BY <1>1, <2>4
<1> QED BY <1>4, <1>5, <1>6

(* A rearrangement of a batch inserts what is not there either.             *)
LEMMA FreshRearranged ==
  ASSUME NEW rows, NEW s \in Seq(Op), NEW t \in Seq(Op), NEW p, \A k \in Keys : Rearranged(k, s, t, p),
         FreshInserts(rows, s)
  PROVE  FreshInserts(rows, t)
<1> DEFINE n == Len(s)
<1>1. n \in Nat /\ \A i \in 1..n : s[i] \in Op /\ s[i].ids \in SUBSET Keys
  <2>1. \A i \in 1..n : s[i] \in Op
    OBVIOUS
  <2> QED BY <2>1, OpIs
<1> SUFFICES ASSUME NEW m \in 1..Len(t), t[m].type = "insert", NEW k \in t[m].ids
             PROVE  ~rows[k].exists /\ \A j \in 1..(m - 1) : k \notin t[j].ids
  BY DEF FreshInserts
<1>2. t[m] \in Op /\ k \in Keys
  <2>1. t[m] \in Op
    OBVIOUS
  <2> QED BY <2>1, OpIs
<1>3. /\ Len(t) = n /\ \A i \in 1..n : t[p[i]] = s[i]
      /\ \A j \in 1..n : \E i \in 1..n : p[i] = j
      /\ \A i, j \in 1..n : i < j /\ k \in s[i].ids /\ k \in s[j].ids => p[i] < p[j]
  BY <1>2 DEF Rearranged
<1> HIDE DEF n
<1>4. PICK i \in 1..n : p[i] = m
  BY <1>3
<1>5. s[i] = t[m]
  BY <1>3, <1>4
<1>6. ~rows[k].exists /\ \A j \in 1..(i - 1) : k \notin s[j].ids
  BY <1>5 DEF FreshInserts, n
<1>7. ASSUME NEW j \in 1..(m - 1), k \in t[j].ids
      PROVE  FALSE
  <2>1. j \in 1..n /\ j < m /\ j \in Nat /\ m \in Nat
    BY <1>1, <1>3
  <2>2. PICK a \in 1..n : p[a] = j
    BY <1>3, <2>1
  <2>3. s[a] = t[j]
    BY <1>3, <2>2
  <2>4. ~(a < i)
    <3>1. a < i => a \in 1..(i - 1)
      BY <1>1
    <3> QED BY <1>6, <1>7, <2>3, <3>1
  <2>5. ~(i < a)
    <3>1. i < a => m < j
      BY <1>3, <1>4, <1>5, <1>7, <2>2, <2>3
    <3> QED BY <2>1, <3>1
  <2>6. a # i
    BY <1>4, <2>1, <2>2
  <2> QED BY <1>1, <2>4, <2>5, <2>6
<1> QED BY <1>6, <1>7

-----------------------------------------------------------------------------
(* The inductive invariant                                                  *)

(* How many pushed operations are out of the active buffer, and how many    *)
(* are out of both buffers.                                                 *)
Flushed == Len(pushed) - Len(active)
Settled == Len(pushed) - Len(active) - Len(inflight)

(* A row after the first i operations, one by one in their order.           *)
RowAt(k, i) == Trail(k, NoRow, pushed)[i]

Permuted(refs, list) ==
    \E p \in [1..(Len(refs) + 1) -> 1..(Len(refs) + 1)] : Permutes(objects, refs, list, p)

Counting(objs, refs) == \E i \in 1..Len(refs) : objs[refs[i]].num.kind = "inc"

(* The buffers hold the last operations, in the order of the pushes.        *)
BuffersInOrder ==
    /\ disk \in Tables
    /\ Len(active) + Len(inflight) <= Len(pushed)
    /\ \A i \in 1..Len(active) : active[i] = Flushed + i
    /\ \A i \in 1..Len(inflight) : inflight[i] = Settled + i

(* Merging leaves the shape of the objects alone, and those of the active   *)
(* buffer altogether.                                                       *)
ObjectsKept ==
    /\ \A r \in DOMAIN objects :
         /\ SameShape(objects[r], pushed[r])
         /\ r > Flushed => objects[r] = pushed[r]
         /\ objects[r].type = "insert" => objects[r].num.kind # "inc"
    /\ Keyed(objects)
    /\ (\E r \in DOMAIN objects : objects[r].num.kind = "inc")
         => \E r \in DOMAIN pushed : pushed[r].num.kind = "inc"

OrderKept ==
    /\ Phased(Contents(active)) /\ Phased(Contents(inflight))
    /\ \A r \in DOMAIN pushed : pushed[r].type = "insert" =>
         \A k \in pushed[r].ids : ~RowAt(k, r - 1).exists

(* Until the batch runs, the disk is behind by what is in flight.           *)
Waiting ==
    /\ FreshInserts(disk, Contents(inflight))
    /\ \A k \in Keys : /\ disk[k] = RowAt(k, Settled)
                       /\ After(k, disk[k], Contents(inflight)) = RowAt(k, Flushed)

Taken == Permuted(inflight, batch) /\ Phased(Contents(batch)) /\ Distinct(batch)

(* The grouped batch does what the batch did, and so does the batch itself  *)
(* unless it counts.                                                        *)
Grouped ==
    /\ FreshInserts(disk, Contents(inflight)) /\ FreshInserts(disk, Contents(batch))
    /\ \A k \in Keys :
         /\ disk[k] = RowAt(k, Settled)
         /\ After(k, disk[k], Contents(batch)) = RowAt(k, Flushed)
         /\ ~Counting(objects, inflight) => After(k, disk[k], Contents(inflight)) = RowAt(k, Flushed)

Written ==
    \A k \in Keys :
        /\ disk[k] = RowAt(k, Flushed)
        /\ (\A i \in 1..Len(inflight) : Repeatable(objects[inflight[i]]))
             => After(k, disk[k], Contents(inflight)) = disk[k]

DiskKept ==
    /\ phase \in {"idle", "exec"} => Waiting
    /\ phase = "exec" => Taken
    /\ phase = "grouped" => Grouped
    /\ phase = "written" => Written

Exact == ObjectsKept /\ OrderKept /\ DiskKept

BatchInvariant == TypeOK /\ BuffersInOrder /\ (RetriedIncrement \/ overrun \/ Exact)

-----------------------------------------------------------------------------
(* Types, and the places of the operations                                  *)

(* The types of the state, with the buffers as the last operations.         *)
LEMMA StateIs ==
  ASSUME TypeOK, BuffersInOrder
  PROVE  /\ objects \in Seq(Op) /\ pushed \in Seq(Op) /\ objects \in [DOMAIN objects -> Op]
         /\ Len(pushed) \in Nat /\ Len(objects) = Len(pushed)
         /\ DOMAIN objects = 1..Len(pushed) /\ DOMAIN pushed = 1..Len(pushed)
         /\ active \in Seq(DOMAIN objects) /\ inflight \in Seq(DOMAIN objects) /\ batch \in Seq(DOMAIN objects)
         /\ Flushed \in Nat /\ Settled \in Nat
         /\ Settled + Len(inflight) = Flushed /\ Flushed + Len(active) = Len(pushed)
         /\ Increasing(active) /\ Increasing(inflight)
         /\ \A refs : Contents(refs) = Ops(objects, refs)
<1>1. objects \in Seq(Op) /\ pushed \in Seq(Op) /\ Len(objects) = Len(pushed)
  BY DEF TypeOK
<1>2. /\ active \in Seq(DOMAIN objects) /\ inflight \in Seq(DOMAIN objects) /\ batch \in Seq(DOMAIN objects)
  BY DEF TypeOK
<1>3. /\ objects \in [DOMAIN objects -> Op] /\ Len(pushed) \in Nat
      /\ DOMAIN objects = 1..Len(pushed) /\ DOMAIN pushed = 1..Len(pushed)
  BY <1>1
<1>4. Len(active) \in Nat /\ Len(inflight) \in Nat
  BY <1>2
<1>5. /\ Flushed \in Nat /\ Settled \in Nat
      /\ Settled + Len(inflight) = Flushed /\ Flushed + Len(active) = Len(pushed)
  BY <1>3, <1>4 DEF BuffersInOrder, Flushed, Settled
<1>6. Increasing(active) /\ Increasing(inflight)
  <2>1. /\ \A i \in 1..Len(active) : active[i] = Flushed + i
        /\ \A i \in 1..Len(inflight) : inflight[i] = Settled + i
    BY DEF BuffersInOrder
  <2> QED BY <2>1, <1>4, <1>5, SMTT(60) DEF Increasing
<1>7. \A refs : Contents(refs) = Ops(objects, refs)
  BY DEF Contents, Ops
<1> QED BY <1>1, <1>2, <1>3, <1>5, <1>6, <1>7

(* A buffer holds an operation once.                                        *)
LEMMA DistinctBuffers ==
  ASSUME TypeOK, BuffersInOrder
  PROVE  Distinct(active) /\ Distinct(inflight)
<1> DEFINE D == DOMAIN objects
<1>1. active \in Seq(D) /\ inflight \in Seq(D) /\ D \in SUBSET Nat /\ Increasing(active) /\ Increasing(inflight)
  BY StateIs
<1> HIDE DEF D
<1> QED BY <1>1, IncreasingDistinct

(* An action keeps the type and the places.                                 *)
LEMMA BatchTyped ==
  ASSUME TypeOK, BuffersInOrder, [BatchNext]_batchVars
  PROVE  TypeOK' /\ BuffersInOrder'
<1>0. /\ objects \in Seq(Op) /\ pushed \in Seq(Op) /\ Len(pushed) \in Nat /\ Len(objects) = Len(pushed)
      /\ DOMAIN objects = 1..Len(pushed)
      /\ active \in Seq(DOMAIN objects) /\ inflight \in Seq(DOMAIN objects) /\ batch \in Seq(DOMAIN objects)
      /\ Len(active) \in Nat /\ Len(inflight) \in Nat /\ Len(active) + Len(inflight) <= Len(pushed)
      /\ disk \in Tables
      /\ \A i \in 1..Len(active) : active[i] = Len(pushed) - Len(active) + i
      /\ \A i \in 1..Len(inflight) : inflight[i] = Len(pushed) - Len(active) - Len(inflight) + i
      /\ disk \in [Keys -> Row] /\ phase \in {"idle", "exec", "grouped", "written"} /\ busy \in 0..MaxBusy
  BY StateIs DEF BuffersInOrder, TypeOK, Flushed, Settled
<1> SUFFICES /\ disk' \in Tables
             /\ pushed' \in Seq(Op) /\ objects' \in Seq(Op) /\ Len(objects') = Len(pushed')
             /\ active' \in Seq(DOMAIN objects') /\ inflight' \in Seq(DOMAIN objects')
             /\ batch' \in Seq(DOMAIN objects')
             /\ phase' \in {"idle", "exec", "grouped", "written"} /\ busy' \in 0..MaxBusy
             /\ Len(active') + Len(inflight') <= Len(pushed')
             /\ \A i \in 1..Len(active') : active'[i] = Len(pushed') - Len(active') + i
             /\ \A i \in 1..Len(inflight') : inflight'[i] = Len(pushed') - Len(active') - Len(inflight') + i
  <2>1. Tables \subseteq [Keys -> Row]
    BY DEF Tables, Clean
  <2>2. overrun \in BOOLEAN
    BY DEF TypeOK
  <2>3. overrun' = overrun \/ overrun' = (overrun \/ inflight # <<>>)
    BY DEF BatchNext, Push, Swap, TakeInFlight, GroupOps, Execute, Busy, Clear, batchVars
  <2>4. overrun' \in BOOLEAN
    BY ONLY <2>2, <2>3
  <2> QED BY <2>1, <2>4 DEF TypeOK, BuffersInOrder, Flushed, Settled
<1>1. ASSUME NEW write \in Writes, Push(write)
      PROVE  /\ disk' \in Tables
             /\ pushed' \in Seq(Op) /\ objects' \in Seq(Op) /\ Len(objects') = Len(pushed')
             /\ active' \in Seq(DOMAIN objects') /\ inflight' \in Seq(DOMAIN objects')
             /\ batch' \in Seq(DOMAIN objects')
             /\ phase' \in {"idle", "exec", "grouped", "written"} /\ busy' \in 0..MaxBusy
             /\ Len(active') + Len(inflight') <= Len(pushed')
             /\ \A i \in 1..Len(active') : active'[i] = Len(pushed') - Len(active') + i
             /\ \A i \in 1..Len(inflight') : inflight'[i] = Len(pushed') - Len(active') - Len(inflight') + i
  <2>1. /\ write \in Op /\ pushed' = Append(pushed, write) /\ objects' = Append(objects, write)
        /\ active' = Append(active, Len(objects')) /\ disk' = disk /\ inflight' = inflight
        /\ batch' = batch /\ phase' = phase /\ busy' = busy
    BY <1>1, TableBatchAssumption DEF Push
  <2>2. /\ pushed' \in Seq(Op) /\ objects' \in Seq(Op) /\ Len(pushed') = Len(pushed) + 1
        /\ Len(objects') = Len(pushed) + 1 /\ DOMAIN objects' = 1..(Len(pushed) + 1)
    BY <1>0, <2>1, SMTT(60)
  <2>3. DOMAIN objects \subseteq DOMAIN objects' /\ Len(objects') \in DOMAIN objects'
    BY <1>0, <2>2
  <2>4. active' \in Seq(DOMAIN objects') /\ inflight' \in Seq(DOMAIN objects') /\ batch' \in Seq(DOMAIN objects')
    <3> DEFINE D == DOMAIN objects
    <3> DEFINE E == DOMAIN objects'
    <3>1. D \subseteq E /\ Len(objects') \in E /\ active \in Seq(D) /\ inflight \in Seq(D) /\ batch \in Seq(D)
      BY <1>0, <2>3
    <3> HIDE DEF D, E
    <3>2. \A s \in Seq(D) : s \in Seq(E)
      BY <3>1
    <3>3. Append(active, Len(objects')) \in Seq(E)
      BY <3>1, <3>2
    <3> QED BY <2>1, <3>1, <3>2, <3>3 DEF E
  <2>5. Len(active') = Len(active) + 1 /\ \A i \in 1..Len(active') :
           active'[i] = IF i = Len(active) + 1 THEN Len(pushed) + 1 ELSE active[i]
    BY <1>0, <2>1, <2>2
  <2>6. ASSUME NEW i \in 1..Len(active')
        PROVE  active'[i] = Len(pushed') - Len(active') + i
    <3>0. Len(active) \in Nat /\ i \in 1..(Len(active) + 1)
      BY <1>0, <2>5
    <3>1. i \in Nat /\ i <= Len(active) + 1 /\ (i # Len(active) + 1 => i \in 1..Len(active))
      BY ONLY <3>0
    <3>2. CASE i = Len(active) + 1
      BY <1>0, <2>2, <2>5, <3>2
    <3>3. CASE i # Len(active) + 1
      <4>1. active'[i] = Len(pushed) - Len(active) + i
        BY <1>0, <2>5, <3>1, <3>3
      <4>2. Len(pushed') - Len(active') + i = Len(pushed) - Len(active) + i
        BY <1>0, <2>2, <2>5, <3>1
      <4> QED BY <4>1, <4>2
    <3> QED BY <3>2, <3>3
  <2>7. ASSUME NEW i \in 1..Len(inflight')
        PROVE  inflight'[i] = Len(pushed') - Len(active') - Len(inflight') + i
    <3>1. i \in Nat /\ i \in 1..Len(inflight)
      BY <1>0, <2>1
    <3>2. Len(pushed') - Len(active') - Len(inflight') = Len(pushed) - Len(active) - Len(inflight)
      BY <1>0, <2>1, <2>2, <2>5
    <3>3. inflight'[i] = Len(pushed) - Len(active) - Len(inflight) + i
      BY <1>0, <2>1, <3>1
    <3> QED BY <3>2, <3>3
  <2>8. Len(active') + Len(inflight') <= Len(pushed')
    BY <1>0, <2>1, <2>2, <2>5
  <2>9. /\ disk' \in Tables /\ phase' \in {"idle", "exec", "grouped", "written"} /\ busy' \in 0..MaxBusy
        /\ Len(objects') = Len(pushed')
    BY <1>0, <2>1, <2>2
  <2> QED BY <2>2, <2>4, <2>6, <2>7, <2>8, <2>9
<1>2. CASE Swap
  <2>1. /\ disk' = disk /\ pushed' = pushed /\ objects' = objects /\ busy' = busy /\ phase' = "exec"
        /\ inflight' = active /\ active' = <<>> /\ batch' = Sorted(active)
    BY <1>2 DEF Swap
  <2>2. Sorted(active) \in Seq(DOMAIN objects)
    BY <1>0, DistinctBuffers, SortedIs
  <2>3. Len(active') = 0 /\ <<>> \in Seq(DOMAIN objects)
    BY <2>1
  <2> QED BY <1>0, <2>1, <2>2, <2>3
<1>3. CASE TakeInFlight
  BY <1>0, <1>3 DEF TakeInFlight
<1>4. CASE GroupOps
  <2>1. /\ disk' = disk /\ pushed' = pushed /\ active' = active /\ inflight' = inflight /\ busy' = busy
        /\ phase' = "grouped" /\ batch' = Coalesced(batch)[1] /\ objects' = Coalesced(batch)[2]
    BY <1>4 DEF GroupOps
  <2>2. batch' \in Seq(DOMAIN objects) /\ objects' \in [DOMAIN objects -> Op]
    BY <1>0, <2>1, CoalescedTyped
  <2>3. objects' \in Seq(Op) /\ Len(objects') = Len(pushed) /\ DOMAIN objects' = DOMAIN objects
    <3> DEFINE n == Len(pushed)
    <3> DEFINE o == objects'
    <3>1. n \in Nat /\ o \in [1..n -> Op]
      BY <1>0, <2>2
    <3> HIDE DEF n, o
    <3>2. o \in Seq(Op) /\ Len(o) = n /\ DOMAIN o = 1..n
      BY <3>1
    <3> QED BY <1>0, <3>2 DEF n, o
  <2> QED BY <1>0, <2>1, <2>2, <2>3
<1>5. CASE Execute
  <2> DEFINE ops == Ops(objects, batch)
  <2> DEFINE result == Executed(disk, ops)
  <2>1. Contents(batch) = ops
    BY DEF Contents, Ops
  <2>2. /\ \/ disk' = result[1] /\ phase' = "written" /\ inflight' = inflight
           \/ phase' = "idle" /\ inflight' = <<>> /\ disk' = disk
        /\ batch' = <<>> /\ pushed' = pushed /\ objects' = objects /\ active' = active /\ busy' = busy
    <3> HIDE DEF ops
    <3> QED BY <1>5, <2>1 DEF Execute
  <2>3. result[1] \in Tables
    <3>1. ops \in Seq(Op)
      <4> DEFINE D == DOMAIN objects
      <4>1. objects \in [D -> Op] /\ batch \in Seq(D)
        BY <1>0
      <4> HIDE DEF D
      <4> QED BY <4>1, OfIs
    <3> HIDE DEF ops
    <3> QED BY <1>0, <3>1, ExecutedRows
  <2> HIDE DEF result
  <2>4. <<>> \in Seq(DOMAIN objects) /\ Len(<<>>) = 0
    OBVIOUS
  <2>5. CASE disk' = result[1] /\ phase' = "written" /\ inflight' = inflight
    BY <1>0, <2>2, <2>3, <2>4, <2>5
  <2>6. CASE phase' = "idle" /\ inflight' = <<>> /\ disk' = disk
    <3>1. Len(inflight') = 0 /\ Len(active') + 0 <= Len(pushed') /\ inflight' \in Seq(DOMAIN objects')
      BY <1>0, <2>2, <2>4, <2>6
    <3>2. \A i \in 1..Len(inflight') : FALSE
      BY <3>1
    <3> QED BY <1>0, <2>2, <2>4, <2>6, <3>1, <3>2
  <2> QED BY <2>2, <2>5, <2>6
<1>6. CASE Busy
  <2>1. <<>> \in Seq(DOMAIN objects) /\ busy + 1 \in 0..MaxBusy
    BY <1>0, <1>6, TableBatchAssumption DEF Busy
  <2> QED BY <1>0, <1>6, <2>1 DEF Busy
<1>7. CASE Clear
  BY <1>0, <1>7 DEF Clear
<1>8. CASE UNCHANGED batchVars
  BY <1>0, <1>8 DEF batchVars
<1> QED BY <1>1, <1>2, <1>3, <1>4, <1>5, <1>6, <1>7, <1>8 DEF BatchNext

-----------------------------------------------------------------------------
(* Batches and the rows of the pushed operations                            *)

(* In an orderly batch, an insert of a row that is not there when its turn  *)
(* comes is the first operation on it.                                      *)
LEMMA FreshWhenPhased ==
  ASSUME NEW rows \in Tables, NEW ops \in Seq(Op), Phased(ops),
         \A i \in 1..Len(ops) : ops[i].type = "insert" =>
            \A k \in ops[i].ids : ~Trail(k, rows[k], ops)[i - 1].exists
  PROVE  FreshInserts(rows, ops)
<1> DEFINE n == Len(ops)
<1>0. n \in Nat /\ DOMAIN ops = 1..n /\ \A i \in 1..n : ops[i] \in Op
  OBVIOUS
<1> SUFFICES ASSUME NEW i \in 1..n, ops[i].type = "insert", NEW k \in ops[i].ids
             PROVE  ~rows[k].exists /\ \A j \in 1..(i - 1) : k \notin ops[j].ids
  BY DEF FreshInserts
<1> DEFINE x == rows[k]
<1> DEFINE f == Trail(k, x, ops)
<1> DEFINE b == i - 1
<1>1. k \in Keys /\ x \in Clean /\ i \in Nat /\ b \in Nat /\ b <= n /\ b < i /\ i <= n
  BY <1>0, OpIs DEF Tables
<1>2. ~f[b].exists
  OBVIOUS
<1>3. f[0] = x /\ f \in [0..n -> Clean] /\ \A j \in 1..n : f[j] = Effect(k, f[j - 1], ops[j])
  BY <1>1, TrailIs
<1>4. \A j \in 1..n : j < i /\ k \in ops[j].ids => ops[j].type = "insert"
  <2> TAKE j \in 1..n
  <2> HAVE j < i /\ k \in ops[j].ids
  <2>1. Priority(ops[j]) <= Priority(ops[i])
    BY <1>0 DEF Phased
  <2>2. ops[j].type \in {"insert", "upsert", "update", "delete"}
    BY <1>0, OpIs
  <2> QED BY <2>1, <2>2 DEF Priority
<1> HIDE DEF n, x, f, b
<1>5. ASSUME NEW j \in 1..n, j < i, k \in ops[j].ids
      PROVE  FALSE
  <2>1. j \in Nat /\ j <= b /\ b <= Len(ops) /\ j - 1 \in 0..n
    BY <1>0, <1>1, <1>5 DEF n, b
  <2>2. f[j - 1] \in Clean
    BY <1>3, <2>1
  <2>3. f[j].exists
    <3> DEFINE y == f[j - 1]
    <3> DEFINE write == ops[j]
    <3>1. y \in Clean /\ write \in Op /\ k \in write.ids /\ write.type = "insert" /\ f[j] = Effect(k, y, write)
      BY <1>0, <1>3, <1>4, <1>5, <2>2
    <3> HIDE DEF y, write
    <3>2. f[j] = Assign(y, write)
      BY <3>1, EffectIs
    <3> QED BY <3>1, <3>2, AssignIs
  <2>4. \A q \in (j + 1)..b : k \in ops[q].ids => ops[q].type # "delete"
    <3> TAKE q \in (j + 1)..b
    <3>0. n \in Nat /\ i \in Nat /\ i <= n /\ b = i - 1 /\ j \in Nat /\ q \in (j + 1)..b
      BY <1>0, <1>1, <2>1 DEF b
    <3>1. q \in 1..n /\ q < i
      BY ONLY <3>0
    <3> QED BY <1>4, <3>1
  <2>5. f[b].exists
    BY <1>1, <2>1, <2>3, <2>4, Stretch DEF f
  <2> QED BY <1>2, <2>5
<1>6. \A j \in 1..b : k \notin ops[j].ids
  <2> TAKE j \in 1..b
  <2>1. j \in 1..n /\ j < i
    BY <1>0, <1>1 DEF b
  <2> QED BY <1>5, <2>1
<1>7. f[b] = f[0]
  <2>1. 0 \in Nat /\ 0 <= b /\ b <= Len(ops) /\ \A j \in (0 + 1)..b : k \notin ops[j].ids
    BY <1>1, <1>6 DEF n
  <2> QED BY <1>1, <2>1, Stretch DEF f
<1> QED BY <1>2, <1>3, <1>6, <1>7 DEF x, b

(* What is left of a batch keeps it.                                        *)
LEMMA FreshKept ==
  ASSUME NEW rows, NEW s \in Seq(Op), NEW t \in Seq(Op), NEW h \in [1..Len(t) -> 1..Len(s)],
         \A i, m \in 1..Len(t) : i < m => h[i] < h[m],
         \A i \in 1..Len(t) : SameShape(t[i], s[h[i]]),
         FreshInserts(rows, s)
  PROVE  FreshInserts(rows, t)
<1> DEFINE n == Len(t)
<1>1. n \in Nat /\ Len(s) \in Nat
  OBVIOUS
<1>2. \A i \in 1..n : t[i].type = s[h[i]].type /\ t[i].ids = s[h[i]].ids /\ h[i] \in 1..Len(s)
  BY DEF SameShape
<1> HIDE DEF n
<1> SUFFICES ASSUME NEW i \in 1..n, t[i].type = "insert", NEW k \in t[i].ids
             PROVE  ~rows[k].exists /\ \A j \in 1..(i - 1) : k \notin t[j].ids
  BY DEF FreshInserts, n
<1>3. ~rows[k].exists /\ \A j \in 1..(h[i] - 1) : k \notin s[j].ids
  BY <1>2 DEF FreshInserts
<1>4. ASSUME NEW j \in 1..(i - 1)
      PROVE  k \notin t[j].ids
  <2>1. j \in 1..n /\ j < i
    BY <1>1
  <2>2. h[j] < h[i]
    BY <2>1 DEF n
  <2>3. h[j] \in 1..(h[i] - 1)
    BY <1>1, <1>2, <2>1, <2>2
  <2> QED BY <1>2, <1>3, <2>1, <2>3
<1> QED BY <1>3, <1>4

(* The rows after each push, the last of which are what the client means.   *)
LEMMA RowsAre ==
  ASSUME TypeOK
  PROVE  \A k \in Keys : /\ \A i \in 0..Len(pushed) : RowAt(k, i) \in Clean
                         /\ RowAt(k, 0) = NoRow /\ After(k, NoRow, pushed) = RowAt(k, Len(pushed))
                         /\ InOrder[k] = RowAt(k, Len(pushed))
<1>1. pushed \in Seq(Op) /\ NoRow \in Clean
  BY NoRowClean DEF TypeOK
<1> DEFINE rows == [k \in Keys |-> NoRow]
<1>2. rows \in Tables /\ \A k \in Keys : rows[k] = NoRow
  BY <1>1 DEF Tables
<1>3. InOrder = Executed(rows, pushed)[1]
  BY DEF InOrder
<1> HIDE DEF rows
<1>4. \A k \in Keys : Executed(rows, pushed)[1][k] = After(k, rows[k], pushed)
  BY <1>1, <1>2, ExecutedRows
<1>5. ASSUME NEW k \in Keys
      PROVE  /\ \A i \in 0..Len(pushed) : RowAt(k, i) \in Clean
             /\ RowAt(k, 0) = NoRow /\ After(k, NoRow, pushed) = RowAt(k, Len(pushed))
  <2>1. Trail(k, NoRow, pushed) \in [0..Len(pushed) -> Clean] /\ Trail(k, NoRow, pushed)[0] = NoRow
    BY <1>1, TrailIs
  <2> QED BY <2>1 DEF RowAt, After
<1> QED BY <1>2, <1>3, <1>4, <1>5

(* The active buffer holds the last operations as they were pushed.         *)
LEMMA ActiveIs ==
  ASSUME TypeOK, BuffersInOrder, ObjectsKept
  PROVE  /\ Contents(active) \in Seq(Op) /\ Len(Contents(active)) = Len(active) /\ Len(active) \in Nat
         /\ \A i \in 1..Len(active) : Contents(active)[i] = pushed[Flushed + i]
<1> DEFINE D == DOMAIN objects
<1> DEFINE n == Len(pushed)
<1> DEFINE t == Contents(active)
<1> DEFINE u == Ops(objects, active)
<1>1. objects \in [D -> Op] /\ active \in Seq(D) /\ t = u
  BY StateIs
<1>2. /\ Flushed \in Nat /\ Flushed + Len(active) = n /\ n \in Nat /\ D = 1..n
      /\ Len(active) \in Nat
  BY StateIs
<1> HIDE DEF D, n, t, u
<1>3. u \in Seq(Op) /\ Len(u) = Len(active) /\ \A i \in 1..Len(active) : u[i] = objects[active[i]]
  BY ONLY <1>1, OfIs DEF u
<1>4. ASSUME NEW i \in 1..Len(active)
      PROVE  objects[active[i]] = pushed[Flushed + i]
  <2>1. Flushed + i \in D /\ Flushed + i > Flushed
    BY ONLY <1>2, i \in 1..Len(active)
  <2>2. active[i] = Flushed + i
    BY DEF BuffersInOrder
  <2> QED BY <2>1, <2>2 DEF ObjectsKept, D
<1> QED BY <1>1, <1>2, <1>3, <1>4 DEF t

(* The active buffer leads from the rows flushed to the rows meant.         *)
LEMMA RowsOfActive ==
  ASSUME TypeOK, BuffersInOrder, ObjectsKept, NEW k \in Keys
  PROVE  \A i \in 0..Len(active) : Trail(k, RowAt(k, Flushed), Contents(active))[i] = RowAt(k, Flushed + i)
<1> DEFINE t == Contents(active)
<1> DEFINE a == Flushed
<1> DEFINE y == RowAt(k, a)
<1>1. /\ pushed \in Seq(Op) /\ a \in Nat /\ a + Len(active) = Len(pushed) /\ Len(active) \in Nat
  BY StateIs
<1>2. t \in Seq(Op) /\ Len(t) = Len(active) /\ \A i \in 1..Len(t) : t[i] = pushed[a + i]
  BY ActiveIs
<1> HIDE DEF t
<1>4. NoRow \in Clean /\ y \in Clean /\ y = Trail(k, NoRow, pushed)[a]
  <2>1. a \in 0..Len(pushed)
    BY <1>1
  <2> QED BY <2>1, RowsAre, NoRowClean DEF RowAt
<1> HIDE DEF a, y
<1>5. \A i \in 0..Len(t) : Trail(k, NoRow, pushed)[a + i] = Trail(k, y, t)[i]
  <2>1. PartFrom(pushed, a, t)
    BY <1>1, <1>2 DEF PartFrom
  <2> QED BY <1>1, <1>2, <1>4, <2>1, TrailFrom
<1> QED BY <1>2, <1>5 DEF RowAt, y, a, t

(* The pool begins with no rows and empty buffers.                          *)
THEOREM BatchBegins == BatchInit => BatchInvariant
<1> SUFFICES ASSUME BatchInit
             PROVE  BatchInvariant
  OBVIOUS
<1> USE DEF BatchInit
<1>1. disk \in Tables
  BY NoRowClean DEF Tables
<1>2. TypeOK
  <2>1. disk \in [Keys -> Row]
    BY <1>1 DEF Tables, Clean
  <2>2. overrun \in BOOLEAN
    BY Zenon
  <2>3. disk \in [Keys -> Row] /\ phase = "idle" /\ busy \in 0..MaxBusy
    BY <2>1, TableBatchAssumption
  <2>4. /\ pushed \in Seq(Op) /\ objects \in Seq(Op) /\ Len(objects) = Len(pushed)
        /\ \A refs \in {active, inflight, batch} : refs \in Seq(DOMAIN objects)
    OBVIOUS
  <2> QED BY ONLY <2>2, <2>3, <2>4 DEF TypeOK
<1>3. BuffersInOrder
  BY <1>1 DEF BuffersInOrder
<1>4. Flushed = 0 /\ Settled = 0 /\ Len(pushed) = 0 /\ Len(inflight) = 0 /\ DOMAIN pushed = {} /\ DOMAIN objects = {}
  <2>1. Len(pushed) = 0 /\ Len(inflight) = 0 /\ Len(active) = 0
    OBVIOUS
  <2>2. DOMAIN pushed = {} /\ DOMAIN objects = {}
    OBVIOUS
  <2> QED BY ONLY <2>1, <2>2 DEF Flushed, Settled
<1>5. ObjectsKept
  BY <1>4 DEF ObjectsKept, Keyed
<1>6. Contents(active) = <<>> /\ Contents(inflight) = <<>>
  BY DEF Contents
<1>7. OrderKept
  BY <1>4, <1>6 DEF OrderKept, Phased
<1>8. Waiting
  <2>1. FreshInserts(disk, <<>>)
    BY DEF FreshInserts
  <2>2. ASSUME NEW k \in Keys
        PROVE  disk[k] = RowAt(k, 0) /\ After(k, disk[k], <<>>) = RowAt(k, 0)
    <3>1. disk[k] = NoRow /\ RowAt(k, 0) = NoRow
      BY <1>2, RowsAre
    <3> QED BY <3>1, NoRowClean, AfterNone
  <2> QED BY <1>4, <1>6, <2>1, <2>2 DEF Waiting
<1> QED BY <1>2, <1>3, <1>5, <1>7, <1>8 DEF BatchInvariant, Exact, DiskKept

-----------------------------------------------------------------------------
(* The actions                                                              *)

(* A push leaves the other operations alone.                                *)
LEMMA OfAppend ==
  ASSUME NEW s \in Seq(Op), NEW write \in Op, NEW refs \in Seq(DOMAIN s)
  PROVE  /\ Ops(Append(s, write), refs) = Ops(s, refs)
         /\ Ops(Append(s, write), Append(refs, Len(s) + 1)) = Append(Ops(s, refs), write)
<1>1. /\ Append(s, write) \in Seq(Op) /\ Append(s, write)[Len(s) + 1] = write /\ Len(s) \in Nat
      /\ \A i \in DOMAIN s : Append(s, write)[i] = s[i]
  OBVIOUS
<1>2. \A i \in DOMAIN refs : refs[i] \in DOMAIN s
  OBVIOUS
<1>3. Ops(Append(s, write), refs) = Ops(s, refs)
  BY <1>1, <1>2 DEF Ops
<1>4. Ops(Append(s, write), Append(refs, Len(s) + 1)) = Append(Ops(s, refs), write)
  <2> DEFINE n == Len(refs)
  <2> DEFINE t == Append(refs, Len(s) + 1)
  <2> DEFINE a == Ops(Append(s, write), t)
  <2> DEFINE b == Append(Ops(s, refs), write)
  <2>1. n \in Nat /\ DOMAIN refs = 1..n /\ DOMAIN t = 1..(n + 1) /\ t[n + 1] = Len(s) + 1
        /\ \A i \in 1..n : t[i] = refs[i]
    OBVIOUS
  <2>2. a = [i \in 1..(n + 1) |-> Append(s, write)[t[i]]]
    BY <2>1 DEF Ops
  <2>3. Ops(s, refs) \in Seq(Op) /\ Len(Ops(s, refs)) = n /\ \A i \in 1..n : Ops(s, refs)[i] = s[refs[i]]
    <3> DEFINE D == DOMAIN s
    <3>1. s \in [D -> Op] /\ refs \in Seq(D)
      OBVIOUS
    <3> HIDE DEF D
    <3> QED BY <3>1, OfIs
  <2>4. b = [i \in 1..(n + 1) |-> IF i = n + 1 THEN write ELSE s[refs[i]]]
    <3> DEFINE u == Ops(s, refs)
    <3>1. u \in Seq(Op) /\ Len(u) = n /\ \A i \in 1..n : u[i] = s[refs[i]]
      BY <2>3
    <3> HIDE DEF n, u
    <3>2. /\ Append(u, write) \in Seq(Op) /\ Len(Append(u, write)) = n + 1 /\ Append(u, write)[n + 1] = write
          /\ \A i \in 1..n : Append(u, write)[i] = s[refs[i]]
      BY <3>1, <2>1
    <3>3. Append(u, write) = [i \in 1..(n + 1) |-> Append(u, write)[i]]
      <4> DEFINE w == Append(u, write)
      <4>1. w \in Seq(Op) /\ Len(w) = n + 1
        BY <3>2
      <4> HIDE DEF w
      <4>2. w \in [1..(n + 1) -> Op]
        BY ONLY <4>1
      <4>3. w = [i \in 1..(n + 1) |-> w[i]]
        BY ONLY <4>2
      <4> QED BY <4>3 DEF w
    <3>4. \A i \in 1..(n + 1) : i = n + 1 \/ i \in 1..n
      BY <2>1
    <3> QED BY <3>2, <3>3, <3>4 DEF u
  <2>5. \A i \in 1..(n + 1) : Append(s, write)[t[i]] = IF i = n + 1 THEN write ELSE s[refs[i]]
    <3> TAKE i \in 1..(n + 1)
    <3>1. CASE i = n + 1
      BY <1>1, <2>1, <3>1
    <3>2. CASE i # n + 1
      <4>1. i \in 1..n /\ refs[i] \in DOMAIN s
        BY <1>2, <2>1, <3>2
      <4> QED BY <1>1, <2>1, <3>2, <4>1
    <3> QED BY <3>1, <3>2
  <2> HIDE DEF n, t, a, b
  <2>6. a = b
    BY <2>2, <2>4, <2>5
  <2> QED BY <2>6 DEF a, b, t
<1> QED BY <1>3, <1>4

(* What a push does not touch.                                              *)
LEMMA PushKeepsDisk ==
  ASSUME TypeOK, BuffersInOrder, NEW write \in Op, pushed' = Append(pushed, write), objects' = Append(objects, write),
         Flushed' = Flushed, Settled' = Settled,
         UNCHANGED <<disk, inflight, batch, phase, busy>>, DiskKept
  PROVE  DiskKept'
<1>0. /\ objects \in Seq(Op) /\ pushed \in Seq(Op) /\ Len(pushed) \in Nat /\ DOMAIN objects = 1..Len(pushed)
      /\ inflight \in Seq(DOMAIN objects) /\ batch \in Seq(DOMAIN objects)
      /\ Flushed \in 0..Len(pushed) /\ Settled \in 0..Len(pushed)
  BY StateIs
<1>1. Contents(inflight)' = Contents(inflight) /\ Contents(batch)' = Contents(batch)
  <2>1. /\ Ops(objects', inflight) = Ops(objects, inflight) /\ Ops(objects', batch) = Ops(objects, batch)
    BY <1>0, OfAppend
  <2> QED BY <2>1 DEF Ops, Contents
<1>2. \A k \in Keys : RowAt(k, Flushed)' = RowAt(k, Flushed) /\ RowAt(k, Settled)' = RowAt(k, Settled)
  <2>1. \A k \in Keys : \A i \in 0..Len(pushed) : Trail(k, NoRow, pushed')[i] = Trail(k, NoRow, pushed)[i]
    BY <1>0, AfterAppend, NoRowClean
  <2> QED BY <1>0, <2>1 DEF RowAt
<1>3. \A r \in DOMAIN objects : objects'[r] = objects[r]
  BY <1>0
<1>4. \A i \in 1..Len(inflight) : objects'[inflight[i]] = objects[inflight[i]]
  <2>1. \A i \in 1..Len(inflight) : inflight[i] \in DOMAIN objects
    BY <1>0
  <2> QED BY <1>3, <2>1
<1>5. Waiting => Waiting'
  BY <1>1, <1>2 DEF Waiting
<1>6. Taken => Taken'
  <2>1. \A p : Permutes(objects, inflight, batch, p) => Permutes(objects', inflight, batch, p)
    BY <1>4 DEF Permutes
  <2>2. Permuted(inflight, batch) => Permuted(inflight, batch)'
    BY <2>1 DEF Permuted
  <2> QED BY <1>1, <2>2 DEF Taken
<1>7. Grouped => Grouped'
  <2>1. Counting(objects, inflight)' <=> Counting(objects, inflight)
    BY <1>4 DEF Counting
  <2> QED BY <1>1, <1>2, <2>1 DEF Grouped
<1>8. Written => Written'
  BY <1>1, <1>2, <1>4 DEF Written
<1> QED BY <1>5, <1>6, <1>7, <1>8 DEF DiskKept

(* A push of an orderly client, which inserts only rows that are not there. *)
LEMMA PushExact ==
  ASSUME TypeOK, BuffersInOrder, Exact, Orderly, NEW write \in Writes, Push(write)
  PROVE  Exact'
<1> DEFINE n == Len(pushed)
<1>0. /\ objects \in Seq(Op) /\ pushed \in Seq(Op) /\ n \in Nat /\ Len(objects) = n
      /\ DOMAIN objects = 1..n /\ DOMAIN pushed = 1..n
      /\ active \in Seq(DOMAIN objects) /\ Len(active) \in Nat /\ Len(inflight) \in Nat
      /\ Flushed \in Nat /\ Flushed <= n
  BY StateIs
<1>1. /\ write \in Op /\ pushed' = Append(pushed, write) /\ objects' = Append(objects, write)
      /\ UNCHANGED <<disk, inflight, batch, phase, busy>>
      /\ write.type = "insert" => \A k \in write.ids : ~InOrder[k].exists
      /\ Phased(Append(Contents(active), write))
  BY TableBatchAssumption DEF Push
<1>2. Len(objects') = n + 1 /\ Len(pushed') = n + 1 /\ active' = Append(active, n + 1) /\ Len(active') = Len(active) + 1
  BY <1>0, <1>1 DEF Push
<1>3. Flushed' = Flushed /\ Settled' = Settled
  BY <1>0, <1>1, <1>2 DEF Flushed, Settled
<1>4. /\ DOMAIN objects' = 1..(n + 1) /\ DOMAIN pushed' = 1..(n + 1)
      /\ objects'[n + 1] = write /\ pushed'[n + 1] = write
      /\ \A r \in 1..n : objects'[r] = objects[r] /\ pushed'[r] = pushed[r]
      /\ \A r \in 1..(n + 1) : r = n + 1 \/ r \in 1..n
  BY <1>0, <1>1
<1> HIDE DEF n
<1>5. ObjectsKept'
  <2>1. \A r \in DOMAIN objects' :
          /\ SameShape(objects'[r], pushed'[r])
          /\ r > Flushed' => objects'[r] = pushed'[r]
          /\ objects'[r].type = "insert" => objects'[r].num.kind # "inc"
    <3> TAKE r \in DOMAIN objects'
    <3>1. CASE r = n + 1
      BY <1>4, <3>1, TableBatchAssumption DEF SameShape
    <3>2. CASE r \in 1..n
      <4>1. /\ SameShape(objects[r], pushed[r])
            /\ r > Flushed => objects[r] = pushed[r]
            /\ objects[r].type = "insert" => objects[r].num.kind # "inc"
        BY <1>0, <3>2 DEF Exact, ObjectsKept
      <4> QED BY <1>3, <1>4, <3>2, <4>1
    <3> QED BY <1>4, <3>1, <3>2
  <2>2. \A r \in DOMAIN objects' :
          objects'[r].eq => objects'[r].type = "update" /\ \E k \in Keys : objects'[r].ids = {k}
    <3> TAKE r \in DOMAIN objects'
    <3>1. CASE r = n + 1
      BY <1>4, <3>1, TableBatchAssumption
    <3>2. CASE r \in 1..n
      BY <1>0, <1>4, <3>2 DEF Exact, ObjectsKept, Keyed
    <3> QED BY <1>4, <3>1, <3>2
  <2>3. (\E r \in DOMAIN objects' : objects'[r].num.kind = "inc")
          => \E r \in DOMAIN pushed' : pushed'[r].num.kind = "inc"
    <3> SUFFICES ASSUME NEW r \in DOMAIN objects', objects'[r].num.kind = "inc"
                 PROVE  \E q \in DOMAIN pushed' : pushed'[q].num.kind = "inc"
      OBVIOUS
    <3>1. CASE r = n + 1
      BY <1>4, <3>1
    <3>2. CASE r \in 1..n
      <4>1. \E q \in DOMAIN pushed : pushed[q].num.kind = "inc"
        BY <1>0, <1>4, <3>2 DEF Exact, ObjectsKept
      <4>2. PICK q \in 1..n : pushed[q].num.kind = "inc"
        BY <1>0, <4>1
      <4>3. q \in DOMAIN pushed' /\ pushed'[q].num.kind = "inc"
        BY <1>0, <1>4, <4>2
      <4> QED BY <4>3
    <3> QED BY <1>4, <3>1, <3>2
  <2> QED BY <2>1, <2>2, <2>3 DEF ObjectsKept, Keyed
<1>6. OrderKept'
  <2>1. Contents(active)' = Append(Contents(active), write)
    <3>1. Ops(objects', active') = Append(Ops(objects, active), write)
      BY <1>0, <1>1, <1>2, OfAppend
    <3> QED BY <3>1 DEF Ops, Contents
  <2>2. Contents(inflight)' = Contents(inflight)
    <3>1. inflight \in Seq(DOMAIN objects)
      BY StateIs
    <3>2. Ops(objects', inflight) = Ops(objects, inflight)
      BY <1>0, <1>1, <3>1, OfAppend
    <3> QED BY <1>1, <3>2 DEF Ops, Contents
  <2>3. \A r \in DOMAIN pushed' : pushed'[r].type = "insert" =>
          \A k \in pushed'[r].ids : ~Trail(k, NoRow, pushed')[r - 1].exists
    <3> SUFFICES ASSUME NEW r \in DOMAIN pushed', pushed'[r].type = "insert", NEW k \in pushed'[r].ids
                 PROVE  ~Trail(k, NoRow, pushed')[r - 1].exists
      OBVIOUS
    <3>1. k \in Keys /\ r - 1 \in 0..n
      <4>1. pushed'[r] \in Op
        BY <1>0, <1>1, <1>4
      <4>2. r - 1 \in 0..n
        BY <1>0, <1>4
      <4> QED BY <4>1, <4>2, OpIs
    <3>2. Trail(k, NoRow, pushed')[r - 1] = Trail(k, NoRow, pushed)[r - 1]
      BY <1>0, <1>1, <3>1, AfterAppend, NoRowClean DEF n
    <3>3. CASE r = n + 1
      <4>1. r - 1 = n /\ InOrder[k] = Trail(k, NoRow, pushed)[n]
        BY <1>0, <3>1, <3>3, RowsAre DEF RowAt, n
      <4> QED BY <1>1, <1>4, <3>2, <3>3, <4>1
    <3>4. CASE r \in 1..n
      BY <1>0, <1>4, <3>2, <3>4 DEF Exact, OrderKept, RowAt
    <3> QED BY <1>4, <3>3, <3>4
  <2> QED BY <1>1, <2>1, <2>2, <2>3 DEF Exact, OrderKept, RowAt
<1>7. DiskKept'
  BY <1>1, <1>3, PushKeepsDisk DEF Exact
<1> QED BY <1>5, <1>6, <1>7 DEF Exact

(* flush() swaps the buffers, with no batch left behind, and sorts its batch. *)
LEMMA SwapExact ==
  ASSUME TypeOK, BuffersInOrder, Exact, Swap, inflight = <<>>
  PROVE  Exact'
<1> DEFINE n == Len(pushed)
<1> DEFINE ops == Contents(active)
<1>0. /\ objects \in Seq(Op) /\ objects \in [DOMAIN objects -> Op] /\ pushed \in Seq(Op) /\ n \in Nat
      /\ DOMAIN objects = 1..n /\ DOMAIN pushed = 1..n /\ active \in Seq(DOMAIN objects) /\ Len(active) \in Nat
      /\ Flushed \in Nat /\ Flushed + Len(active) = n /\ Settled + Len(inflight) = Flushed /\ Settled \in Nat
      /\ Increasing(active) /\ ops = Ops(objects, active) /\ Contents(Sorted(active)) = Ops(objects, Sorted(active))
  BY StateIs
<1>1. /\ phase = "idle" /\ phase' = "exec" /\ inflight = <<>> /\ inflight' = active /\ active' = <<>>
      /\ batch' = Sorted(active) /\ UNCHANGED <<disk, pushed, objects, busy>>
  BY DEF Swap
<1>2. Flushed' = n /\ Settled' = Flushed /\ Settled = Flushed
  <2>1. Len(inflight) = 0 /\ Len(active') = 0
    BY <1>1
  <2> QED BY <1>0, <1>1, <2>1 DEF Flushed, Settled
<1>3. Contents(active)' = <<>> /\ Contents(inflight)' = ops /\ Contents(batch)' = Contents(Sorted(active))
  BY <1>1 DEF Contents
<1>4. ops \in Seq(Op) /\ Len(ops) = Len(active) /\ \A i \in 1..Len(active) : ops[i] = pushed[Flushed + i]
  BY ActiveIs DEF Exact
<1>5. Phased(ops) /\ Keyed(objects) /\ Waiting
  BY <1>1 DEF Exact, OrderKept, ObjectsKept, DiskKept
<1>6. disk \in Tables /\ \A k \in Keys : disk[k] = RowAt(k, Flushed) /\ disk[k] \in Clean
  <2>1. disk \in Tables
    BY DEF BuffersInOrder
  <2> QED BY <1>2, <1>5, <2>1 DEF Waiting, Tables
<1>7. \A k \in Keys : \A i \in 0..Len(active) : Trail(k, disk[k], ops)[i] = RowAt(k, Flushed + i)
  BY <1>6, RowsOfActive DEF Exact
<1> HIDE DEF n, ops
<1>8. FreshInserts(disk, ops)
  <2> SUFFICES ASSUME NEW i \in 1..Len(ops), ops[i].type = "insert", NEW k \in ops[i].ids
               PROVE  ~Trail(k, disk[k], ops)[i - 1].exists
    BY <1>4, <1>5, <1>6, FreshWhenPhased
  <2>1. i \in 1..Len(active) /\ i - 1 \in 0..Len(active) /\ Flushed + i \in 1..n /\ Flushed + (i - 1) = (Flushed + i) - 1
    <3>1. /\ Flushed \in Nat /\ Flushed + Len(active) = n /\ n \in Nat /\ Len(active) \in Nat
          /\ i \in 1..Len(active)
      BY <1>0, <1>4
    <3> QED BY ONLY <3>1
  <2>2. ops[i] \in Op /\ k \in Keys
    <3>1. ops[i] \in Op
      BY <1>4
    <3> QED BY <3>1, OpIs
  <2>3. pushed[Flushed + i].type = "insert" /\ k \in pushed[Flushed + i].ids
    BY <1>4, <2>1
  <2>4. ~RowAt(k, (Flushed + i) - 1).exists
    BY <1>0, <2>1, <2>3 DEF Exact, OrderKept
  <2> QED BY <1>7, <2>1, <2>2, <2>4
<1>9. ASSUME NEW k \in Keys
      PROVE  disk[k] = RowAt(k, Flushed) /\ After(k, disk[k], ops) = RowAt(k, n)
  <2>1. Len(active) \in 0..Len(active)
    BY <1>0
  <2> QED BY <1>0, <1>4, <1>6, <1>7, <2>1 DEF After
<1>10. Waiting'
  <2>1. \A k \in Keys : RowAt(k, n)' = RowAt(k, n) /\ RowAt(k, Flushed)' = Trail(k, NoRow, pushed')[Flushed']
    BY <1>1 DEF RowAt, n
  <2>2. \A k \in Keys : RowAt(k, Settled)' = RowAt(k, Flushed) /\ RowAt(k, Flushed)' = RowAt(k, n)
    BY <1>1, <1>2 DEF RowAt
  <2> QED BY <1>1, <1>3, <1>8, <1>9, <2>2 DEF Waiting
<1>11. Taken'
  <2>1. Phased(Ops(objects, Sorted(active))) /\ \E p : Permutes(objects, active, Sorted(active), p)
    BY <1>0, <1>5, SortedRearranges
  <2>2. PICK p : Permutes(objects, active, Sorted(active), p)
    BY <2>1
  <2>3. p \in [1..(Len(active) + 1) -> 1..(Len(active) + 1)]
    BY <2>2 DEF Permutes
  <2>4. Permuted(inflight, batch)'
    BY <1>1, <2>2, <2>3 DEF Permuted
  <2>5. Distinct(Sorted(active))
    BY <1>0, DistinctBuffers, SortedIs
  <2> QED BY <1>0, <1>1, <1>3, <2>1, <2>4, <2>5 DEF Taken
<1>12. ObjectsKept'
  <2>1. \A r \in DOMAIN objects : ~(r > Flushed')
    BY <1>0, <1>2
  <2> QED BY <1>1, <2>1 DEF Exact, ObjectsKept, Keyed
<1>13. OrderKept'
  <2>1. Phased(<<>>)
    BY DEF Phased
  <2> QED BY <1>1, <1>3, <1>5, <2>1 DEF Exact, OrderKept, RowAt
<1> QED BY <1>1, <1>10, <1>11, <1>12, <1>13 DEF Exact, DiskKept

(* flush() takes the batch that BUSY left behind.                           *)
LEMMA TakeInFlightExact ==
  ASSUME TypeOK, BuffersInOrder, Exact, TakeInFlight
  PROVE  Exact'
<1>1. /\ phase = "idle" /\ phase' = "exec" /\ batch' = inflight
      /\ UNCHANGED <<disk, pushed, objects, active, inflight, busy>>
  BY DEF TakeInFlight
<1>2. Flushed' = Flushed /\ Settled' = Settled /\ Contents(active)' = Contents(active)
      /\ Contents(inflight)' = Contents(inflight) /\ Contents(batch)' = Contents(inflight)
  BY <1>1 DEF Flushed, Settled, Contents
<1>3. \A k \in Keys : RowAt(k, Flushed)' = RowAt(k, Flushed) /\ RowAt(k, Settled)' = RowAt(k, Settled)
  BY <1>1, <1>2 DEF RowAt
<1>4. Waiting'
  BY <1>1, <1>2, <1>3 DEF Exact, DiskKept, Waiting
<1>5. Taken'
  <2> DEFINE n == Len(inflight)
  <2> DEFINE p == [i \in 1..(n + 1) |-> i]
  <2>1. n \in Nat
    BY StateIs
  <2>2. Permutes(objects, inflight, inflight, p) /\ p \in [1..(n + 1) -> 1..(n + 1)]
    <3> HIDE DEF n
    <3>1. /\ p \in [1..(n + 1) -> 1..(n + 1)] /\ p[n + 1] = n + 1
          /\ \A i \in 1..n : p[i] = i /\ i <= n
      BY <2>1
    <3> HIDE DEF p
    <3>2. \A j \in 1..n : \E i \in 1..n : p[i] = j
      BY <3>1
    <3>3. \A i, j \in 1..n : i < j => p[i] < p[j]
      BY <3>1
    <3>4. \A i \in 1..n : p[i] <= n /\ inflight[p[i]] = inflight[i]
      BY <3>1
    <3> QED BY <3>1, <3>2, <3>3, <3>4 DEF Permutes, n
  <2>3. Permuted(inflight, batch)'
    <3> HIDE DEF p
    <3> QED BY <1>1, <2>2 DEF Permuted
  <2> QED BY <1>1, <1>2, <2>3, DistinctBuffers DEF Taken, Exact, OrderKept
<1>6. ObjectsKept' /\ OrderKept'
  BY <1>1, <1>2 DEF Exact, ObjectsKept, OrderKept, Keyed, RowAt
<1> QED BY <1>1, <1>4, <1>5, <1>6 DEF Exact, DiskKept

(* BUSY: what groupOps merged does the same again, but for increments.      *)
LEMMA BusyExact ==
  ASSUME TypeOK, BuffersInOrder, Exact, Busy, ~RetriedIncrement'
  PROVE  Exact'
<1>1. /\ phase \in {"exec", "grouped"} /\ phase' = "idle" /\ busy' = busy + 1
      /\ UNCHANGED <<disk, pushed, objects, active, inflight>>
  BY DEF Busy
<1>2. Flushed' = Flushed /\ Settled' = Settled /\ Contents(active)' = Contents(active)
      /\ Contents(inflight)' = Contents(inflight)
  BY <1>1 DEF Flushed, Settled, Contents
<1>3. \A k \in Keys : RowAt(k, Flushed)' = RowAt(k, Flushed) /\ RowAt(k, Settled)' = RowAt(k, Settled)
  BY <1>1, <1>2 DEF RowAt
<1>4. ~Counting(objects, inflight)
  <2>1. ~\E r \in DOMAIN pushed : pushed[r].num.kind = "inc"
    <3>1. busy' > 0
      BY <1>1 DEF TypeOK
    <3> QED BY <1>1, <3>1 DEF RetriedIncrement
  <2>2. ~\E r \in DOMAIN objects : objects[r].num.kind = "inc"
    BY <2>1 DEF Exact, ObjectsKept
  <2>3. \A i \in 1..Len(inflight) : inflight[i] \in DOMAIN objects
    BY DEF TypeOK
  <2> QED BY <2>2, <2>3 DEF Counting
<1>5. Waiting
  BY <1>1, <1>4 DEF Exact, DiskKept, Grouped, Waiting
<1>6. Waiting'
  BY <1>1, <1>2, <1>3, <1>5 DEF Waiting
<1>7. ObjectsKept' /\ OrderKept'
  BY <1>1, <1>2 DEF Exact, ObjectsKept, OrderKept, Keyed, RowAt
<1> QED BY <1>1, <1>6, <1>7 DEF Exact, DiskKept

(* The batch is on disk and leaves the buffer.                              *)
LEMMA ClearExact ==
  ASSUME TypeOK, BuffersInOrder, Exact, Clear
  PROVE  Exact'
<1>1. /\ phase = "written" /\ phase' = "idle" /\ inflight' = <<>>
      /\ UNCHANGED <<disk, pushed, objects, active, batch, busy>>
  BY DEF Clear
<1>2. /\ Flushed' = Flushed /\ Settled' = Flushed
      /\ Contents(active)' = Contents(active) /\ Contents(inflight)' = <<>>
  <2>1. Len(inflight') = 0 /\ Flushed \in Nat
    BY <1>1, StateIs
  <2>2. Flushed' = Flushed
    BY <1>1 DEF Flushed
  <2>3. Settled' = Flushed' - Len(inflight')
    BY DEF Settled, Flushed
  <2>4. Contents(active)' = Contents(active) /\ Contents(inflight)' = <<>>
    BY <1>1 DEF Contents
  <2> QED BY <2>1, <2>2, <2>3, <2>4
<1>3. \A k \in Keys : RowAt(k, Flushed)' = RowAt(k, Flushed) /\ RowAt(k, Settled)' = RowAt(k, Flushed)
  BY <1>1, <1>2 DEF RowAt
<1>4. Waiting'
  <2>1. FreshInserts(disk, <<>>)
    BY DEF FreshInserts
  <2>2. ASSUME NEW k \in Keys
        PROVE  disk[k] = RowAt(k, Flushed) /\ After(k, disk[k], <<>>) = disk[k]
    <3>1. disk[k] \in Clean
      BY DEF BuffersInOrder, Tables
    <3> QED BY <1>1, <3>1, AfterNone DEF Exact, DiskKept, Written
  <2> QED BY <1>1, <1>2, <1>3, <2>1, <2>2 DEF Waiting
<1>5. ObjectsKept' /\ OrderKept'
  <2>1. Phased(<<>>)
    BY DEF Phased
  <2> QED BY <1>1, <1>2, <2>1 DEF Exact, ObjectsKept, OrderKept, Keyed, RowAt
<1> QED BY <1>1, <1>4, <1>5 DEF Exact, DiskKept

(* Whether operations are phased is a matter of their shapes.               *)
LEMMA PhasedOf ==
  ASSUME NEW D, NEW objs \in [D -> Op], NEW objs2 \in [D -> Op], NEW refs \in Seq(D),
         \A r \in D : SameShape(objs2[r], objs[r]), Phased(Ops(objs, refs))
  PROVE  Phased(Ops(objs2, refs))
<1> DEFINE s == Ops(objs, refs)
<1> DEFINE t == Ops(objs2, refs)
<1>1. s \in Seq(Op) /\ Len(s) = Len(refs) /\ \A i \in 1..Len(refs) : refs[i] \in D /\ s[i] = objs[refs[i]]
  BY OfIs, SMTT(60)
<1>2. t \in Seq(Op) /\ Len(t) = Len(refs) /\ \A i \in 1..Len(refs) : t[i] = objs2[refs[i]]
  BY OfIs
<1> HIDE DEF s, t
<1>3. \A i \in 1..Len(s) : SameShape(t[i], s[i])
  BY <1>1, <1>2
<1>4. Phased(s)
  BY DEF s
<1>5. Phased(t)
  BY ONLY <1>1, <1>2, <1>3, <1>4, PhasedAlike
<1> QED BY <1>5 DEF t

(* groupOps leaves a batch that does what was in flight.                    *)
LEMMA GroupOpsExact ==
  ASSUME TypeOK, BuffersInOrder, Exact, GroupOps
  PROVE  Exact'
<1> DEFINE D == DOMAIN objects
<1> DEFINE kept == Coalesced(batch)[1]
<1> DEFINE objs == Coalesced(batch)[2]
<1>0. /\ objects \in Seq(Op) /\ objects \in [D -> Op] /\ Len(pushed) \in Nat
      /\ D = 1..Len(pushed) /\ DOMAIN pushed = D
      /\ active \in Seq(D) /\ inflight \in Seq(D) /\ batch \in Seq(D)
      /\ Flushed \in Nat /\ Settled \in Nat /\ Settled + Len(inflight) = Flushed
      /\ Contents(batch) = Ops(objects, batch) /\ Contents(inflight) = Ops(objects, inflight)
      /\ Contents(active) = Ops(objects, active)
  BY StateIs
<1>1. /\ phase = "exec" /\ phase' = "grouped" /\ batch' = kept /\ objects' = objs
      /\ UNCHANGED <<disk, pushed, active, inflight, busy>>
  BY DEF GroupOps
<1>2. ObjectsKept /\ OrderKept /\ Waiting /\ Taken /\ Keyed(objects)
  BY <1>1 DEF Exact, DiskKept, ObjectsKept
<1>3. Distinct(batch) /\ Phased(Ops(objects, batch))
  BY <1>0, <1>2 DEF Taken
<1>4. kept \in Seq(D) /\ objs \in [D -> Op]
  BY <1>0, CoalescedTyped
<1>5. Grouping(batch, kept, objs, Len(batch))
  BY <1>0, <1>2, <1>3, CoalescedIs
<1> DEFINE same == \A i \in 1..Len(batch) : batch[i] \notin ToSet(kept) => objects[batch[i]].num.kind # "inc"
<1>6. /\ \E h : KeptAt(batch, kept, Len(batch), h)
      /\ \A r \in D : SameShape(objs[r], objects[r])
      /\ \A r \in D : r \notin ToSet(kept) \/ ~objects[r].eq => objs[r] = objects[r]
      /\ (\E r \in D : objs[r].num.kind = "inc") => \E r \in D : objects[r].num.kind = "inc"
      /\ \A k \in Keys : \A x \in Clean :
            After(k, x, Ops(objs, kept)) = Trail(k, x, Ops(objects, batch))[Len(batch)]
      /\ same => \A k \in Keys : \A x \in Clean : After(k, x, Ops(objs, batch)) = After(k, x, Ops(objects, batch))
  BY <1>5 DEF Grouping
<1> HIDE DEF kept, objs, D
<1>7. PICK h : KeptAt(batch, kept, Len(batch), h)
  BY <1>6
<1>8. PICK p : Permutes(objects, inflight, batch, p)
  BY <1>2 DEF Taken, Permuted
<1>9. /\ \A j \in 1..Len(batch) : \E i \in 1..Len(inflight) : batch[j] = inflight[i]
      /\ Len(batch) = Len(inflight)
  <2>1. /\ Len(batch) = Len(inflight)
        /\ \A i \in 1..Len(inflight) : batch[p[i]] = inflight[i]
        /\ \A j \in 1..Len(inflight) : \E i \in 1..Len(inflight) : p[i] = j
    BY <1>8 DEF Permutes
  <2> QED BY ONLY <2>1
<1>10. \A r \in ToSet(kept) : ~(r > Flushed)
  <2> TAKE r \in ToSet(kept)
  <2>1. PICK i \in 1..Len(kept) : r = kept[i]
    BY <1>4 DEF ToSet
  <2>2. h[i] \in 1..Len(batch) /\ r = batch[h[i]]
    BY <1>7, <2>1 DEF KeptAt
  <2>3. PICK q \in 1..Len(inflight) : r = inflight[q]
    BY <1>9, <2>2
  <2>4. r = Settled + q
    BY <2>3 DEF BuffersInOrder
  <2>5. Len(inflight) \in Nat
    BY <1>0
  <2> QED BY <1>0, <2>4, <2>5
<1>11. /\ Flushed' = Flushed /\ Settled' = Settled
       /\ Contents(active)' = Ops(objs, active) /\ Contents(inflight)' = Ops(objs, inflight)
       /\ Contents(batch)' = Ops(objs, kept)
  BY <1>1 DEF Flushed, Settled, Contents, Ops
<1>12. \A k \in Keys : RowAt(k, Flushed)' = RowAt(k, Flushed) /\ RowAt(k, Settled)' = RowAt(k, Settled)
  BY <1>1, <1>11 DEF RowAt
<1>13. DOMAIN objs = D
  BY <1>4
<1>14. ObjectsKept'
  <2>1. ASSUME NEW r \in D
        PROVE  /\ SameShape(objs[r], pushed[r])
               /\ r > Flushed => objs[r] = pushed[r]
               /\ objs[r].type = "insert" => objs[r].num.kind # "inc"
    <3>1. /\ SameShape(objects[r], pushed[r])
          /\ r > Flushed => objects[r] = pushed[r]
          /\ objects[r].type = "insert" => objects[r].num.kind # "inc"
          /\ objects[r].eq => objects[r].type = "update"
      BY <1>2 DEF ObjectsKept, Keyed, D
    <3>2. SameShape(objs[r], objects[r])
      BY <1>6
    <3>3. r > Flushed => objs[r] = objects[r]
      BY <1>6, <1>10
    <3>4. objs[r].type = "insert" => objs[r] = objects[r]
      BY <1>6, <3>1, <3>2 DEF SameShape
    <3> QED BY <3>1, <3>2, <3>3, <3>4 DEF SameShape
  <2>2. ASSUME NEW r \in D, objs[r].eq
        PROVE  objs[r].type = "update" /\ \E k \in Keys : objs[r].ids = {k}
    <3>1. SameShape(objs[r], objects[r])
      BY <1>6
    <3>2. objects[r].eq => objects[r].type = "update" /\ \E k \in Keys : objects[r].ids = {k}
      BY <1>2 DEF Keyed, D
    <3> QED BY <2>2, <3>1, <3>2 DEF SameShape
  <2>3. (\E r \in D : objs[r].num.kind = "inc") => \E r \in DOMAIN pushed : pushed[r].num.kind = "inc"
    BY <1>2, <1>6 DEF ObjectsKept, D
  <2> QED BY <1>1, <1>11, <1>13, <2>1, <2>2, <2>3 DEF ObjectsKept, Keyed
<1>15. OrderKept'
  <2>1. Phased(Ops(objs, active)) /\ Phased(Ops(objs, inflight))
    <3>1. Phased(Ops(objects, active)) /\ Phased(Ops(objects, inflight))
      BY <1>0, <1>2 DEF OrderKept
    <3> QED BY <1>0, <1>4, <1>6, <3>1, PhasedOf
  <2> QED BY <1>1, <1>2, <1>11, <2>1 DEF OrderKept, RowAt
<1> DEFINE s == Ops(objects, inflight)
<1> DEFINE t == Ops(objects, batch)
<1> DEFINE u == Ops(objs, kept)
<1>16. /\ s \in Seq(Op) /\ Len(s) = Len(inflight)
       /\ \A i \in 1..Len(inflight) : inflight[i] \in D /\ s[i] = objects[inflight[i]]
  <2>1. objects \in [D -> Op] /\ inflight \in Seq(D)
    BY <1>0
  <2> QED BY ONLY <2>1, OfIs
<1>17. /\ t \in Seq(Op) /\ Len(t) = Len(batch)
       /\ \A i \in 1..Len(batch) : batch[i] \in D /\ t[i] = objects[batch[i]]
  <2>1. objects \in [D -> Op] /\ batch \in Seq(D)
    BY <1>0
  <2> QED BY ONLY <2>1, OfIs
<1>18. u \in Seq(Op) /\ Len(u) = Len(kept) /\ \A i \in 1..Len(kept) : kept[i] \in D /\ u[i] = objs[kept[i]]
  BY <1>4, OfIs
<1>19. \A k \in Keys : Rearranged(k, s, t, p)
  BY <1>0, <1>8, PermutesAlike
<1>20. \A k \in Keys : Rearranged(k, Ops(objs, inflight), Ops(objs, batch), p)
  <2>1. \A r \in D : objs[r].ids = objects[r].ids
    BY <1>6 DEF SameShape
  <2> QED BY <1>0, <1>4, <1>8, <2>1, PermutesAlike
<1>21. FreshInserts(disk, s)
  BY <1>0, <1>2 DEF Waiting
<1>22. FreshInserts(disk, t)
  <2> HIDE DEF s, t
  <2> QED BY <1>16, <1>17, <1>19, <1>21, FreshRearranged
<1>23. FreshInserts(disk, u)
  <2>1. h \in [1..Len(u) -> 1..Len(t)] /\ \A i, m \in 1..Len(u) : i < m => h[i] < h[m]
    BY <1>7, <1>17, <1>18 DEF KeptAt
  <2>2. \A i \in 1..Len(u) : SameShape(u[i], t[h[i]])
    <3> TAKE i \in 1..Len(u)
    <3>1. h[i] \in 1..Len(batch) /\ kept[i] = batch[h[i]] /\ kept[i] \in D
      BY <1>7, <1>18 DEF KeptAt
    <3> QED BY <1>6, <1>17, <1>18, <3>1
  <2> HIDE DEF t, u
  <2> QED BY <1>17, <1>18, <1>22, <2>1, <2>2, FreshKept
<1>24. FreshInserts(disk, Ops(objs, inflight))
  <2> DEFINE v == Ops(objs, inflight)
  <2> DEFINE id == [i \in 1..Len(v) |-> i]
  <2>1. v \in Seq(Op) /\ Len(v) = Len(inflight) /\ \A i \in 1..Len(inflight) : v[i] = objs[inflight[i]]
    <3>1. objs \in [D -> Op] /\ inflight \in Seq(D)
      BY <1>0, <1>4
    <3> QED BY ONLY <3>1, OfIs
  <2> HIDE DEF v, s
  <2>2. id \in [1..Len(v) -> 1..Len(s)] /\ \A i, m \in 1..Len(v) : i < m => id[i] < id[m]
    BY <1>16, <2>1
  <2>3. \A i \in 1..Len(v) : SameShape(v[i], s[id[i]])
    BY <1>6, <1>16, <2>1
  <2> HIDE DEF id
  <2>4. FreshInserts(disk, v)
    BY <1>16, <1>21, <2>1, <2>2, <2>3, FreshKept
  <2> QED BY <2>4 DEF v
<1>25. ASSUME NEW k \in Keys
       PROVE  /\ disk[k] \in Clean /\ disk[k] = RowAt(k, Settled)
              /\ After(k, disk[k], u) = RowAt(k, Flushed)
              /\ ~Counting(objs, inflight) => After(k, disk[k], Ops(objs, inflight)) = RowAt(k, Flushed)
  <2>1. disk[k] \in Clean
    BY DEF BuffersInOrder, Tables
  <2>2. disk[k] = RowAt(k, Settled) /\ After(k, disk[k], s) = RowAt(k, Flushed)
    BY <1>0, <1>2 DEF Waiting
  <2>3. After(k, disk[k], t) = After(k, disk[k], s)
    <3> HIDE DEF s, t
    <3> QED BY <1>16, <1>17, <1>19, <2>1, AfterRearranged
  <2>4. After(k, disk[k], u) = After(k, disk[k], t)
    BY <1>6, <1>17, <2>1 DEF After
  <2>5. ASSUME ~Counting(objs, inflight)
        PROVE  After(k, disk[k], Ops(objs, inflight)) = RowAt(k, Flushed)
    <3>1. same
      <4> SUFFICES ASSUME NEW i \in 1..Len(batch), batch[i] \notin ToSet(kept)
                   PROVE  objects[batch[i]].num.kind # "inc"
        OBVIOUS
      <4>1. PICK q \in 1..Len(inflight) : batch[i] = inflight[q]
        BY <1>9
      <4>2. objs[inflight[q]].num.kind # "inc"
        BY <2>5 DEF Counting
      <4>3. objs[batch[i]] = objects[batch[i]]
        BY <1>6, <1>17
      <4> QED BY <4>1, <4>2, <4>3
    <3>2. After(k, disk[k], Ops(objs, batch)) = After(k, disk[k], t)
      BY <1>6, <2>1, <3>1
    <3>3. Ops(objs, inflight) \in Seq(Op) /\ Ops(objs, batch) \in Seq(Op)
      BY <1>0, <1>4, OfIs
    <3>4. After(k, disk[k], Ops(objs, batch)) = After(k, disk[k], Ops(objs, inflight))
      <4> DEFINE v == Ops(objs, inflight)
      <4> DEFINE w == Ops(objs, batch)
      <4>1. v \in Seq(Op) /\ w \in Seq(Op) /\ Rearranged(k, v, w, p)
        BY <1>20, <3>3
      <4> HIDE DEF v, w
      <4>2. After(k, disk[k], w) = After(k, disk[k], v)
        BY <2>1, <4>1, AfterRearranged
      <4> QED BY <4>2 DEF v, w
    <3> QED BY <2>2, <2>3, <3>2, <3>4
  <2> QED BY <2>1, <2>2, <2>3, <2>4, <2>5
<1>26. Grouped'
  <2>1. Counting(objects, inflight)' <=> Counting(objs, inflight)
    BY <1>1 DEF Counting
  <2> QED BY <1>1, <1>11, <1>12, <1>23, <1>24, <1>25, <2>1 DEF Grouped
<1> QED BY <1>1, <1>14, <1>15, <1>26 DEF Exact, DiskKept

(* The grouped batch commits, and the disk is as the operations meant.      *)
LEMMA ExecuteExact ==
  ASSUME TypeOK, BuffersInOrder, Exact, Execute
  PROVE  Exact'
<1> DEFINE ops == Contents(batch)
<1> DEFINE result == Executed(disk, ops)
<1> DEFINE s == Contents(inflight)
<1>0. /\ objects \in [DOMAIN objects -> Op] /\ inflight \in Seq(DOMAIN objects) /\ batch \in Seq(DOMAIN objects)
      /\ ops = Ops(objects, batch) /\ s = Ops(objects, inflight)
  BY StateIs
<1>1. ops \in Seq(Op) /\ s \in Seq(Op) /\ Len(s) = Len(inflight)
      /\ \A i \in 1..Len(inflight) : s[i] = objects[inflight[i]]
  <2> DEFINE D == DOMAIN objects
  <2>1. objects \in [D -> Op] /\ inflight \in Seq(D) /\ batch \in Seq(D)
    BY <1>0
  <2> HIDE DEF D, ops, s
  <2> QED BY <1>0, <2>1, OfIs
<1>2. /\ phase = "grouped" /\ UNCHANGED <<pushed, objects, active, busy>> /\ batch' = <<>>
      /\ result[2] => disk' = result[1] /\ phase' = "written" /\ inflight' = inflight
  BY DEF Execute
<1>3. ObjectsKept /\ OrderKept /\ Grouped
  BY <1>2 DEF Exact, DiskKept
<1>4. disk \in Tables
  BY DEF BuffersInOrder
<1>5. FreshInserts(disk, ops)
  BY <1>3 DEF Grouped
<1> HIDE DEF ops, s
<1>6. result[1] \in Tables /\ (\A k \in Keys : result[1][k] = After(k, disk[k], ops)) /\ result[2]
  BY <1>1, <1>4, <1>5, ExecutedRows
<1> HIDE DEF result
<1>7. disk' = result[1] /\ phase' = "written" /\ inflight' = inflight
  BY <1>2, <1>6
<1>8. /\ Flushed' = Flushed /\ Settled' = Settled
      /\ Contents(active)' = Contents(active) /\ Contents(inflight)' = s
  BY <1>2, <1>7 DEF Flushed, Settled, Contents, s
<1>9. \A k \in Keys : RowAt(k, Flushed)' = RowAt(k, Flushed)
  BY <1>2, <1>8 DEF RowAt
<1>10. ASSUME NEW k \in Keys
       PROVE  /\ disk'[k] = RowAt(k, Flushed)
              /\ (\A i \in 1..Len(inflight) : Repeatable(objects[inflight[i]])) => After(k, disk'[k], s) = disk'[k]
  <2>1. disk[k] \in Clean
    BY <1>4 DEF Tables
  <2>2. disk'[k] = RowAt(k, Flushed)
    BY <1>3, <1>6, <1>7 DEF Grouped, ops
  <2>3. ASSUME \A i \in 1..Len(inflight) : Repeatable(objects[inflight[i]])
        PROVE  After(k, disk'[k], s) = disk'[k]
    <3>1. ~Counting(objects, inflight)
      BY <2>3 DEF Counting, Repeatable
    <3>2. After(k, disk[k], s) = RowAt(k, Flushed)
      BY <1>3, <3>1 DEF Grouped, s
    <3>3. \A i \in 1..Len(s) : k \in s[i].ids => s[i].type # "insert" /\ s[i].num.kind # "inc"
      BY <1>1, <2>3 DEF Repeatable
    <3>4. \A i, j \in 1..Len(s) : i < j /\ k \in s[i].ids /\ k \in s[j].ids => Priority(s[i]) <= Priority(s[j])
      <4>1. Phased(s) /\ DOMAIN s = 1..Len(s)
        BY <1>1, <1>3 DEF OrderKept, s
      <4> QED BY <4>1 DEF Phased
    <3>5. After(k, After(k, disk[k], s), s) = After(k, disk[k], s)
      BY <1>1, <2>1, <3>3, <3>4, Again
    <3> QED BY <2>2, <3>2, <3>5
  <2> QED BY <2>2, <2>3
<1>11. Written'
  BY <1>2, <1>7, <1>8, <1>9, <1>10 DEF Written
<1>12. ObjectsKept' /\ OrderKept'
  BY <1>2, <1>3, <1>7, <1>8 DEF ObjectsKept, OrderKept, Keyed, RowAt, s
<1> QED BY <1>7, <1>11, <1>12 DEF Exact, DiskKept

(* The exceptions, once there, stay.                                        *)
LEMMA RetriedStays ==
  ASSUME TypeOK, RetriedIncrement, [BatchNext]_batchVars
  PROVE  RetriedIncrement'
<1>0. busy \in Nat /\ pushed \in Seq(Op) /\ busy > 0
  BY TableBatchAssumption DEF TypeOK, RetriedIncrement
<1>1. ASSUME NEW write \in Writes, Push(write)
      PROVE  RetriedIncrement'
  <2>1. write \in Op /\ pushed' = Append(pushed, write) /\ busy' = busy
    BY <1>1, TableBatchAssumption DEF Push
  <2>2. PICK i \in DOMAIN pushed : pushed[i].num.kind = "inc"
    BY DEF RetriedIncrement
  <2>3. i \in DOMAIN pushed' /\ pushed'[i] = pushed[i]
    BY <1>0, <2>1
  <2> QED BY <1>0, <2>1, <2>2, <2>3 DEF RetriedIncrement
<1>2. CASE Busy
  BY <1>0, <1>2 DEF Busy, RetriedIncrement
<1>3. CASE Swap \/ TakeInFlight \/ GroupOps \/ Execute \/ Clear \/ UNCHANGED batchVars
  BY <1>3 DEF Swap, TakeInFlight, GroupOps, Execute, Clear, batchVars, RetriedIncrement
<1> QED BY <1>1, <1>2, <1>3 DEF BatchNext

LEMMA OverrunStays ==
  ASSUME TypeOK, [BatchNext]_batchVars
  PROVE  /\ overrun => overrun'
         /\ Swap /\ inflight # <<>> => overrun'
<1>1. Swap /\ inflight # <<>> => overrun'
  BY DEF Swap
<1>2. overrun => overrun'
  BY DEF BatchNext, Push, Swap, TakeInFlight, GroupOps, Execute, Busy, Clear, batchVars
<1> QED BY <1>1, <1>2

(* Every step keeps the invariant.                                          *)
LEMMA BatchSteps ==
  ASSUME Orderly
  PROVE  BatchInvariant /\ [BatchNext]_batchVars => BatchInvariant'
<1> SUFFICES ASSUME BatchInvariant, [BatchNext]_batchVars
             PROVE  BatchInvariant'
  OBVIOUS
<1>1. TypeOK /\ BuffersInOrder
  BY DEF BatchInvariant
<1>2. TypeOK' /\ BuffersInOrder'
  BY <1>1, BatchTyped
<1>3. ASSUME ~RetriedIncrement', ~overrun'
      PROVE  Exact'
  <2>1. Exact
    BY <1>1, <1>3, RetriedStays, OverrunStays DEF BatchInvariant
  <2>2. ASSUME NEW write \in Writes, Push(write)
        PROVE  Exact'
    BY <1>1, <2>1, <2>2, PushExact
  <2>3. CASE Swap
    BY <1>1, <1>3, <2>1, <2>3, SwapExact, OverrunStays
  <2>4. CASE TakeInFlight
    BY <1>1, <2>1, <2>4, TakeInFlightExact
  <2>5. CASE GroupOps
    BY <1>1, <2>1, <2>5, GroupOpsExact
  <2>6. CASE Execute
    BY <1>1, <2>1, <2>6, ExecuteExact
  <2>7. CASE Busy
    BY <1>1, <1>3, <2>1, <2>7, BusyExact
  <2>8. CASE Clear
    BY <1>1, <2>1, <2>8, ClearExact
  <2>9. CASE UNCHANGED batchVars
    <3>1. /\ UNCHANGED <<disk, pushed, objects, active, inflight, batch, phase, busy>>
          /\ Flushed' = Flushed /\ Settled' = Settled
      BY <2>9 DEF batchVars, Flushed, Settled
    <3>2. ObjectsKept' /\ OrderKept'
      BY <2>1, <3>1 DEF Exact, ObjectsKept, OrderKept, Contents, Keyed, RowAt
    <3>3. DiskKept'
      BY <2>1, <3>1 DEF Exact, DiskKept, Waiting, Taken, Grouped, Written, Contents, Permuted, Counting, RowAt
    <3> QED BY <3>2, <3>3 DEF Exact
  <2> QED BY <2>2, <2>3, <2>4, <2>5, <2>6, <2>7, <2>8, <2>9 DEF BatchNext
<1> QED BY <1>2, <1>3 DEF BatchInvariant

(* With orderly clients the invariant holds for any keys, values, writes    *)
(* and bounds.                                                              *)
THEOREM BatchInvariantHolds ==
  ASSUME Orderly
  PROVE  BatchSpec => []BatchInvariant
<1>1. BatchInvariant /\ [BatchNext]_batchVars => BatchInvariant'
  BY BatchSteps
<1> QED BY <1>1, BatchBegins, PTL DEF BatchSpec

(* With both buffers empty all operations are settled, in their order.      *)
LEMMA InvariantKeepsOrder == BatchInvariant => FlushKeepsOrder
<1> SUFFICES ASSUME BatchInvariant, active = <<>>, inflight = <<>>, ~RetriedIncrement, ~overrun
             PROVE  disk = InOrder
  BY DEF BatchInvariant, FlushKeepsOrder
<1>1. TypeOK /\ BuffersInOrder /\ Exact
  BY DEF BatchInvariant
<1>2. Flushed = Len(pushed) /\ Settled = Len(pushed)
  <2>1. Len(active) = 0 /\ Len(inflight) = 0 /\ Len(pushed) \in Nat
    BY <1>1, StateIs
  <2> QED BY <2>1 DEF Flushed, Settled
<1>3. \A k \in Keys : disk[k] = RowAt(k, Len(pushed))
  <2>1. phase \in {"idle", "exec", "grouped", "written"}
    BY <1>1 DEF TypeOK
  <2> QED BY <1>1, <1>2, <2>1 DEF Exact, DiskKept, Waiting, Grouped, Written
<1>4. \A k \in Keys : disk[k] = InOrder[k]
  BY <1>1, <1>3, RowsAre
<1>5. disk \in Tables /\ InOrder \in Tables
  <2>1. [k \in Keys |-> NoRow] \in Tables /\ pushed \in Seq(Op)
    BY <1>1, NoRowClean DEF Tables, TypeOK
  <2> QED BY <1>1, <2>1, ExecutedRows DEF BuffersInOrder, InOrder
<1> QED BY <1>4, <1>5 DEF Tables

(* With orderly clients, once everything is flushed the disk holds what the *)
(* operations of push() mean one by one in their order, for any keys,       *)
(* values, writes and number of BUSY transactions: the sort of flush(), the *)
(* merges of groupOps and the retries are invisible, but for increments     *)
(* that a retry counted twice and a batch that the next swap lost.          *)
THEOREM FlushesKeepOrder ==
  ASSUME Orderly
  PROVE  BatchSpec => []FlushKeepsOrder
BY BatchInvariantHolds, InvariantKeepsOrder, PTL

(* The operations of two buffers, one after the other.                      *)
LEMMA OfConcat ==
  ASSUME NEW D, NEW objs \in [D -> Op], NEW refs \in Seq(D), NEW more \in Seq(D)
  PROVE  Ops(objs, refs \o more) = Ops(objs, refs) \o Ops(objs, more)
<1> DEFINE n == Len(refs)
<1> DEFINE m == Len(more)
<1> DEFINE all == refs \o more
<1> DEFINE a == Ops(objs, refs)
<1> DEFINE b == Ops(objs, more)
<1> DEFINE c == Ops(objs, all)
<1>1. n \in Nat /\ m \in Nat
  OBVIOUS
<1>2. /\ all \in Seq(D) /\ Len(all) = n + m
      /\ \A i \in 1..n : all[i] = refs[i]
      /\ \A i \in 1..m : all[n + i] = more[i]
  OBVIOUS
<1> HIDE DEF all
<1>3. a \in Seq(Op) /\ Len(a) = n /\ \A i \in 1..n : a[i] = objs[refs[i]]
  BY OfIs
<1>4. b \in Seq(Op) /\ Len(b) = m /\ \A i \in 1..m : b[i] = objs[more[i]]
  BY OfIs
<1>5. c \in Seq(Op) /\ Len(c) = n + m /\ \A i \in 1..(n + m) : c[i] = objs[all[i]]
  <2> DEFINE l == Len(all)
  <2>1. Ops(objs, all) \in Seq(Op) /\ Len(Ops(objs, all)) = l /\ \A i \in 1..l : Ops(objs, all)[i] = objs[all[i]]
    <3>1. objs \in [D -> Op] /\ all \in Seq(D)
      BY <1>2
    <3> QED BY ONLY <3>1, OfIs
  <2>2. l = n + m
    BY <1>2
  <2> HIDE DEF n, m, l
  <2> QED BY <2>1, <2>2
<1> HIDE DEF n, m, a, b, c
<1> DEFINE d == a \o b
<1>6. /\ d \in Seq(Op) /\ Len(d) = n + m
      /\ \A i \in 1..n : d[i] = a[i]
      /\ \A i \in 1..m : d[n + i] = b[i]
  <2>1. a \in Seq(Op) /\ b \in Seq(Op) /\ Len(a) = n /\ Len(b) = m
    BY <1>3, <1>4
  <2>2. /\ a \o b \in Seq(Op) /\ Len(a \o b) = Len(a) + Len(b)
        /\ \A i \in 1..Len(a) : (a \o b)[i] = a[i]
        /\ \A i \in 1..Len(b) : (a \o b)[Len(a) + i] = b[i]
    <3>1. a \in Seq(Op) /\ b \in Seq(Op)
      BY <2>1
    <3>2. a \o b \in Seq(Op) /\ Len(a \o b) = Len(a) + Len(b)
      BY ONLY <3>1
    <3>3. \A i \in 1..Len(a) : (a \o b)[i] = a[i]
      BY ONLY <3>1
    <3>4. \A i \in 1..Len(b) : (a \o b)[Len(a) + i] = b[i]
      BY ONLY <3>1
    <3> QED BY <3>2, <3>3, <3>4
  <2> QED BY <2>1, <2>2
<1> HIDE DEF d
<1>7. ASSUME NEW i \in 1..(n + m)
      PROVE  c[i] = d[i]
  <2>1. CASE i \in 1..n
    <3>1. c[i] = objs[refs[i]]
      BY <1>2, <1>5, <2>1
    <3>2. d[i] = objs[refs[i]]
      BY <1>3, <1>6, <2>1
    <3> QED BY <3>1, <3>2
  <2>2. CASE i \notin 1..n
    <3> DEFINE q == i - n
    <3>1. q \in 1..m /\ n + q = i
      BY <1>1, <2>2
    <3> HIDE DEF q
    <3>2. c[i] = objs[more[q]] /\ d[i] = objs[more[q]]
      BY <1>2, <1>4, <1>5, <1>6, <3>1
    <3> QED BY <3>2
  <2> QED BY <2>1, <2>2
<1>8. c = d
  <2> DEFINE l == n + m
  <2>0. c \in Seq(Op) /\ Len(c) = l /\ d \in Seq(Op) /\ Len(d) = l
    BY <1>5, <1>6
  <2> HIDE DEF l
  <2>1. c \in [1..l -> Op] /\ d \in [1..l -> Op]
    BY ONLY <2>0
  <2>2. \A i \in 1..l : c[i] = d[i]
    BY <1>7 DEF l
  <2>3. c = d
    <3>1. c = [i \in 1..l |-> c[i]] /\ d = [i \in 1..l |-> d[i]]
      BY ONLY <2>1
    <3> QED BY ONLY <2>2, <3>1
  <2> QED BY <2>3
<1> QED BY <1>8 DEF a, b, c, d, all

(* What a read overlays on the disk is the row as the client means it.      *)
LEMMA OverlayIsExact ==
  ASSUME BatchInvariant, ~RetriedIncrement, ~overrun, InFlightRepeatable, NEW k \in Keys, ~FreshCounter(k)
  PROVE  Select(k) = RowsOf(InOrder[k])
<1> DEFINE x == disk[k]
<1> DEFINE s == Contents(inflight)
<1> DEFINE t == Contents(active)
<1> DEFINE ops == Contents(inflight \o active)
<1>1. TypeOK /\ BuffersInOrder /\ Exact
  BY DEF BatchInvariant
<1>2. /\ objects \in [DOMAIN objects -> Op] /\ inflight \in Seq(DOMAIN objects) /\ active \in Seq(DOMAIN objects)
      /\ Len(inflight) \in Nat /\ Len(active) \in Nat /\ Len(pushed) \in Nat
      /\ DOMAIN pushed = 1..Len(pushed) /\ DOMAIN objects = 1..Len(pushed)
      /\ Flushed \in Nat /\ Flushed + Len(active) = Len(pushed) /\ s = Ops(objects, inflight)
  BY <1>1, StateIs
<1>3. x \in Clean
  BY <1>1 DEF BuffersInOrder, Tables
<1>4. /\ t \in Seq(Op) /\ Len(t) = Len(active) /\ \A i \in 1..Len(active) : t[i] = pushed[Flushed + i]
  BY <1>1, ActiveIs DEF Exact
<1>5. /\ s \in Seq(Op) /\ Len(s) = Len(inflight)
      /\ \A i \in 1..Len(inflight) : inflight[i] \in DOMAIN objects /\ s[i] = objects[inflight[i]]
  <2> DEFINE D == DOMAIN objects
  <2>1. objects \in [D -> Op] /\ inflight \in Seq(D)
    BY <1>2
  <2> HIDE DEF D, s
  <2>2. Ops(objects, inflight) \in Seq(Op) /\ Len(Ops(objects, inflight)) = Len(inflight)
        /\ \A i \in 1..Len(inflight) : inflight[i] \in D /\ Ops(objects, inflight)[i] = objects[inflight[i]]
    BY ONLY <2>1, OfIs
  <2> QED BY <1>2, <2>2 DEF D
<1>6. ops = s \o t
  <2> DEFINE D == DOMAIN objects
  <2>1. objects \in [D -> Op] /\ inflight \in Seq(D) /\ active \in Seq(D)
    BY <1>2
  <2>2. ops = Ops(objects, inflight \o active) /\ s = Ops(objects, inflight) /\ t = Ops(objects, active)
    BY DEF Contents, Ops
  <2> HIDE DEF D, ops, s, t
  <2>3. Ops(objects, inflight \o active) = Ops(objects, inflight) \o Ops(objects, active)
    BY ONLY <2>1, OfConcat
  <2> QED BY <2>2, <2>3
<1>7. Select(k) = Overlaid(k, RowsOf(x), ops)
  BY DEF Select, Overlaid
<1>8. \/ phase \in {"idle", "exec"} /\ FreshInserts(disk, s)
      \/ \A i \in 1..Len(inflight) : Repeatable(objects[inflight[i]])
  BY <1>1, <1>2 DEF InFlightRepeatable, Exact, DiskKept, Waiting
<1>9. After(k, x, s) = RowAt(k, Flushed)
  <2>1. CASE phase \in {"idle", "exec"}
    BY <1>1, <2>1 DEF Exact, DiskKept, Waiting
  <2>2. ASSUME \A i \in 1..Len(inflight) : Repeatable(objects[inflight[i]]), phase \in {"grouped", "written"}
        PROVE  After(k, x, s) = RowAt(k, Flushed)
    <3>1. ~Counting(objects, inflight)
      BY <2>2 DEF Counting, Repeatable
    <3> QED BY <1>1, <2>2, <3>1 DEF Exact, DiskKept, Grouped, Written
  <2>3. phase \in {"idle", "exec", "grouped", "written"}
    BY <1>1 DEF TypeOK
  <2> QED BY <1>8, <2>1, <2>2, <2>3
<1>10. \A i \in 0..Len(active) : Trail(k, After(k, x, s), t)[i] = RowAt(k, Flushed + i)
  BY <1>1, <1>9, RowsOfActive DEF Exact
<1> HIDE DEF x, s, t, ops
<1>11. /\ ops \in Seq(Op) /\ Len(ops) = Len(s) + Len(t)
       /\ \A i \in 1..Len(s) : ops[i] = s[i]
       /\ \A i \in 1..Len(t) : ops[Len(s) + i] = t[i]
       /\ \A i \in 1..Len(ops) : i \in 1..Len(s) \/ i - Len(s) \in 1..Len(t)
  <2>1. s \in Seq(Op) /\ t \in Seq(Op)
    BY <1>4, <1>5
  <2>2. Len(s) \in Nat /\ Len(t) \in Nat
    BY <2>1
  <2>3. /\ s \o t \in Seq(Op) /\ Len(s \o t) = Len(s) + Len(t)
        /\ \A i \in 1..Len(s) : (s \o t)[i] = s[i]
        /\ \A i \in 1..Len(t) : (s \o t)[Len(s) + i] = t[i]
    <3>1. s \o t \in Seq(Op) /\ Len(s \o t) = Len(s) + Len(t)
      BY ONLY <2>1
    <3>2. \A i \in 1..Len(s) : (s \o t)[i] = s[i]
      BY ONLY <2>1
    <3>3. \A i \in 1..Len(t) : (s \o t)[Len(s) + i] = t[i]
      BY ONLY <2>1
    <3> QED BY <3>1, <3>2, <3>3
  <2>4. \A i \in 1..(Len(s) + Len(t)) : i \in 1..Len(s) \/ i - Len(s) \in 1..Len(t)
    BY ONLY <2>2
  <2> QED BY <1>6, <2>3, <2>4
<1>12. /\ After(k, x, ops) = After(k, After(k, x, s), t)
       /\ \A i \in 0..Len(t) : Trail(k, x, ops)[Len(s) + i] = Trail(k, After(k, x, s), t)[i]
  BY <1>3, <1>4, <1>5, <1>6, AfterConcat, SMTT(60)
<1>13. After(k, x, ops) = InOrder[k]
  <2>1. After(k, x, ops) = RowAt(k, Flushed + Len(active))
    <3>1. Len(active) \in 0..Len(active)
      BY <1>2
    <3> QED BY <1>4, <1>10, <1>12, <3>1 DEF After
  <2> QED BY <1>1, <1>2, <2>1, RowsAre
<1>14. Trail(k, x, ops)[0] = x
  BY <1>3, <1>11, TrailIs
<1>15. ASSUME NEW i \in 1..Len(ops), k \in ops[i].ids, ops[i].type = "insert"
       PROVE  ~Trail(k, x, ops)[i - 1].exists /\ ops[i].num.kind # "inc"
  <2>1. CASE i \in 1..Len(s)
    <3>1. ops[i] = s[i] /\ s[i] = objects[inflight[i]] /\ inflight[i] \in DOMAIN objects
      BY <1>5, <1>11, <2>1
    <3>2. ops[i].num.kind # "inc"
      BY <1>1, <1>15, <3>1 DEF Exact, ObjectsKept
    <3>3. FreshInserts(disk, s)
      BY <1>5, <1>8, <1>15, <2>1, <3>1 DEF Repeatable
    <3>4. ~x.exists /\ \A j \in 1..(i - 1) : k \notin s[j].ids
      BY <1>15, <2>1, <3>1, <3>3 DEF FreshInserts, x
    <3>5. Trail(k, x, ops)[i - 1] = Trail(k, x, ops)[0]
      <4> DEFINE b == i - 1
      <4>1. 0 \in Nat /\ b \in Nat /\ 0 <= b /\ b <= Len(ops)
        BY <1>11
      <4>2. \A j \in (0 + 1)..b : j \in 1..Len(s) /\ j \in 1..(i - 1)
        BY <1>5, <2>1
      <4>3. \A j \in (0 + 1)..b : k \notin ops[j].ids
        BY <1>11, <3>4, <4>2
      <4> HIDE DEF b
      <4>4. Trail(k, x, ops)[b] = Trail(k, x, ops)[0]
        <5>1. k \in Keys /\ ops \in Seq(Op)
          BY <1>11
        <5> QED BY ONLY <1>3, <4>1, <4>3, <5>1, Stretch
      <4> QED BY <4>4 DEF b
    <3> QED BY <1>14, <3>2, <3>4, <3>5
  <2>2. CASE i - Len(s) \in 1..Len(t)
    <3> DEFINE q == i - Len(s)
    <3>1. /\ q \in 1..Len(active) /\ q - 1 \in 0..Len(t) /\ i = Len(s) + q /\ i - 1 = Len(s) + (q - 1)
          /\ Flushed + q \in 1..Len(pushed) /\ Flushed + (q - 1) = (Flushed + q) - 1
          /\ Flushed + q > Flushed
      <4>1. /\ q \in 1..Len(t) /\ Len(t) = Len(active) /\ Len(s) \in Nat /\ Len(active) \in Nat /\ i \in Int
            /\ Flushed \in Nat /\ Flushed + Len(active) = Len(pushed) /\ q = i - Len(s)
        BY <1>2, <1>4, <1>5, <2>2
      <4> HIDE DEF q
      <4> QED BY ONLY <4>1
    <3> HIDE DEF q
    <3>2. ops[i] = pushed[Flushed + q]
      BY <1>4, <1>11, <3>1
    <3>3. Trail(k, x, ops)[i - 1] = RowAt(k, (Flushed + q) - 1)
      BY <1>4, <1>10, <1>12, <3>1, SMTT(60)
    <3>4. ~RowAt(k, (Flushed + q) - 1).exists
      BY <1>1, <1>2, <1>15, <3>1, <3>2 DEF Exact, OrderKept
    <3>5. ops[i].num.kind # "inc"
      <4>1. Flushed + q \in DOMAIN objects
        BY <1>2, <3>1
      <4> QED BY <1>1, <1>15, <3>1, <3>2, <4>1 DEF Exact, ObjectsKept
    <3> QED BY <3>3, <3>4, <3>5
  <2> QED BY <1>11, <2>1, <2>2
<1>16. ASSUME NEW i \in 1..Len(ops), k \in ops[i].ids, ops[i].type = "upsert", ops[i].num.kind = "inc"
       PROVE  Trail(k, x, ops)[i - 1].exists
  <2>1. \A j \in 1..Len(ops) : ops[j] \in ToSet(ops)
    BY <1>11 DEF ToSet
  <2>2. x.exists /\ \A j \in 1..Len(ops) : k \in ops[j].ids => ops[j].type # "delete"
    BY <1>16, <2>1 DEF FreshCounter, ops, x
  <2> DEFINE b == i - 1
  <2>3. 0 \in Nat /\ b \in Nat /\ 0 <= b /\ b <= Len(ops) /\ \A j \in (0 + 1)..b : j \in 1..Len(ops)
    BY <1>11
  <2> HIDE DEF b
  <2>4. Trail(k, x, ops)[b].exists
    BY <1>3, <1>11, <1>14, <2>2, <2>3, Stretch
  <2> QED BY <2>4 DEF b
<1>17. Overlaid(k, RowsOf(x), ops) = RowsOf(After(k, x, ops))
  BY <1>3, <1>11, <1>15, <1>16, OverlaidIs
<1> QED BY <1>7, <1>13, <1>17

(* So it is for every key that a read may ask for.                          *)
LEMMA InvariantReadsById == BatchInvariant => ReadById
BY OverlayIsExact DEF ReadById, ReadExact

(* With orderly clients, selectWhere by id answers with every operation     *)
(* pushed so far, on disk, in flight or in the active buffer, each counted  *)
(* once, while the batch in flight is still to run or may run again; a      *)
(* counter that a buffered upsert creates is the exception.                 *)
THEOREM ReadsById ==
  ASSUME Orderly
  PROVE  BatchSpec => []ReadById
BY BatchInvariantHolds, InvariantReadsById, PTL
====

---------------------------- MODULE RuntimeProofs ----------------------------
(***************************************************************************)
(* Proofs about the orchestration runtime, for every number of sessions,   *)
(* files, plans and executions: executions are serial, failed ones leave   *)
(* nothing on disk, what a session rolled back is gone and what it         *)
(* executed last stays.                                                    *)
(***************************************************************************)
EXTENDS Runtime, FiniteSetTheorems, SequenceTheorems, TLAPS

Verifying == [Idle EXCEPT !.pc = "verifying"]
CallRecords == [pc : {"executing"}, id : Executions, plan : Plans,
                todo : SUBSET Files, orphan : BOOLEAN]
Shots == UNION {[D -> SUBSET Executions] : D \in SUBSET Files}
Saves == [status : Statuses, born : Modes, marks : SUBSET Blockers]

\* The execution a session of the running runtime is in.
Current(s) == call[s].pc = "executing" /\ ~call[s].orphan

-----------------------------------------------------------------------------
(* The inductive invariant *)

Types ==
    /\ life \in BOOLEAN /\ mode \in Modes /\ processing \in BOOLEAN /\ overlapped \in BOOLEAN
    /\ status \in [Sessions -> Statuses] /\ node \in [Sessions -> Statuses]
    /\ born \in [Sessions -> Modes] /\ marks \in [Sessions -> SUBSET Blockers]
    /\ planned \subseteq Plans
    /\ touched \in [Sessions -> Nat] /\ failures \in [Sessions -> Nat]
    /\ rollbacks \in [Sessions -> Nat] /\ active \in Nat
    /\ queue \in Seq([plan : Plans, approved : BOOLEAN])
    /\ call \in [Sessions -> {Idle, Verifying} \cup CallRecords]
    /\ \A s \in Sessions : call[s].pc = "executing" => call[s].todo \subseteq FilesOf[call[s].plan]
    /\ last \in [Sessions -> 0..MaxExecutes] /\ latest \in [Plans -> 0..MaxExecutes]
    /\ shots \in [0..MaxExecutes -> Shots]
    /\ content \in [Files -> SUBSET Executions] /\ edited \in [Executions -> SUBSET Files]
    /\ dirty \subseteq Sessions /\ saved \in [Sessions -> Saves]
    /\ count \in 0..MaxExecutes /\ calls \in 0..MaxCalls
    /\ ran \subseteq Executions /\ cut \subseteq Executions /\ wiped \subseteq Executions
    /\ undone \in [Sessions -> 0..MaxExecutes]
    /\ owner \in [Executions -> Sessions \cup {0}]
    /\ unrestored \subseteq Executions \X Files

\* One execution at a time; an execution holds the snapshots of all its files
\* until it ends or stop() overtakes it.
Serial ==
    /\ processing => \E s \in Sessions : Current(s)
    /\ \A s, t \in Sessions : Current(s) /\ Current(t) => s = t
    /\ \A s \in Sessions : Current(s) =>
          processing /\ life /\ DOMAIN shots[call[s].id] = FilesOf[call[s].plan]
    /\ \A s \in Sessions : call[s].pc = "verifying" => life
    /\ ~life => undone = Zero

\* Numbers are given out once, and an execution belongs to the session in it.
Numbered ==
    /\ \A s \in Sessions : call[s].pc = "executing" =>
          /\ call[s].id <= count /\ call[s].id \notin ran /\ owner[call[s].id] = s
          /\ call[s].orphan <=> call[s].id \in cut
    /\ \A id \in ran \cup cut : id <= count
    /\ \A s \in Sessions : last[s] # 0 =>
          last[s] \in ran /\ last[s] \notin cut /\ owner[last[s]] = s
    /\ \A id \in Executions : id > count => DOMAIN shots[id] = {} /\ edited[id] = {}
    /\ \A f \in Files : \A id \in content[f] : id <= count

\* Snapshots hold edits of earlier executions that ended; an execution with
\* snapshots has one of every file its edits are in or were saved from.
ShotsSound ==
    /\ \A id \in Executions : \A f \in DOMAIN shots[id] : \A e \in shots[id][f] :
          e < id /\ e \in ran \cup cut \cup Unrestored(f) /\ (DOMAIN shots[e] = {} \/ f \in DOMAIN shots[e])
    /\ \A f \in Files : \A e \in content[f] : DOMAIN shots[e] = {} \/ f \in DOMAIN shots[e]
    /\ \A id \in cut : DOMAIN shots[id] = {}

\* Two executions with a snapshot of one file belong to one session.
Apart ==
    ~overlapped => \A i, j \in Executions :
        DOMAIN shots[i] \cap DOMAIN shots[j] # {} => owner[i] = owner[j]

\* What a rolled-back session rolled back was its own, has ended, and is in no file.
Gone ==
    ~overlapped => \A s \in Sessions : status[s] = "rolled_back" /\ undone[s] # 0 =>
        /\ owner[undone[s]] = s /\ DOMAIN shots[undone[s]] # {}
        /\ call[s].pc = "executing" => call[s].id # undone[s]
        /\ \A f \in Files : undone[s] \in content[f] => undone[s] \in Unrestored(f)

\* An edit is on disk, and in every snapshot another session has of its file,
\* unless its own session took it back or stop() overtook its execution.
Kept ==
    ~overlapped => \A id \in Executions \ (wiped \cup cut) : \A f \in edited[id] :
        /\ id \in content[f]
        /\ \A k \in Executions : f \in DOMAIN shots[k] /\ owner[k] # owner[id] => id \in shots[k][f]

IInv == /\ Types /\ Serial /\ Numbered /\ ShotsSound /\ NoHalfEdits /\ Apart /\ Gone /\ Kept

-----------------------------------------------------------------------------
(* What the invariant says *)

\* The typing of the invariant includes the one of the specification.
LEMMA TypesTypeOK == Types => TypeOK
<1> SUFFICES ASSUME Types PROVE TypeOK
  OBVIOUS
<1>1. \A s \in Sessions :
          \/ call[s] = Idle
          \/ /\ call[s].pc = "verifying" /\ call[s].id = 0
          \/ /\ call[s].pc = "executing" /\ call[s].id \in Executions
             /\ call[s].plan \in Plans /\ call[s].todo \subseteq FilesOf[call[s].plan]
  <2> SUFFICES ASSUME NEW s \in Sessions PROVE
          \/ call[s] = Idle
          \/ /\ call[s].pc = "verifying" /\ call[s].id = 0
          \/ /\ call[s].pc = "executing" /\ call[s].id \in Executions
             /\ call[s].plan \in Plans /\ call[s].todo \subseteq FilesOf[call[s].plan]
    OBVIOUS
  <2>1. call[s] \in {Idle, Verifying} \cup CallRecords
    BY DEF Types
  <2>2. call[s].pc = "executing" => call[s].todo \subseteq FilesOf[call[s].plan]
    BY DEF Types
  <2> QED
    BY <2>1, <2>2 DEF Verifying, Idle, CallRecords
<1>2. ASSUME NEW id \in 0..MaxExecutes PROVE DOMAIN shots[id] \subseteq Files
  <2>1. shots[id] \in Shots
    BY DEF Types
  <2>2. PICK D \in SUBSET Files : shots[id] \in [D -> SUBSET Executions]
    BY <2>1 DEF Shots
  <2> QED
    BY <2>2
<1> QED
  BY <1>1, <1>2 DEF Types, TypeOK

\* A running session's call is a record of an execution, and no other is.
LEMMA CallForms ==
  ASSUME Types, NEW s \in Sessions
  PROVE  /\ call[s].pc = "executing" =>
              call[s] \in CallRecords /\ call[s].id \in Executions /\ call[s].plan \in Plans
         /\ call[s].pc # "executing" => call[s] \in {Idle, Verifying}
<1>1. call[s] \in {Idle, Verifying} \cup CallRecords
  BY DEF Types
<1> QED
  BY <1>1 DEF Verifying, Idle, CallRecords

\* The domain of a file's snapshots.
LEMMA ShotForms ==
  ASSUME Types, NEW id \in 0..MaxExecutes
  PROVE  /\ shots[id] \in [DOMAIN shots[id] -> SUBSET Executions]
         /\ DOMAIN shots[id] \subseteq Files
  BY DEF Types, Shots

\* The parts of the invariant imply the properties.
LEMMA SerialIsSerial == Types /\ Serial => SerialMutations
<1> SUFFICES ASSUME Types, Serial PROVE SerialMutations
  OBVIOUS
<1> DEFINE current == {s \in Running : ~call[s].orphan}
<1>1. current = {s \in Sessions : Current(s)}
  BY DEF Running, Current
<1>2. CASE processing
  <2>1. PICK s \in Sessions : Current(s)
    BY <1>2 DEF Serial
  <2>2. current = {s}
    BY <1>1, <2>1 DEF Serial
  <2>3. Cardinality(current) = 1
    BY <2>2, FS_Singleton
  <2> QED
    BY <1>2, <2>3, TypesTypeOK DEF SerialMutations
<1>3. CASE ~processing
  <2>1. current = {}
    BY <1>1, <1>3 DEF Serial
  <2>2. Cardinality(current) = 0
    BY <2>1, FS_EmptySet
  <2> QED
    BY <1>3, <2>2, TypesTypeOK DEF SerialMutations
<1> QED
  BY <1>2, <1>3

\* A rolled-back session has its rollback.
LEMMA GoneIsGone == Types /\ Gone => RolledBackIsGone
<1> SUFFICES ASSUME Types, Gone, ~overlapped, NEW s \in Sessions, NEW f \in Files,
                    status[s] = "rolled_back", undone[s] \in content[f]
             PROVE  undone[s] \in Unrestored(f)
  BY DEF RolledBackIsGone
<1>1. CASE undone[s] # 0
  BY <1>1 DEF Gone
<1>2. CASE undone[s] = 0
  BY <1>2 DEF Types, Executions
<1> QED
  BY <1>1, <1>2

\* A completed session has its repair.
LEMMA KeptStays == Types /\ Numbered /\ Kept => CompletedStays
<1> SUFFICES ASSUME Types, Numbered, Kept, ~overlapped, NEW s \in Sessions,
                    last[s] \notin wiped \cup {0}, NEW f \in edited[last[s]]
             PROVE  last[s] \in content[f]
  BY DEF CompletedStays
<1>1. last[s] \in Executions /\ last[s] \notin cut
  BY DEF Types, Numbered, Executions
<1> QED
  BY <1>1 DEF Kept

\* The edits in a file, and those in its snapshots, are of executions so far.
LEMMA HeldEdits ==
  ASSUME IInv
  PROVE  /\ \A f \in Files : \A e \in content[f] : e \in Executions /\ e <= count
         /\ \A k \in Executions : \A f \in DOMAIN shots[k] : \A e \in shots[k][f] :
               f \in Files /\ e \in Executions /\ e <= count
<1>1. \A f \in Files : \A e \in content[f] : e \in Executions /\ e <= count
  BY DEF IInv, Types, Numbered
<1>2. ASSUME NEW k \in Executions, NEW f \in DOMAIN shots[k], NEW e \in shots[k][f]
      PROVE  f \in Files /\ e \in Executions /\ e <= count
  <2>1. k \in 0..MaxExecutes
    BY DEF Executions
  <2>2. f \in Files /\ e \in Executions
    BY <2>1, ShotForms DEF IInv
  <2>3. ~(k > count) /\ e < k
    BY DEF IInv, Numbered, ShotsSound
  <2> QED
    BY <2>2, <2>3 DEF IInv, Types, Executions
<1> QED
  BY <1>1, <1>2

-----------------------------------------------------------------------------
(* Init *)

\* The invariant holds at first.
LEMMA InitIInv == Init => IInv
<1> SUFFICES ASSUME Init PROVE IInv
  OBVIOUS
<1>0. NoShot \in Shots /\ DOMAIN NoShot = {}
  <2>1. NoShot \in [{} -> SUBSET Executions]
    BY DEF NoShot
  <2> QED
    BY <2>1 DEF Shots, NoShot
<1>1. Types
  <2>1. shots \in [0..MaxExecutes -> Shots]
    BY <1>0 DEF Init
  <2>2. call \in [Sessions -> {Idle, Verifying} \cup CallRecords]
        /\ \A s \in Sessions : call[s].pc # "executing"
    BY DEF Init, Idle
  <2>3. saved \in [Sessions -> Saves]
    BY DEF Init, NoSnapshot, Saves, Statuses, Modes
  <2>4. queue \in Seq([plan : Plans, approved : BOOLEAN])
    BY DEF Init
  <2> QED
    <3>1. last \in [Sessions -> 0..MaxExecutes] /\ latest \in [Plans -> 0..MaxExecutes]
          /\ undone \in [Sessions -> 0..MaxExecutes] /\ count \in 0..MaxExecutes
          /\ calls \in 0..MaxCalls
      BY RuntimeAssumption DEF Init, Zero
    <3>2. touched \in [Sessions -> Nat] /\ failures \in [Sessions -> Nat]
          /\ rollbacks \in [Sessions -> Nat] /\ active \in Nat
      BY DEF Init, Zero
    <3>3. status \in [Sessions -> Statuses] /\ node \in [Sessions -> Statuses]
          /\ born \in [Sessions -> Modes] /\ marks \in [Sessions -> SUBSET Blockers]
          /\ mode \in Modes
      BY DEF Init, Statuses, Modes
    <3>4. content \in [Files -> SUBSET Executions] /\ edited \in [Executions -> SUBSET Files]
          /\ owner \in [Executions -> Sessions \cup {0}]
      BY DEF Init
    <3> QED
      BY <2>1, <2>2, <2>3, <2>4, <3>1, <3>2, <3>3, <3>4 DEF Init, Types
<1>2. Serial
  BY DEF Init, Serial, Current, Idle
<1>3. Numbered
  BY <1>0 DEF Init, Numbered, Idle, Executions, Zero
<1>4. ShotsSound /\ Apart
  BY <1>0 DEF Init, ShotsSound, Apart, Executions
<1>5. NoHalfEdits /\ Gone /\ Kept
  BY DEF Init, NoHalfEdits, Gone, Kept
<1> QED
  BY <1>1, <1>2, <1>3, <1>4, <1>5 DEF IInv

-----------------------------------------------------------------------------
(* Steps that touch no execution *)

\* The same sessions are in the same executions.
SameCalls ==
    \A s \in Sessions :
        /\ call'[s].pc = "executing" <=> call[s].pc = "executing"
        /\ call[s].pc = "executing" =>
              /\ call'[s].id = call[s].id /\ call'[s].plan = call[s].plan
              /\ call'[s].orphan <=> call[s].orphan

\* What these steps leave alone.
Quiet ==
    /\ SameCalls /\ \A s \in Sessions : call'[s].pc = "verifying" => life
    /\ UNCHANGED <<life, processing, last, shots, edited, content, ran, cut,
                   undone, wiped, unrestored, owner, overlapped>>
    /\ count' \in {count, count + 1}
    /\ \A s \in Sessions : status'[s] = "rolled_back" => status[s] = "rolled_back"

\* They keep the invariant but for its types.
LEMMA QuietStep ==
  ASSUME IInv, Types', Quiet
  PROVE  IInv'
<1> USE DEF IInv, Quiet
<1>0. \A s \in Sessions : Current(s)' <=> Current(s)
  BY DEF Current, SameCalls
<1>1. Serial'
  BY <1>0 DEF Serial, SameCalls, Current
<1>2. Numbered'
  <2>1. count' >= count /\ count \in Nat /\ count' \in Nat
    BY DEF Types
  <2>2. \A s \in Sessions : call[s].pc = "executing" => call[s].id \in Nat
    BY CallForms DEF Executions
  <2>3. \A id \in Executions : id \in Nat
    BY DEF Executions
  <2>4. ran \cup cut \subseteq Executions /\ \A f \in Files : content[f] \subseteq Executions
    BY DEF Types
  <2>5. \A s \in Sessions : call'[s].pc = "executing" =>
          /\ call'[s].id <= count' /\ call'[s].id \notin ran' /\ owner'[call'[s].id] = s
          /\ call'[s].orphan <=> call'[s].id \in cut'
    BY <2>1, <2>2 DEF Numbered, SameCalls
  <2>6. \A id \in ran' \cup cut' : id <= count'
    BY <2>1, <2>3, <2>4 DEF Numbered
  <2>7. \A id \in Executions : id > count' => DOMAIN shots'[id] = {} /\ edited'[id] = {}
    BY <2>1, <2>3 DEF Numbered
  <2>8. \A f \in Files : \A id \in content'[f] : id <= count'
    BY <2>1, <2>3, <2>4 DEF Numbered
  <2>9. \A s \in Sessions : last'[s] # 0 =>
          last'[s] \in ran' /\ last'[s] \notin cut' /\ owner'[last'[s]] = s
    BY DEF Numbered
  <2> QED
    BY <2>5, <2>6, <2>7, <2>8, <2>9 DEF Numbered
<1>3. ShotsSound' /\ Apart'
  BY DEF ShotsSound, Apart, Unrestored
<1>4. NoHalfEdits' /\ Kept'
  <2>1. {call'[s].id : s \in Running'} = {call[s].id : s \in Running}
    BY DEF Running, SameCalls
  <2> QED
    BY <2>1 DEF NoHalfEdits, Kept, Unrestored
<1>5. Gone'
  BY DEF Gone, SameCalls, Unrestored
<1> QED
  BY <1>1, <1>2, <1>3, <1>4, <1>5

\* The queue stays a sequence of jobs.
LEMMA EnqueueType ==
  ASSUME NEW S, NEW q \in Seq(S), NEW job \in S
  PROVE  Enqueue(q, job) \in Seq(S) /\ Enqueue(q, job) # <<>>
<1> DEFINE below == {i \in DOMAIN q : Priority[q[i].plan] <= Priority[job.plan]}
           k == Cardinality(below)
<1>1. Len(q) \in Nat /\ DOMAIN q = 1..Len(q)
  BY LenProperties
<1>2. IsFiniteSet(1..Len(q)) /\ Cardinality(1..Len(q)) = Len(q)
  BY <1>1, FS_Interval
<1>3. IsFiniteSet(below) /\ Cardinality(below) <= Cardinality(1..Len(q))
  <2>1. below \subseteq 1..Len(q)
    BY <1>1
  <2> QED
    BY <2>1, <1>2, FS_Subset
<1>4. k \in Nat /\ k <= Len(q)
  BY <1>1, <1>2, <1>3, FS_CardinalityType
<1> HIDE DEF k
<1>5. SubSeq(q, 1, k) \in Seq(S) /\ SubSeq(q, k + 1, Len(q)) \in Seq(S)
  BY <1>1, <1>4
<1>6. <<job>> \in Seq(S) /\ Len(<<job>>) = 1
  OBVIOUS
<1>7. SubSeq(q, 1, k) \o <<job>> \in Seq(S) /\ Len(SubSeq(q, 1, k) \o <<job>>) >= 1
  BY <1>1, <1>4, <1>5, <1>6, LenProperties
<1>8. (SubSeq(q, 1, k) \o <<job>>) \o SubSeq(q, k + 1, Len(q)) \in Seq(S)
      /\ Len((SubSeq(q, 1, k) \o <<job>>) \o SubSeq(q, k + 1, Len(q))) >= 1
  <2> DEFINE a == SubSeq(q, 1, k) \o <<job>>
             b == SubSeq(q, k + 1, Len(q))
  <2>1. a \in Seq(S) /\ b \in Seq(S) /\ Len(a) >= 1
    BY <1>5, <1>7
  <2> HIDE DEF a, b
  <2>2. a \o b \in Seq(S) /\ Len(a \o b) = Len(a) + Len(b) /\ Len(a) \in Nat /\ Len(b) \in Nat
    BY <2>1, ConcatProperties, LenProperties
  <2>3. Len(a \o b) >= 1
    BY <2>1, <2>2
  <2> QED
    BY <2>2, <2>3 DEF a, b
<1>9. Enqueue(q, job) = (SubSeq(q, 1, k) \o <<job>>) \o SubSeq(q, k + 1, Len(q))
  BY DEF Enqueue, k
<1> QED
  BY <1>8, <1>9

\* SetMode keeps the invariant.
LEMMA SetModeStep ==
  ASSUME IInv, NEW m \in Modes, SetMode(m)
  PROVE  IInv'
<1>1. Types'
  BY RuntimeAssumption DEF IInv, Types, SetMode, Counted, graph, budget, disk, store, history
<1>2. Quiet
  BY DEF IInv, Types, Quiet, SameCalls, Serial, SetMode, Counted, graph, budget, disk, store, history
<1> QED
  BY <1>1, <1>2, QuietStep

\* BeginSession keeps the invariant.
LEMMA BeginSessionStep ==
  ASSUME IInv, NEW s \in Sessions, BeginSession(s)
  PROVE  IInv'
<1>1. Types'
  BY DEF IInv, Types, BeginSession, Statuses, Modes, graph, budget, disk, store, history
<1>2. Quiet
  BY DEF IInv, Types, Quiet, SameCalls, Serial, BeginSession, Statuses, Modes, graph, budget, disk, store, history
<1> QED
  BY <1>1, <1>2, QuietStep

\* RecordAudit keeps the invariant.
LEMMA RecordAuditStep ==
  ASSUME IInv, NEW s \in Sessions, RecordAudit(s)
  PROVE  IInv'
<1>1. Types'
  BY RuntimeAssumption DEF IInv, Types, RecordAudit, Counted, Blockers, graph, budget, disk, store, history
<1>2. Quiet
  BY DEF IInv, Types, Quiet, SameCalls, Serial, RecordAudit, Counted, Blockers, graph, budget, disk, store, history
<1> QED
  BY <1>1, <1>2, QuietStep

\* RecordGate keeps the invariant.
LEMMA RecordGateStep ==
  ASSUME IInv, NEW s \in Sessions, RecordGate(s)
  PROVE  IInv'
<1>1. Types'
  <2>1. status' \in [Sessions -> Statuses] /\ node' \in [Sessions -> Statuses]
    BY DEF IInv, Types, RecordGate, Statuses
  <2>2. marks' \in [Sessions -> SUBSET Blockers] /\ calls' \in 0..MaxCalls
    BY RuntimeAssumption DEF IInv, Types, RecordGate, Counted, Blockers
  <2> QED
    BY <2>1, <2>2 DEF IInv, Types, RecordGate, graph, budget, disk, store, history
<1>2. Quiet
  BY DEF IInv, Types, Quiet, SameCalls, Serial, RecordGate, Counted, Statuses, Blockers, graph, budget, disk, store, history
<1> QED
  BY <1>1, <1>2, QuietStep

\* PlanRepairs keeps the invariant.
LEMMA PlanRepairsStep ==
  ASSUME IInv, NEW p \in Plans, PlanRepairs(p)
  PROVE  IInv'
<1>1. Types'
  <2>1. planned' \subseteq Plans /\ dirty' \subseteq Sessions
    BY RuntimeAssumption DEF IInv, Types, PlanRepairs
  <2> QED
    BY <2>1 DEF IInv, Types, PlanRepairs, graph, budget, disk, store, history
<1>2. Quiet
  BY DEF IInv, Types, Quiet, SameCalls, Serial, PlanRepairs, graph, budget, disk, store, history
<1> QED
  BY <1>1, <1>2, QuietStep

\* RequestApproval keeps the invariant.
LEMMA RequestApprovalStep ==
  ASSUME IInv, NEW p \in Plans, RequestApproval(p)
  PROVE  IInv'
<1>1. Types'
  BY RuntimeAssumption DEF IInv, Types, RequestApproval, Counted, Statuses, graph, budget, disk, store, history
<1>2. Quiet
  BY DEF IInv, Types, Quiet, SameCalls, Serial, RequestApproval, Counted, Statuses, graph, budget, disk, store, history
<1> QED
  BY <1>1, <1>2, QuietStep

\* TakeSnapshot keeps the invariant.
LEMMA TakeSnapshotStep ==
  ASSUME IInv, NEW s \in Sessions, TakeSnapshot(s)
  PROVE  IInv'
<1>1. Types'
  BY RuntimeAssumption DEF IInv, Types, TakeSnapshot, Counted, Snapshot, Saves, graph, budget, disk, store, history
<1>2. Quiet
  BY DEF IInv, Types, Quiet, SameCalls, Serial, TakeSnapshot, Counted, Snapshot, Saves, graph, budget, disk, store, history
<1> QED
  BY <1>1, <1>2, QuietStep

\* Flush keeps the invariant.
LEMMA FlushStep ==
  ASSUME IInv, Flush
  PROVE  IInv'
<1>1. Types'
  <2>1. saved' \in [Sessions -> Saves]
    <3>1. \A s \in Sessions : Snapshot(s, "development") \in Saves /\ saved[s] \in Saves
      BY DEF IInv, Types, Snapshot, Saves, Modes
    <3> QED
      BY <3>1 DEF Flush, Flushed
  <2>2. calls' \in 0..MaxCalls /\ dirty' \subseteq Sessions
    BY RuntimeAssumption DEF IInv, Types, Flush, Counted
  <2> QED
    BY <2>1, <2>2 DEF IInv, Types, Flush, graph, budget, disk, store, history
<1>2. Quiet
  BY DEF IInv, Types, Quiet, SameCalls, Serial, Flush, Counted, Flushed, Snapshot, Saves, Modes, graph, budget, disk, store, history
<1> QED
  BY <1>1, <1>2, QuietStep

\* ExecuteForbidden keeps the invariant.
LEMMA ExecuteForbiddenStep ==
  ASSUME IInv, NEW p \in Plans, ExecuteForbidden(p)
  PROVE  IInv'
<1>1. Types'
  <2>1. marks' \in [Sessions -> SUBSET Blockers] /\ count' \in 0..MaxExecutes
    BY RuntimeAssumption DEF IInv, Types, ExecuteForbidden, Calls, Blockers
  <2> QED
    BY <2>1 DEF IInv, Types, ExecuteForbidden, Calls, disk, store, history
<1>2. Quiet
  BY DEF IInv, Types, Quiet, SameCalls, Serial, ExecuteForbidden, Calls, Blockers, graph, budget, disk, store, history
<1> QED
  BY <1>1, <1>2, QuietStep

\* ExecuteAgainstPolicy keeps the invariant.
LEMMA ExecuteAgainstPolicyStep ==
  ASSUME IInv, NEW p \in Plans, NEW policy \in Policies, NEW approved \in BOOLEAN,
         ExecuteAgainstPolicy(p, policy, approved)
  PROVE  IInv'
<1>1. Types'
  <2>1. marks' \in [Sessions -> SUBSET Blockers] /\ count' \in 0..MaxExecutes
    BY RuntimeAssumption DEF IInv, Types, ExecuteAgainstPolicy, Calls, Blockers
  <2> QED
    BY <2>1 DEF IInv, Types, ExecuteAgainstPolicy, Calls, graph, budget, disk, store, history
<1>2. Quiet
  BY DEF IInv, Types, Quiet, SameCalls, Serial, ExecuteAgainstPolicy, Calls, Blockers, graph, budget, disk, store, history
<1> QED
  BY <1>1, <1>2, QuietStep

\* ExecuteRefused keeps the invariant.
LEMMA ExecuteRefusedStep ==
  ASSUME IInv, NEW p \in Plans, NEW policy \in Policies, NEW approved \in BOOLEAN,
         ExecuteRefused(p, policy, approved)
  PROVE  IInv'
<1>1. Types'
  <2> DEFINE job == [plan |-> p, approved |-> approved]
  <2>1. Enqueue(queue, job) \in Seq([plan : Plans, approved : BOOLEAN])
    BY EnqueueType DEF IInv, Types
  <2>2. queue' \in Seq([plan : Plans, approved : BOOLEAN])
    BY <2>1 DEF ExecuteRefused
  <2>3. count' \in 0..MaxExecutes
    BY RuntimeAssumption DEF IInv, Types, ExecuteRefused, Schedules, Calls
  <2> QED
    BY <2>2, <2>3 DEF IInv, Types, ExecuteRefused, Schedules, Calls, graph, budget, disk, store, history
<1>2. Quiet
  BY DEF IInv, Types, Quiet, SameCalls, Serial, ExecuteRefused, Schedules, Calls, graph, budget, disk, store, history
<1> QED
  BY <1>1, <1>2, QuietStep

\* VerifyStarts keeps the invariant.
LEMMA VerifyStartsStep ==
  ASSUME IInv, NEW s \in Sessions, VerifyStarts(s)
  PROVE  IInv'
<1>1. call[s] = Idle
  <2>1. call[s].pc = "idle" /\ call[s] \in {Idle, Verifying}
    BY CallForms DEF IInv, VerifyStarts, Ready
  <2> QED
    BY <2>1 DEF Verifying, Idle
<1>2. call' = [call EXCEPT ![s] = Verifying]
  BY <1>1 DEF VerifyStarts, Verifying
<1>3. Types'
  <2>1. call' \in [Sessions -> {Idle, Verifying} \cup CallRecords]
    BY <1>2 DEF IInv, Types
  <2>2. \A t \in Sessions : call'[t].pc = "executing" => call'[t].todo \subseteq FilesOf[call'[t].plan]
    BY <1>2 DEF IInv, Types, Verifying, Idle
  <2>3. calls' \in 0..MaxCalls
    BY RuntimeAssumption DEF IInv, Types, VerifyStarts, Counted
  <2> QED
    BY <2>1, <2>2, <2>3 DEF IInv, Types, VerifyStarts, graph, budget, disk, store, history
<1>4. SameCalls /\ \A t \in Sessions : call'[t].pc = "verifying" => life
  BY <1>1, <1>2 DEF IInv, Types, SameCalls, Verifying, Idle, Serial, VerifyStarts, Ready, Live
<1>5. Quiet
  BY <1>4 DEF Quiet, IInv, Types, VerifyStarts, graph, disk, history
<1> QED
  BY <1>3, <1>5, QuietStep

-----------------------------------------------------------------------------
(* Edits *)

\* ApplyDirective keeps the invariant.
LEMMA ApplyDirectiveStep ==
  ASSUME IInv, NEW s \in Sessions, NEW f \in Files, ApplyDirective(s, f)
  PROVE  IInv'
<1> DEFINE id == call[s].id
<1>0. /\ call[s] \in CallRecords /\ id \in Executions /\ call[s].pc = "executing"
      /\ f \in call[s].todo /\ f \in FilesOf[call[s].plan]
  BY CallForms DEF IInv, Types, ApplyDirective
<1>1. /\ call' = [call EXCEPT ![s] = [call[s] EXCEPT !.todo = @ \ {f}]]
      /\ content' = [content EXCEPT ![f] = @ \cup {id}]
      /\ edited' = [edited EXCEPT ![id] = @ \cup {f}]
  BY DEF ApplyDirective
<1>2. /\ call'[s] \in CallRecords /\ call'[s].id = id /\ call'[s].plan = call[s].plan
      /\ call'[s].pc = "executing" /\ (call'[s].orphan <=> call[s].orphan)
      /\ call'[s].todo \subseteq call[s].todo
  <2>1. call'[s] = [call[s] EXCEPT !.todo = @ \ {f}]
    BY <1>1 DEF IInv, Types
  <2> QED
    BY <1>0, <2>1 DEF CallRecords
<1>3. \A t \in Sessions : t # s => call'[t] = call[t]
  BY <1>1 DEF IInv, Types
<1>4. SameCalls
  BY <1>0, <1>2, <1>3 DEF SameCalls
<1>5. /\ \A g \in Files : content'[g] = IF g = f THEN content[g] \cup {id} ELSE content[g]
      /\ \A e \in Executions : edited'[e] = IF e = id THEN edited[e] \cup {f} ELSE edited[e]
  BY <1>1 DEF IInv, Types
<1>6. UNCHANGED <<life, status, shots, processing, last, count, ran, cut, undone, wiped,
                  unrestored, owner, overlapped>>
  BY DEF ApplyDirective, graph, history
<1>7. Types'
  <2>1. call' \in [Sessions -> {Idle, Verifying} \cup CallRecords]
    BY <1>1, <1>2, <1>3 DEF IInv, Types
  <2>2. \A t \in Sessions : call'[t].pc = "executing" => call'[t].todo \subseteq FilesOf[call'[t].plan]
    BY <1>2, <1>3, <1>0 DEF IInv, Types
  <2>3. content' \in [Files -> SUBSET Executions] /\ edited' \in [Executions -> SUBSET Files]
    BY <1>0, <1>1 DEF IInv, Types
  <2> QED
    BY <2>1, <2>2, <2>3 DEF IInv, Types, ApplyDirective, graph, budget, store, history
<1> HIDE DEF id
<1>8. DOMAIN shots[id] = {} \/ f \in DOMAIN shots[id]
  <2>1. CASE call[s].orphan
    BY <2>1, <1>0 DEF IInv, Numbered, ShotsSound, id
  <2>2. CASE ~call[s].orphan
    BY <2>2, <1>0 DEF IInv, Serial, Current, id
  <2> QED
    BY <2>1, <2>2
<1>9. id <= count /\ id \notin ran /\ owner[id] = s /\ (call[s].orphan <=> id \in cut)
  BY <1>0 DEF IInv, Numbered, id
<1>10. Serial'
  <2>1. \A t \in Sessions : Current(t)' <=> Current(t)
    BY <1>2, <1>3, <1>0 DEF Current
  <2>2. \A t \in Sessions : call'[t].pc = "verifying" => call[t].pc = "verifying"
    BY <1>2, <1>3, <1>0
  <2> QED
    BY <2>1, <2>2, <1>4, <1>6 DEF IInv, Serial, SameCalls, Current
<1>11. Numbered'
  <2>1. \A e \in Executions : e > count' => edited'[e] = {}
    <3> SUFFICES ASSUME NEW e \in Executions, e > count PROVE edited'[e] = {}
      BY <1>6
    <3>1. edited[e] = {}
      BY DEF IInv, Numbered
    <3>2. e # id
      BY <1>9 DEF IInv, Types, Executions
    <3> QED
      BY <3>1, <3>2, <1>5
  <2>2. \A g \in Files : \A e \in content'[g] : e <= count'
    <3> SUFFICES ASSUME NEW g \in Files, NEW e \in content'[g] PROVE e <= count
      BY <1>6
    <3>1. e \in content[g] \/ e = id
      BY <1>5
    <3> QED
      BY <3>1, <1>9 DEF IInv, Numbered
  <2>3. \A t \in Sessions : call'[t].pc = "executing" =>
          /\ call'[t].id <= count' /\ call'[t].id \notin ran' /\ owner'[call'[t].id] = t
          /\ call'[t].orphan <=> call'[t].id \in cut'
    BY <1>4, <1>6 DEF IInv, Numbered, SameCalls
  <2> QED
    BY <2>1, <2>2, <2>3, <1>6 DEF IInv, Numbered
<1>12. ShotsSound' /\ Apart'
  <2>1. \A g \in Files : \A e \in content'[g] : DOMAIN shots[e] = {} \/ g \in DOMAIN shots[e]
    <3> SUFFICES ASSUME NEW g \in Files, NEW e \in content'[g]
                 PROVE  DOMAIN shots[e] = {} \/ g \in DOMAIN shots[e]
      OBVIOUS
    <3>1. e \in content[g] \/ (e = id /\ g = f)
      BY <1>5
    <3> QED
      BY <3>1, <1>8 DEF IInv, ShotsSound
  <2> QED
    BY <2>1, <1>6 DEF IInv, ShotsSound, Apart, Unrestored
<1>13. NoHalfEdits'
  <2>1. {call'[t].id : t \in Running'} = {call[t].id : t \in Running}
    BY <1>4 DEF Running, SameCalls
  <2>2. id \in {call[t].id : t \in Running}
    BY <1>0 DEF Running, id
  <2>3. \A g \in Files : Unrestored(g)' = Unrestored(g)
    BY <1>6 DEF Unrestored
  <2>4. ASSUME NEW g \in Files, NEW e \in content'[g],
               e \notin ran' \cup cut' \cup Unrestored(g)'
        PROVE  e \in {call'[t].id : t \in Running'}
    BY <2>1, <2>2, <2>3, <2>4, <1>5, <1>6 DEF IInv, NoHalfEdits
  <2> QED
    BY <2>4 DEF NoHalfEdits
<1>14. Gone'
  <2> SUFFICES ASSUME ~overlapped, NEW t \in Sessions, status[t] = "rolled_back", undone[t] # 0
               PROVE  /\ owner[undone[t]] = t /\ DOMAIN shots[undone[t]] # {}
                      /\ call'[t].pc = "executing" => call'[t].id # undone[t]
                      /\ \A g \in Files : undone[t] \in content'[g] => undone[t] \in Unrestored(g)
    BY <1>6 DEF Gone, Unrestored
  <2>1. id # undone[t]
    BY <1>0, <1>9 DEF IInv, Gone, id
  <2>2. /\ owner[undone[t]] = t /\ DOMAIN shots[undone[t]] # {}
        /\ call[t].pc = "executing" => call[t].id # undone[t]
        /\ \A g \in Files : undone[t] \in content[g] => undone[t] \in Unrestored(g)
    BY DEF IInv, Gone
  <2>3. \A g \in Files : undone[t] \in content'[g] => undone[t] \in Unrestored(g)
    BY <2>1, <2>2, <1>5
  <2> QED
    BY <2>2, <2>3, <1>4 DEF SameCalls
<1>15. Kept'
  <2> SUFFICES ASSUME ~overlapped, NEW e \in Executions \ (wiped \cup cut), NEW g \in edited'[e]
               PROVE  /\ e \in content'[g]
                      /\ \A k \in Executions :
                            g \in DOMAIN shots[k] /\ owner[k] # owner[e] => e \in shots[k][g]
    BY <1>6 DEF Kept
  <2>1. CASE g \in edited[e]
    <3>1. g \in Files
      BY <2>1 DEF IInv, Types
    <3> QED
      BY <2>1, <3>1, <1>5 DEF IInv, Kept
  <2>2. CASE g \notin edited[e]
    <3>1. e = id /\ g = f
      BY <2>2, <1>5
    <3>2. f \in DOMAIN shots[id]
      BY <3>1, <1>0, <1>9 DEF IInv, Serial, Current, id
    <3>3. \A k \in Executions : f \in DOMAIN shots[k] => owner[k] = owner[id]
      BY <3>2, <1>0 DEF IInv, Apart, id
    <3> QED
      BY <3>1, <3>3, <1>5
  <2> QED
    BY <2>1, <2>2
<1> QED
  BY <1>7, <1>10, <1>11, <1>12, <1>13, <1>14, <1>15 DEF IInv

-----------------------------------------------------------------------------
(* Calls that end *)

\* When the call of a session returns, the executions stay serial.
LEMMA EndCall ==
  ASSUME IInv, NEW s \in Sessions,
         call' = [call EXCEPT ![s] = Idle],
         processing' \in BOOLEAN, processing' <=> processing /\ ~Current(s),
         life' = life, life \/ undone' = undone,
         \A t \in Sessions : Current(t) => DOMAIN shots'[call[t].id] = DOMAIN shots[call[t].id]
  PROVE  /\ Serial'
         /\ call' \in [Sessions -> {Idle, Verifying} \cup CallRecords]
         /\ \A t \in Sessions : call'[t].pc = "executing" => call'[t].todo \subseteq FilesOf[call'[t].plan]
         /\ \A t \in Sessions : call'[t] = IF t = s THEN Idle ELSE call[t]
<1>1. \A t \in Sessions : call'[t] = IF t = s THEN Idle ELSE call[t]
  BY DEF IInv, Types
<1>2. call' \in [Sessions -> {Idle, Verifying} \cup CallRecords]
  BY DEF IInv, Types
<1>3. \A t \in Sessions : call'[t].pc = "executing" => t # s /\ call'[t] = call[t]
  BY <1>1 DEF Idle
<1>4. \A t \in Sessions : call'[t].pc = "executing" => call'[t].todo \subseteq FilesOf[call'[t].plan]
  BY <1>3 DEF IInv, Types
<1>5. \A t \in Sessions : Current(t)' <=> Current(t) /\ t # s
  BY <1>1, <1>3 DEF Current
<1>6. processing' => \E t \in Sessions : Current(t)'
  BY <1>5 DEF IInv, Serial
<1>7. \A t, u \in Sessions : Current(t)' /\ Current(u)' => t = u
  BY <1>5 DEF IInv, Serial
<1>8. \A t \in Sessions : Current(t)' =>
          processing' /\ life' /\ DOMAIN shots'[call'[t].id] = FilesOf[call'[t].plan]
  <2> SUFFICES ASSUME NEW t \in Sessions, Current(t)'
               PROVE  processing' /\ life' /\ DOMAIN shots'[call'[t].id] = FilesOf[call'[t].plan]
    OBVIOUS
  <2>1. Current(t) /\ t # s /\ call'[t] = call[t]
    BY <1>1, <1>5
  <2>2. processing /\ life /\ DOMAIN shots[call[t].id] = FilesOf[call[t].plan]
    BY <2>1 DEF IInv, Serial
  <2>3. ~Current(s)
    BY <2>1 DEF IInv, Serial
  <2> QED
    BY <2>1, <2>2, <2>3
<1>9. \A t \in Sessions : call'[t].pc = "verifying" => life'
  BY <1>1 DEF Idle, IInv, Serial
<1>10. ~life' => undone' = Zero
  BY DEF IInv, Serial
<1> QED
  BY <1>1, <1>2, <1>4, <1>6, <1>7, <1>8, <1>9, <1>10 DEF Serial

\* ExecutionSucceeds keeps the invariant.
LEMMA ExecutionSucceedsStep ==
  ASSUME IInv, NEW s \in Sessions, ExecutionSucceeds(s)
  PROVE  IInv'
<1> DEFINE id == call[s].id
<1>0. /\ call[s] \in CallRecords /\ id \in Executions /\ call[s].plan \in Plans
      /\ call[s].pc = "executing"
  BY CallForms DEF IInv, ExecutionSucceeds
<1>1. id <= count /\ id \notin ran /\ owner[id] = s /\ (call[s].orphan <=> id \in cut)
  BY <1>0 DEF IInv, Numbered
<1>2. /\ UNCHANGED <<life, shots, edited, content, count, cut, undone, wiped, unrestored, owner, overlapped>>
      /\ ran' = ran \cup {id}
  BY DEF ExecutionSucceeds, disk
<1>3. processing' \in BOOLEAN /\ (processing' <=> processing /\ ~Current(s))
  <2>1. call[s].orphan \in BOOLEAN
    BY <1>0 DEF CallRecords
  <2>2. processing' = IF call[s].orphan THEN processing ELSE FALSE
    BY DEF ExecutionSucceeds, Release
  <2>3. CASE call[s].orphan
    BY <2>2, <2>3, <1>0 DEF Current, IInv, Types
  <2>4. CASE ~call[s].orphan
    BY <2>2, <2>4, <1>0 DEF Current
  <2> QED
    BY <2>3, <2>4
<1>4. /\ Serial'
      /\ call' \in [Sessions -> {Idle, Verifying} \cup CallRecords]
      /\ \A t \in Sessions : call'[t].pc = "executing" => call'[t].todo \subseteq FilesOf[call'[t].plan]
      /\ \A t \in Sessions : call'[t] = IF t = s THEN Idle ELSE call[t]
  <2>1. call' = [call EXCEPT ![s] = Idle]
    BY DEF ExecutionSucceeds
  <2> QED
    BY <2>1, <1>2, <1>3, EndCall
<1>5. \A t \in Sessions : call'[t].pc = "executing" => t # s /\ call'[t] = call[t]
  BY <1>4 DEF Idle
<1>6. /\ status' = IF call[s].orphan THEN status ELSE [status EXCEPT ![s] = "verifying"]
      /\ last' = IF call[s].orphan THEN last ELSE [last EXCEPT ![s] = id]
  BY DEF ExecutionSucceeds
<1> HIDE DEF id
<1>7. Types'
  <2>1. status' \in [Sessions -> Statuses] /\ node' \in [Sessions -> Statuses]
    BY <1>6 DEF IInv, Types, Statuses, ExecutionSucceeds
  <2>2. touched' \in [Sessions -> Nat]
    <3>1. Cardinality(FilesOf[call[s].plan]) \in Nat
      BY <1>0, RuntimeAssumption, FS_CardinalityType
    <3> QED
      BY <3>1 DEF IInv, Types, ExecutionSucceeds
  <2>3. active' \in Nat
    BY DEF IInv, Types, ExecutionSucceeds, Release
  <2>4. last' \in [Sessions -> 0..MaxExecutes] /\ ran' \subseteq Executions
    <3>1. id \in Executions /\ id \in 0..MaxExecutes
      BY <1>0 DEF id, Executions
    <3> QED
      BY <3>1, <1>2, <1>6 DEF IInv, Types
  <2> QED
    BY <2>1, <2>2, <2>3, <2>4, <1>2, <1>3, <1>4
    DEF IInv, Types, ExecutionSucceeds, disk, store
<1>8. Numbered'
  <2>1. \A t \in Sessions : call'[t].pc = "executing" =>
          /\ call'[t].id <= count' /\ call'[t].id \notin ran' /\ owner'[call'[t].id] = t
          /\ call'[t].orphan <=> call'[t].id \in cut'
    BY <1>1, <1>2, <1>5 DEF IInv, Numbered
  <2>2. \A e \in ran' \cup cut' : e <= count'
    BY <1>1, <1>2 DEF IInv, Numbered
  <2>3. \A t \in Sessions : last'[t] # 0 =>
          last'[t] \in ran' /\ last'[t] \notin cut' /\ owner'[last'[t]] = t
    BY <1>1, <1>2, <1>6 DEF IInv, Types, Numbered
  <2> QED
    BY <2>1, <2>2, <2>3, <1>2 DEF IInv, Numbered
<1>9. ShotsSound' /\ Apart'
  BY <1>2 DEF IInv, ShotsSound, Apart, Unrestored
<1>10. NoHalfEdits'
  <2> SUFFICES ASSUME NEW f \in Files, NEW e \in content[f]
               PROVE  e \in ran' \cup cut' \cup Unrestored(f) \cup {call'[t].id : t \in Running'}
    BY <1>2 DEF NoHalfEdits, Unrestored
  <2>1. CASE e \in ran \cup cut \cup Unrestored(f)
    BY <2>1, <1>2
  <2>2. CASE e \notin ran \cup cut \cup Unrestored(f)
    <3>1. PICK t \in Sessions : call[t].pc = "executing" /\ e = call[t].id
      BY <2>2 DEF IInv, NoHalfEdits, Running
    <3>2. CASE t = s
      BY <3>1, <3>2, <1>2 DEF id
    <3>3. CASE t # s
      BY <3>1, <3>3, <1>4 DEF Running
    <3> QED
      BY <3>2, <3>3
  <2> QED
    BY <2>1, <2>2
<1>11. Gone'
  <2> SUFFICES ASSUME ~overlapped, NEW t \in Sessions, status'[t] = "rolled_back", undone[t] # 0
               PROVE  /\ owner[undone[t]] = t /\ DOMAIN shots[undone[t]] # {}
                      /\ call'[t].pc = "executing" => call'[t].id # undone[t]
                      /\ \A f \in Files : undone[t] \in content[f] => undone[t] \in Unrestored(f)
    BY <1>2 DEF Gone, Unrestored
  <2>1. status[t] = "rolled_back"
    BY <1>6 DEF IInv, Types
  <2> QED
    BY <2>1, <1>5 DEF IInv, Gone
<1>12. Kept'
  BY <1>2 DEF IInv, Kept
<1> QED
  BY <1>4, <1>7, <1>8, <1>9, <1>10, <1>11, <1>12 DEF IInv

-----------------------------------------------------------------------------
(* Start and stop *)

\* Start keeps the invariant.
LEMMA StartStep ==
  ASSUME IInv, Start
  PROVE  IInv'
<1>1. /\ UNCHANGED <<processing, call, last, shots, edited, content, count, ran, cut,
                     undone, wiped, unrestored, owner, overlapped>>
      /\ ~life /\ life' = TRUE
  BY DEF Start, disk, history
<1>2. Types'
  <2>1. \A s \in Sessions : saved[s] \in Saves
    BY DEF IInv, Types
  <2>2. /\ status' \in [Sessions -> Statuses] /\ node' \in [Sessions -> Statuses]
        /\ born' \in [Sessions -> Modes] /\ marks' \in [Sessions -> SUBSET Blockers]
    BY <2>1 DEF Start, Saves
  <2> QED
    BY <1>1, <2>2 DEF IInv, Types, Start, budget, store
<1>3. Serial'
  BY <1>1 DEF IInv, Serial, Current
<1>4. Numbered' /\ ShotsSound' /\ Apart' /\ Kept'
  BY <1>1 DEF IInv, Numbered, ShotsSound, Apart, Kept, Unrestored
<1>5. NoHalfEdits'
  BY <1>1 DEF IInv, NoHalfEdits, Running, Unrestored
<1>6. Gone'
  <2>1. \A s \in Sessions : undone'[s] = 0
    BY <1>1 DEF IInv, Serial, Zero
  <2> QED
    BY <2>1 DEF Gone
<1> QED
  BY <1>2, <1>3, <1>4, <1>5, <1>6 DEF IInv

\* Stop keeps the invariant.
LEMMA StopStep ==
  ASSUME IInv, Stop
  PROVE  IInv'
<1>1. /\ UNCHANGED <<edited, content, count, ran, wiped, unrestored, owner, overlapped>>
      /\ life' = FALSE /\ processing' = FALSE
      /\ last' = Zero /\ undone' = Zero /\ shots' = [id \in 0..MaxExecutes |-> NoShot]
      /\ status' = [s \in Sessions |-> "none"]
      /\ cut' = cut \cup {call[s].id : s \in Running}
      /\ call' = [s \in Sessions |-> IF s \in Running THEN [call[s] EXCEPT !.orphan = TRUE]
                                                     ELSE Idle]
  BY DEF Stop, Running
<1>2. DOMAIN NoShot = {} /\ NoShot \in Shots
  <2>1. NoShot \in [{} -> SUBSET Executions]
    BY DEF NoShot
  <2> QED
    BY <2>1 DEF Shots, NoShot
<1>3. \A id \in 0..MaxExecutes : DOMAIN shots'[id] = {}
  BY <1>1, <1>2
<1>4. ASSUME NEW s \in Sessions
      PROVE  /\ call[s].pc = "executing" =>
                  /\ call'[s] \in CallRecords /\ call'[s].pc = "executing"
                  /\ call'[s].id = call[s].id /\ call'[s].plan = call[s].plan
                  /\ call'[s].todo = call[s].todo /\ call'[s].orphan
             /\ call[s].pc # "executing" => call'[s] = Idle
  <2>1. CASE call[s].pc = "executing"
    <3>1. call[s] \in CallRecords
      BY <2>1, CallForms DEF IInv
    <3>2. call'[s] = [call[s] EXCEPT !.orphan = TRUE]
      BY <2>1, <1>1 DEF Running
    <3> QED
      BY <2>1, <3>1, <3>2 DEF CallRecords
  <2>2. CASE call[s].pc # "executing"
    BY <2>2, <1>1 DEF Running
  <2> QED
    BY <2>1, <2>2
<1>5. \A s \in Sessions : call'[s].pc = "executing" => call[s].pc = "executing"
  BY <1>4 DEF Idle
<1>6. {call[s].id : s \in Running} \subseteq Executions
  BY CallForms DEF Running, IInv
<1>7. Types'
  <2>1. call' \in [Sessions -> {Idle, Verifying} \cup CallRecords]
    BY <1>1, <1>4
  <2>2. \A s \in Sessions : call'[s].pc = "executing" => call'[s].todo \subseteq FilesOf[call'[s].plan]
    BY <1>4, <1>5 DEF IInv, Types
  <2>3. saved' \in [Sessions -> Saves]
    <3>1. \A s \in Sessions : Snapshot(s, "development") \in Saves /\ saved[s] \in Saves
      BY DEF IInv, Types, Snapshot, Saves, Modes
    <3> QED
      BY <3>1 DEF Stop, Flushed
  <2>4. status' \in [Sessions -> Statuses] /\ node' \in [Sessions -> Statuses]
    BY DEF Stop, Statuses
  <2>5. last' \in [Sessions -> 0..MaxExecutes] /\ undone' \in [Sessions -> 0..MaxExecutes]
        /\ touched' \in [Sessions -> Nat] /\ failures' \in [Sessions -> Nat]
        /\ rollbacks' \in [Sessions -> Nat] /\ marks' \in [Sessions -> SUBSET Blockers]
    BY RuntimeAssumption DEF Stop, Zero
  <2>6. calls' \in 0..MaxCalls
    BY RuntimeAssumption DEF Stop, Counted, IInv, Types
  <2>7. shots' \in [0..MaxExecutes -> Shots] /\ cut' \subseteq Executions
    BY <1>1, <1>2, <1>6 DEF IInv, Types
  <2>8. queue' \in Seq([plan : Plans, approved : BOOLEAN]) /\ active' \in Nat /\ dirty' \subseteq Sessions
    BY DEF Stop
  <2> QED
    BY <1>1, <2>1, <2>2, <2>3, <2>4, <2>5, <2>6, <2>7, <2>8 DEF IInv, Types, Stop
<1>8. \A s \in Sessions : ~Current(s)' /\ call'[s].pc # "verifying"
  BY <1>4, <1>5 DEF Current, Idle
<1>9. Serial'
  BY <1>1, <1>8 DEF Serial
<1>10. Numbered'
  <2>1. \A s \in Sessions : call'[s].pc = "executing" =>
          /\ call'[s].id <= count' /\ call'[s].id \notin ran' /\ owner'[call'[s].id] = s
          /\ call'[s].orphan <=> call'[s].id \in cut'
    <3> SUFFICES ASSUME NEW s \in Sessions, call'[s].pc = "executing"
                 PROVE  /\ call'[s].id <= count /\ call'[s].id \notin ran /\ owner[call'[s].id] = s
                        /\ call'[s].orphan <=> call'[s].id \in cut'
      BY <1>1
    <3>1. call[s].pc = "executing" /\ call'[s].id = call[s].id /\ call'[s].orphan
      BY <1>4, <1>5
    <3>2. call[s].id \in cut'
      BY <3>1, <1>1 DEF Running
    <3>3. call[s].id <= count /\ call[s].id \notin ran /\ owner[call[s].id] = s
      BY <3>1 DEF IInv, Numbered
    <3> QED
      BY <3>1, <3>2, <3>3
  <2>2. \A id \in ran' \cup cut' : id <= count'
    BY <1>1 DEF IInv, Numbered, Running
  <2>3. \A s \in Sessions : last'[s] = 0
    BY <1>1 DEF Zero
  <2>4. \A id \in Executions : id > count' => DOMAIN shots'[id] = {} /\ edited'[id] = {}
    BY <1>1, <1>3 DEF IInv, Numbered, Executions
  <2>5. \A f \in Files : \A id \in content'[f] : id <= count'
    BY <1>1 DEF IInv, Numbered
  <2> QED
    BY <2>1, <2>2, <2>3, <2>4, <2>5 DEF Numbered
<1>11. ShotsSound' /\ Apart'
  <2>1. \A id \in Executions : DOMAIN shots'[id] = {}
    BY <1>3 DEF Executions
  <2>2. cut' \subseteq Executions /\ \A f \in Files : content'[f] \subseteq Executions
    BY <1>7 DEF Types
  <2> QED
    BY <2>1, <2>2 DEF ShotsSound, Apart
<1>12. NoHalfEdits'
  <2>1. \A f \in Files : Unrestored(f)' = Unrestored(f)
    BY <1>1 DEF Unrestored
  <2>2. ASSUME NEW f \in Files, NEW e \in content'[f]
        PROVE  e \in ran' \cup cut' \cup Unrestored(f)'
    <3>1. e \in ran \cup cut \cup Unrestored(f) \cup {call[s].id : s \in Running}
      BY <2>2, <1>1 DEF IInv, NoHalfEdits
    <3> QED
      BY <3>1, <2>1, <1>1
  <2> QED
    BY <2>2 DEF NoHalfEdits
<1>13. Gone'
  BY <1>1 DEF Gone
<1>14. Kept'
  <2>1. \A id \in Executions : DOMAIN shots'[id] = {}
    BY <1>3 DEF Executions
  <2> QED
    BY <2>1, <1>1 DEF IInv, Kept
<1> QED
  BY <1>7, <1>9, <1>10, <1>11, <1>12, <1>13, <1>14 DEF IInv

-----------------------------------------------------------------------------
(* An execution starts *)

\* The steps of dispatch() and executeJob that start execution id of a plan.
Starts(s, p, id) ==
    /\ id = count + 1 /\ count' = id
    /\ life /\ ~processing /\ call[s].pc = "idle"
    /\ processing' = TRUE
    /\ shots' = [shots EXCEPT ![id] = SnapshotBefore(p)]
    /\ call' = [call EXCEPT ![s] = Executing(id, p, FilesOf[p])]
    /\ owner' = [owner EXCEPT ![id] = s]
    /\ overlapped' = (overlapped \/ \E other \in Executions :
                          owner[other] # s /\ DOMAIN shots[other] \cap FilesOf[p] # {})
    /\ UNCHANGED <<life, status, last, edited, content, ran, cut, undone, wiped, unrestored>>

\* Starting an execution keeps the invariant.
LEMMA StartsStep ==
  ASSUME IInv, Types', NEW s \in Sessions, NEW p \in Plans, NEW id \in Executions,
         Starts(s, p, id)
  PROVE  IInv'
<1>1. /\ count \in Nat /\ id = count + 1 /\ count' = id /\ id \in Nat
      /\ \A e \in Executions : e \in Nat
  BY DEF Starts, IInv, Types, Executions
<1>2. /\ UNCHANGED <<life, status, last, edited, content, ran, cut, undone, wiped, unrestored>>
      /\ life /\ ~processing /\ processing' = TRUE /\ call[s].pc = "idle"
  BY DEF Starts
<1>3. /\ \A k \in Executions : shots'[k] = IF k = id THEN SnapshotBefore(p) ELSE shots[k]
      /\ \A k \in Executions : owner'[k] = IF k = id THEN s ELSE owner[k]
  <2>1. Executions \subseteq 0..MaxExecutes
    BY DEF Executions
  <2>2. \A k \in Executions : shots'[k] = IF k = id THEN SnapshotBefore(p) ELSE shots[k]
    BY <2>1 DEF Starts, IInv, Types
  <2>3. \A k \in Executions : owner'[k] = IF k = id THEN s ELSE owner[k]
    BY DEF Starts, IInv, Types
  <2> QED
    BY <2>2, <2>3
<1>4. DOMAIN shots'[id] = FilesOf[p] /\ \A f \in FilesOf[p] : shots'[id][f] = content[f]
  BY <1>3 DEF SnapshotBefore
<1>5. /\ call'[s].pc = "executing" /\ call'[s].id = id /\ call'[s].plan = p
      /\ call'[s].orphan = FALSE
      /\ \A t \in Sessions : t # s => call'[t] = call[t]
  <2>1. call'[s] = Executing(id, p, FilesOf[p])
    BY DEF Starts, IInv, Types
  <2> QED
    BY <2>1 DEF Executing, Starts, IInv, Types
<1>6. \A t \in Sessions : ~Current(t)
  BY <1>2 DEF IInv, Serial
<1>7. \A t \in Sessions : Current(t)' <=> t = s
  BY <1>5, <1>6 DEF Current
<1>8. \A e \in ran \cup cut : e # id
  BY <1>1 DEF IInv, Numbered
<1>9. DOMAIN shots[id] = {} /\ edited[id] = {}
  BY <1>1 DEF IInv, Numbered
<1>10. \A f \in Files : content[f] \subseteq ran \cup cut \cup Unrestored(f)
  <2> SUFFICES ASSUME NEW f \in Files, NEW e \in content[f], e \notin ran \cup Unrestored(f)
               PROVE  e \in cut
    OBVIOUS
  <2>1. CASE e \in cut
    BY <2>1
  <2>2. CASE e \notin cut
    <3>1. PICK t \in Sessions : call[t].pc = "executing" /\ e = call[t].id
      BY <2>2 DEF IInv, NoHalfEdits, Running
    <3>2. call[t].orphan
      BY <3>1, <1>6 DEF Current
    <3> QED
      BY <3>1, <3>2 DEF IInv, Numbered
  <2> QED
    BY <2>1, <2>2
<1>11. Serial'
  <2>1. \A t \in Sessions : call'[t].pc = "verifying" => life'
    BY <1>2
  <2> QED
    BY <1>2, <1>4, <1>5, <1>7, <2>1 DEF Serial
<1>12. Numbered'
  <2>1. ASSUME NEW t \in Sessions, call'[t].pc = "executing"
        PROVE  /\ call'[t].id <= count' /\ call'[t].id \notin ran' /\ owner'[call'[t].id] = t
               /\ call'[t].orphan <=> call'[t].id \in cut'
    <3>1. CASE t = s
      BY <3>1, <1>1, <1>2, <1>3, <1>5, <1>8
    <3>2. CASE t # s
      <4>1. call'[t] = call[t] /\ call[t].pc = "executing" /\ call[t].id \in Executions
        BY <2>1, <3>2, <1>5, CallForms DEF IInv
      <4>2. /\ call[t].id <= count /\ call[t].id \notin ran /\ owner[call[t].id] = t
            /\ call[t].orphan <=> call[t].id \in cut
        BY <4>1 DEF IInv, Numbered
      <4>3. call[t].id # id /\ call[t].id <= count'
        <5>1. call[t].id \in Nat
          BY <4>1, <1>1
        <5> QED
          BY <4>2, <5>1, <1>1
      <4> QED
        BY <4>1, <4>2, <4>3, <1>2, <1>3
    <3> QED
      BY <3>1, <3>2
  <2>2. \A e \in ran' \cup cut' : e <= count'
    <3>1. ran \cup cut \subseteq Executions
      BY DEF IInv, Types
    <3> SUFFICES ASSUME NEW e \in ran \cup cut PROVE e <= count'
      BY <1>2
    <3>2. e \in Nat /\ e <= count
      BY <3>1, <1>1 DEF IInv, Numbered
    <3> QED
      BY <3>2, <1>1
  <2>3. ASSUME NEW t \in Sessions, last'[t] # 0
        PROVE  last'[t] \in ran' /\ last'[t] \notin cut' /\ owner'[last'[t]] = t
    <3>1. last[t] \in ran /\ last[t] \notin cut /\ owner[last[t]] = t /\ ran \subseteq Executions
      BY <2>3, <1>2 DEF IInv, Types, Numbered
    <3> QED
      BY <3>1, <1>2, <1>3, <1>8
  <2>4. ASSUME NEW e \in Executions, e > count' PROVE DOMAIN shots'[e] = {} /\ edited'[e] = {}
    <3>1. e # id /\ e > count
      BY <2>4, <1>1
    <3> QED
      BY <3>1, <1>2, <1>3 DEF IInv, Numbered
  <2>5. \A f \in Files : \A e \in content'[f] : e <= count'
    <3>1. \A f \in Files : content[f] \subseteq Executions
      BY DEF IInv, Types
    <3> QED
      BY <3>1, <1>1, <1>2 DEF IInv, Numbered
  <2> QED
    BY <2>1, <2>2, <2>3, <2>4, <2>5 DEF Numbered
<1>13. /\ \A f \in Files : \A e \in content[f] : e \in Executions /\ e # id
       /\ \A k \in Executions : \A f \in DOMAIN shots[k] : \A e \in shots[k][f] :
             e \in Executions /\ e # id
  BY <1>1, HeldEdits
<1>14. ShotsSound'
  <2>1. \A f \in Files : \A e \in content'[f] : DOMAIN shots'[e] = {} \/ f \in DOMAIN shots'[e]
    BY <1>2, <1>3, <1>13 DEF IInv, ShotsSound
  <2>2. ASSUME NEW k \in Executions, NEW f \in DOMAIN shots'[k], NEW e \in shots'[k][f]
        PROVE  /\ e < k /\ e \in ran' \cup cut' \cup Unrestored(f)
               /\ DOMAIN shots'[e] = {} \/ f \in DOMAIN shots'[e]
    <3>1. CASE k = id
      <4>1. f \in Files /\ e \in content[f]
        BY <3>1, <2>2, <1>4, RuntimeAssumption
      <4>2. e \in Nat /\ e <= count
        BY <4>1, <1>1, <1>13 DEF IInv, Numbered
      <4> QED
        BY <3>1, <4>1, <4>2, <2>1, <1>1, <1>2, <1>10
    <3>2. CASE k # id
      <4>1. f \in DOMAIN shots[k] /\ e \in shots[k][f]
        BY <3>2, <2>2, <1>3
      <4>2. /\ e < k /\ e \in ran \cup cut \cup Unrestored(f)
            /\ DOMAIN shots[e] = {} \/ f \in DOMAIN shots[e]
        BY <4>1 DEF IInv, ShotsSound
      <4>3. e \in Executions /\ e # id
        BY <4>1, <1>13
      <4> QED
        BY <4>2, <4>3, <1>2, <1>3
    <3> QED
      BY <3>1, <3>2
  <2>3. \A k \in cut' : DOMAIN shots'[k] = {}
    <3>1. cut \subseteq Executions
      BY DEF IInv, Types
    <3> QED
      BY <3>1, <1>2, <1>3, <1>8 DEF IInv, ShotsSound
  <2> QED
    BY <1>2, <2>1, <2>2, <2>3 DEF ShotsSound, Unrestored
<1>15. NoHalfEdits'
  BY <1>2, <1>10 DEF NoHalfEdits, Unrestored
<1>16. ~overlapped' => /\ ~overlapped
                       /\ \A other \in Executions :
                             DOMAIN shots[other] \cap FilesOf[p] # {} => owner[other] = s
  BY DEF Starts
<1>17. Apart'
  <2> SUFFICES ASSUME ~overlapped', NEW i \in Executions, NEW j \in Executions,
                      DOMAIN shots'[i] \cap DOMAIN shots'[j] # {}
               PROVE  owner'[i] = owner'[j]
    BY DEF Apart
  <2>1. CASE i # id /\ j # id
    BY <2>1, <1>3, <1>16 DEF IInv, Apart
  <2>2. CASE i = id /\ j # id
    BY <2>2, <1>3, <1>4, <1>16
  <2>3. CASE i # id /\ j = id
    BY <2>3, <1>3, <1>4, <1>16
  <2> QED
    BY <2>1, <2>2, <2>3
<1>18. Gone'
  <2> SUFFICES ASSUME ~overlapped, NEW t \in Sessions, status[t] = "rolled_back", undone[t] # 0
               PROVE  /\ owner'[undone[t]] = t /\ DOMAIN shots'[undone[t]] # {}
                      /\ call'[t].pc = "executing" => call'[t].id # undone[t]
                      /\ \A f \in Files : undone[t] \in content[f] => undone[t] \in Unrestored(f)
    BY <1>2, <1>16 DEF Gone, Unrestored
  <2>1. /\ owner[undone[t]] = t /\ DOMAIN shots[undone[t]] # {}
        /\ call[t].pc = "executing" => call[t].id # undone[t]
        /\ \A f \in Files : undone[t] \in content[f] => undone[t] \in Unrestored(f)
    BY DEF IInv, Gone
  <2>2. undone[t] \in Executions /\ undone[t] # id
    <3>1. undone[t] \in 0..MaxExecutes
      BY DEF IInv, Types
    <3>2. undone[t] \in Executions
      BY <3>1 DEF Executions
    <3> QED
      BY <2>1, <3>2, <1>9
  <2> QED
    BY <2>1, <2>2, <1>3, <1>5
<1>19. Kept'
  <2> SUFFICES ASSUME ~overlapped, NEW e \in Executions \ (wiped \cup cut), NEW f \in edited[e],
                      NEW k \in Executions
               PROVE  /\ e \in content[f]
                      /\ f \in DOMAIN shots'[k] /\ owner'[k] # owner'[e] => e \in shots'[k][f]
    BY <1>2, <1>16 DEF Kept
  <2>1. e # id
    BY <1>9
  <2>2. e \in content[f]
    BY DEF IInv, Kept
  <2>3. CASE k = id
    BY <2>2, <2>3, <1>4
  <2>4. CASE k # id
    BY <2>1, <2>2, <2>4, <1>3 DEF IInv, Kept
  <2> QED
    BY <2>2, <2>3, <2>4
<1> QED
  BY <1>11, <1>12, <1>14, <1>15, <1>17, <1>18, <1>19 DEF IInv

\* ExecuteDispatched keeps the invariant.
LEMMA ExecuteDispatchedStep ==
  ASSUME IInv, NEW p \in Plans, NEW policy \in Policies, NEW approved \in BOOLEAN,
         ExecuteDispatched(p, policy, approved)
  PROVE  IInv'
<1> DEFINE s == SessionOf[p]
           q == Enqueue(queue, [plan |-> p, approved |-> approved])
           job == Head(q)
           id == count + 1
<1>0. s \in Sessions
  BY RuntimeAssumption
<1>1. q \in Seq([plan : Plans, approved : BOOLEAN]) /\ q # <<>>
  <2> DEFINE S == [plan : Plans, approved : BOOLEAN]
             new == [plan |-> p, approved |-> approved]
  <2>1. new \in S /\ queue \in Seq(S)
    BY DEF IInv, Types
  <2> HIDE DEF S, new
  <2>2. Enqueue(queue, new) \in Seq(S) /\ Enqueue(queue, new) # <<>>
    BY <2>1, EnqueueType
  <2> QED
    BY <2>2 DEF S, new
<1>2. /\ id \in Executions /\ count' = id /\ life /\ call[s].pc = "idle"
      /\ count' \in 0..MaxExecutes
  BY RuntimeAssumption
  DEF ExecuteDispatched, Schedules, Calls, Ready, Live, IInv, Types, Executions
<1>3. queue' = Tail(q)
  BY DEF ExecuteDispatched
<1>4. /\ UNCHANGED <<life, mode, born, planned, touched, failures, last, store, calls,
                     status, node, marks, rollbacks, edited, content, ran, cut, undone, wiped, unrestored>>
      /\ ~processing
  BY DEF ExecuteDispatched, Schedules, Calls
<1>5. CASE PolicyAllows(job.plan, policy, job.approved)
  <2>0. job.plan \in Plans
    <3> HIDE DEF q
    <3>1. job \in [plan : Plans, approved : BOOLEAN]
      BY <1>1, HeadTailProperties
    <3> QED
      BY <3>1
  <2>1. /\ processing' = TRUE /\ active' = active + 1
        /\ shots' = [shots EXCEPT ![id] = SnapshotBefore(job.plan)]
        /\ latest' = [latest EXCEPT ![job.plan] = id]
        /\ call' = [call EXCEPT ![s] = Executing(id, job.plan, FilesOf[job.plan])]
        /\ owner' = [owner EXCEPT ![id] = s]
        /\ overlapped' = (overlapped \/ \E other \in Executions :
                              owner[other] # s /\ DOMAIN shots[other] \cap FilesOf[job.plan] # {})
    BY <1>5 DEF ExecuteDispatched
  <2> HIDE DEF s, q
  <2>2. queue' \in Seq([plan : Plans, approved : BOOLEAN])
    BY <1>1, <1>3
  <2> HIDE DEF job
  <2>3. Starts(s, job.plan, id)
    BY <1>2, <1>4, <2>1 DEF Starts
  <2>4. SnapshotBefore(job.plan) \in Shots
    <3>1. SnapshotBefore(job.plan) \in [FilesOf[job.plan] -> SUBSET Executions]
      BY <2>0, RuntimeAssumption DEF SnapshotBefore, IInv, Types
    <3>2. FilesOf[job.plan] \in SUBSET Files
      BY <2>0, RuntimeAssumption
    <3> QED
      BY <3>1, <3>2 DEF Shots
  <2>5. Executing(id, job.plan, FilesOf[job.plan]) \in CallRecords
    BY <1>2, <2>0, RuntimeAssumption DEF Executing, CallRecords
  <2> HIDE DEF id
  <2>6. id \in 0..MaxExecutes
    BY <1>2 DEF Executions
  <2>7. Types'
    <3>1. shots' \in [0..MaxExecutes -> Shots] /\ owner' \in [Executions -> Sessions \cup {0}]
          /\ latest' \in [Plans -> 0..MaxExecutes] /\ active' \in Nat
      <4>1. shots' \in [0..MaxExecutes -> Shots]
        BY <2>1, <2>4, <2>6 DEF IInv, Types
      <4>2. owner' \in [Executions -> Sessions \cup {0}]
        BY <1>0, <2>1 DEF IInv, Types
      <4>3. latest' \in [Plans -> 0..MaxExecutes] /\ active' \in Nat
        <5>1. latest \in [Plans -> 0..MaxExecutes] /\ active \in Nat
          BY DEF IInv, Types
        <5>2. active' \in Nat
          BY <5>1, <2>1
        <5>3. latest' \in [Plans -> 0..MaxExecutes]
          BY <5>1, <2>0, <2>1, <2>6
        <5> QED
          BY <5>2, <5>3
      <4> QED
        BY <4>1, <4>2, <4>3
    <3>2. call' \in [Sessions -> {Idle, Verifying} \cup CallRecords]
      BY <2>1, <2>5 DEF IInv, Types
    <3>3. \A t \in Sessions : call'[t].pc = "executing" => call'[t].todo \subseteq FilesOf[call'[t].plan]
      BY <1>0, <2>1 DEF IInv, Types, Executing
    <3>4. overlapped' \in BOOLEAN
      BY <2>1
    <3> QED
      BY <1>2, <1>4, <2>1, <2>2, <3>1, <3>2, <3>3, <3>4 DEF IInv, Types, store
  <2> QED
    BY <1>0, <1>2, <2>0, <2>3, <2>7, StartsStep
<1>6. CASE ~PolicyAllows(job.plan, policy, job.approved)
  <2>1. UNCHANGED <<processing, active, shots, latest, call, owner, overlapped>>
    BY <1>6 DEF ExecuteDispatched
  <2> HIDE DEF s, q
  <2>2. queue' \in Seq([plan : Plans, approved : BOOLEAN])
    BY <1>1, <1>3
  <2>3. Types'
    BY <1>2, <1>4, <2>1, <2>2 DEF IInv, Types, store
  <2>4. Quiet
    BY <1>2, <1>4, <2>1 DEF Quiet, SameCalls
  <2> QED
    BY <2>3, <2>4, QuietStep
<1> QED
  BY <1>5, <1>6

-----------------------------------------------------------------------------
(* Snapshots are discarded, or calls end, and no file changes *)

\* Steps that discard snapshots or end calls keep the invariant but for its types.
LEMMA LeaveFiles ==
  ASSUME IInv,
         UNCHANGED <<last, edited, content, count, ran, cut, undone, wiped, unrestored, owner, overlapped>>,
         \A k \in Executions : DOMAIN shots'[k] = {} \/ shots'[k] = shots[k],
         \A t \in Sessions : \/ call'[t] = call[t]
                             \/ /\ call'[t] = Idle
                                /\ call[t].pc = "executing" => call[t].id \in cut,
         ~overlapped => \A t \in Sessions : status'[t] = "rolled_back" =>
             /\ status[t] = "rolled_back"
             /\ undone[t] # 0 => shots'[undone[t]] = shots[undone[t]]
  PROVE  Numbered' /\ ShotsSound' /\ NoHalfEdits' /\ Apart' /\ Gone' /\ Kept'
<1>1. \A t \in Sessions : call'[t].pc = "executing" => call'[t] = call[t]
  BY DEF Idle
<1>2. Numbered'
  <2>1. \A t \in Sessions : call'[t].pc = "executing" =>
          /\ call'[t].id <= count' /\ call'[t].id \notin ran' /\ owner'[call'[t].id] = t
          /\ call'[t].orphan <=> call'[t].id \in cut'
    BY <1>1 DEF IInv, Numbered
  <2>2. \A id \in Executions : id > count' => DOMAIN shots'[id] = {} /\ edited'[id] = {}
    BY DEF IInv, Numbered
  <2> QED
    BY <2>1, <2>2 DEF IInv, Numbered
<1>3. ShotsSound'
  <2>1. /\ cut \subseteq Executions /\ \A f \in Files : content[f] \subseteq Executions
        /\ \A k \in Executions : \A f \in DOMAIN shots[k] : \A e \in shots[k][f] : e \in Executions
    BY HeldEdits DEF IInv, Types
  <2>2. \A f \in Files : \A e \in content'[f] : DOMAIN shots'[e] = {} \/ f \in DOMAIN shots'[e]
    BY <2>1 DEF IInv, ShotsSound
  <2>3. \A id \in cut' : DOMAIN shots'[id] = {}
    BY <2>1 DEF IInv, ShotsSound
  <2>4. ASSUME NEW id \in Executions, NEW f \in DOMAIN shots'[id], NEW e \in shots'[id][f]
        PROVE  /\ e < id /\ e \in ran' \cup cut' \cup Unrestored(f)
               /\ DOMAIN shots'[e] = {} \/ f \in DOMAIN shots'[e]
    <3>1. shots'[id] = shots[id] /\ f \in DOMAIN shots[id] /\ e \in shots[id][f]
      BY <2>4
    <3>2. /\ e < id /\ e \in ran \cup cut \cup Unrestored(f)
          /\ DOMAIN shots[e] = {} \/ f \in DOMAIN shots[e]
      BY <3>1 DEF IInv, ShotsSound
    <3> QED
      BY <2>1, <3>1, <3>2
  <2> QED
    BY <2>2, <2>3, <2>4 DEF ShotsSound, Unrestored
<1>4. NoHalfEdits'
  <2> SUFFICES ASSUME NEW f \in Files, NEW e \in content[f], e \notin ran \cup cut \cup Unrestored(f)
               PROVE  e \in {call'[t].id : t \in Running'}
    BY DEF NoHalfEdits, Unrestored
  <2>1. PICK t \in Sessions : call[t].pc = "executing" /\ e = call[t].id
    BY DEF IInv, NoHalfEdits, Running
  <2>2. call'[t] = call[t]
    BY <2>1
  <2> QED
    BY <2>1, <2>2 DEF Running
<1>5. Apart'
  BY DEF IInv, Apart
<1>6. Gone'
  <2> SUFFICES ASSUME ~overlapped, NEW t \in Sessions, status'[t] = "rolled_back", undone[t] # 0
               PROVE  /\ owner[undone[t]] = t /\ DOMAIN shots'[undone[t]] # {}
                      /\ call'[t].pc = "executing" => call'[t].id # undone[t]
                      /\ \A f \in Files : undone[t] \in content[f] => undone[t] \in Unrestored(f)
    BY DEF Gone, Unrestored
  <2>1. status[t] = "rolled_back" /\ shots'[undone[t]] = shots[undone[t]]
    OBVIOUS
  <2> QED
    BY <2>1, <1>1 DEF IInv, Gone
<1>7. Kept'
  BY DEF IInv, Kept
<1> QED
  BY <1>2, <1>3, <1>4, <1>5, <1>6, <1>7

-----------------------------------------------------------------------------
(* Rolling back *)

\* A rollback restores an execution's snapshots, but for some files, of a session
\* that is in no execution any more.
LEMMA RollbackStep ==
  ASSUME IInv, NEW s \in Sessions, NEW id \in Executions, NEW st, NEW nd,
         st # "rolled_back", NEW fails \in SUBSET DOMAIN shots[id], RollbackBut(s, id, fails, st, nd),
         UNCHANGED <<last, shots, edited, ran, cut, owner>>, count' \in {count, count + 1},
         call'[s] = Idle \/ (call'[s] = call[s] /\ call[s].pc # "executing"),
         \A t \in Sessions : t # s => call'[t] = call[t],
         call[s].pc = "executing" => call[s].id = id /\ DOMAIN shots[id] # {}
  PROVE  Numbered' /\ ShotsSound' /\ NoHalfEdits' /\ Apart' /\ Gone' /\ Kept'
<1> DEFINE back == DOMAIN shots[id] \ fails
           restores == back # {}
<1>0. call'[s].pc # "executing"
  BY DEF Idle
<1>1. \A t \in Sessions : call'[t].pc = "executing" => t # s /\ call'[t] = call[t]
  BY <1>0
<1>2. /\ \A f \in Files : content'[f] = IF f \in back THEN shots[id][f] ELSE content[f]
      /\ \A f \in back : f \in DOMAIN shots[id]
  BY DEF RollbackBut, Restored
<1>3. /\ \A t \in Sessions : status'[t] = IF t = s THEN IF restores THEN "rolled_back" ELSE st
                                         ELSE status[t]
      /\ \A t \in Sessions : undone'[t] = IF t = s /\ restores THEN id ELSE undone[t]
  BY DEF RollbackBut, IInv, Types
<1>4. /\ wiped' = IF restores THEN wiped \cup {id} \cup Own(s, back) ELSE wiped
      /\ overlapped' = (overlapped \/ (restores /\ owner[id] # s))
  BY DEF RollbackBut
<1>5. \A f \in DOMAIN shots[id] : \A e \in shots[id][f] :
          /\ e < id /\ e \in ran \cup cut \cup Unrestored(f)
          /\ DOMAIN shots[e] = {} \/ f \in DOMAIN shots[e]
  BY DEF IInv, ShotsSound
<1>12. \A f \in Files : Unrestored(f) \subseteq Unrestored(f)' /\ (f \in fails => id \in Unrestored(f)')
  BY DEF RollbackBut, Unrestored
<1> HIDE DEF back
<1>6. \A f \in Files : \A e \in content'[f] :
          (DOMAIN shots[e] = {} \/ f \in DOMAIN shots[e]) /\ e <= count
  <2> SUFFICES ASSUME NEW f \in Files, NEW e \in content'[f]
               PROVE  (DOMAIN shots[e] = {} \/ f \in DOMAIN shots[e]) /\ e <= count
    OBVIOUS
  <2>1. CASE f \in back
    BY <2>1, <1>2, <1>5, HeldEdits
  <2>2. CASE f \notin back
    BY <2>2, <1>2 DEF IInv, ShotsSound, Numbered
  <2> QED
    BY <2>1, <2>2
<1>7. Numbered'
  <2>1. count \in Nat /\ \A e \in Executions : e \in Nat /\ (e <= count => e <= count')
    BY DEF IInv, Types, Executions
  <2>2. ASSUME NEW t \in Sessions, call'[t].pc = "executing"
        PROVE  /\ call'[t].id <= count' /\ call'[t].id \notin ran' /\ owner'[call'[t].id] = t
               /\ call'[t].orphan <=> call'[t].id \in cut'
    <3>1. call'[t] = call[t] /\ call[t].pc = "executing" /\ call[t].id \in Executions
      BY <2>2, <1>1, CallForms DEF IInv
    <3> QED
      BY <2>1, <3>1 DEF IInv, Numbered
  <2>3. \A e \in ran' \cup cut' : e <= count'
    <3>1. ran \cup cut \subseteq Executions
      BY DEF IInv, Types
    <3> QED
      BY <2>1, <3>1 DEF IInv, Numbered
  <2>4. ASSUME NEW e \in Executions, e > count' PROVE DOMAIN shots'[e] = {} /\ edited'[e] = {}
    <3>1. e > count
      BY <2>1, <2>4
    <3> QED
      BY <3>1 DEF IInv, Numbered
  <2>5. ASSUME NEW f \in Files, NEW e \in content'[f] PROVE e <= count'
    <3>1. e \in Executions
      <4>1. CASE f \in back
        BY <4>1, <2>5, <1>2, HeldEdits
      <4>2. CASE f \notin back
        BY <4>2, <2>5, <1>2 DEF IInv, Types
      <4> QED
        BY <4>1, <4>2
    <3> QED
      BY <2>1, <2>5, <3>1, <1>6
  <2>6. \A t \in Sessions : last'[t] # 0 =>
          last'[t] \in ran' /\ last'[t] \notin cut' /\ owner'[last'[t]] = t
    BY DEF IInv, Numbered
  <2> QED
    BY <2>2, <2>3, <2>4, <2>5, <2>6 DEF Numbered
<1>8. ShotsSound' /\ Apart'
  <2>1. ~overlapped' => ~overlapped
    BY <1>4
  <2>2. ASSUME NEW k \in Executions, NEW f \in DOMAIN shots[k], NEW e \in shots[k][f]
        PROVE  e < k /\ e \in ran \cup cut \cup Unrestored(f)' /\ (DOMAIN shots[e] = {} \/ f \in DOMAIN shots[e])
    <3>1. f \in Files
      BY <2>2, HeldEdits
    <3> QED
      BY <2>2, <3>1, <1>12 DEF IInv, ShotsSound
  <2> QED
    BY <2>1, <2>2, <1>6 DEF IInv, ShotsSound, Apart
<1>9. NoHalfEdits'
  <2> SUFFICES ASSUME NEW f \in Files, NEW e \in content'[f], e \notin ran \cup cut \cup Unrestored(f)'
               PROVE  e \in {call'[t].id : t \in Running'}
    BY DEF NoHalfEdits
  <2>1. f \notin back /\ e \in content[f] /\ e \notin Unrestored(f)
    BY <1>2, <1>5, <1>12
  <2>2. PICK t \in Sessions : call[t].pc = "executing" /\ e = call[t].id
    BY <2>1 DEF IInv, NoHalfEdits, Running
  <2>3. t # s
    <3> SUFFICES ASSUME t = s PROVE FALSE
      OBVIOUS
    <3>1. e = id /\ DOMAIN shots[id] # {}
      BY <2>2
    <3>2. f \in DOMAIN shots[id]
      BY <2>1, <3>1 DEF IInv, ShotsSound
    <3>3. f \in fails
      BY <2>1, <3>2 DEF back
    <3> QED
      BY <3>1, <3>3, <1>12
  <2> QED
    BY <2>2, <2>3 DEF Running
<1>10. Gone'
  <2> SUFFICES ASSUME ~overlapped', NEW t \in Sessions, status'[t] = "rolled_back", undone'[t] # 0
               PROVE  /\ owner[undone'[t]] = t /\ DOMAIN shots[undone'[t]] # {}
                      /\ call'[t].pc = "executing" => call'[t].id # undone'[t]
                      /\ \A f \in Files : undone'[t] \in content'[f] => undone'[t] \in Unrestored(f)'
    BY DEF Gone
  <2>0. ~overlapped /\ (restores => owner[id] = s)
    BY <1>4
  <2>1. CASE t = s
    <3>1. restores /\ undone'[t] = id
      BY <2>1, <1>3
    <3>2. \A f \in Files : id \in content'[f] => id \in Unrestored(f)'
      <4> SUFFICES ASSUME NEW f \in Files, id \in content'[f] PROVE id \in Unrestored(f)'
        OBVIOUS
      <4>1. CASE f \in back
        BY <4>1, <1>2, <1>5 DEF Executions
      <4>2. CASE f \notin back
        <5>1. f \in DOMAIN shots[id]
          BY <4>2, <3>1, <1>2 DEF IInv, ShotsSound, back
        <5>2. f \in fails
          BY <4>2, <5>1 DEF back
        <5> QED
          BY <5>2, <1>12
      <4> QED
        BY <4>1, <4>2
    <3>3. DOMAIN shots[id] # {}
      BY <3>1 DEF back
    <3> QED
      BY <2>0, <2>1, <3>1, <3>2, <3>3, <1>0
  <2>2. CASE t # s
    <3>1. status[t] = "rolled_back" /\ undone'[t] = undone[t]
      BY <2>2, <1>3
    <3>2. /\ owner[undone[t]] = t /\ DOMAIN shots[undone[t]] # {}
          /\ call[t].pc = "executing" => call[t].id # undone[t]
          /\ \A f \in Files : undone[t] \in content[f] => undone[t] \in Unrestored(f)
      BY <2>0, <3>1 DEF IInv, Gone
    <3>3. undone[t] \in Executions
      BY <3>1 DEF IInv, Types, Executions
    <3>4. \A f \in Files : undone[t] \in content'[f] => undone[t] \in Unrestored(f)'
      <4> SUFFICES ASSUME NEW f \in Files, undone[t] \in content'[f], undone[t] \notin Unrestored(f)'
                   PROVE  FALSE
        OBVIOUS
      <4>0. undone[t] \notin content[f]
        BY <3>2, <1>12
      <4>1. f \in back /\ f \in DOMAIN shots[id] /\ undone[t] \in shots[id][f] /\ restores
        BY <4>0, <1>2
      <4>2. f \in DOMAIN shots[undone[t]]
        BY <4>1, <3>2, <1>5
      <4>3. owner[undone[t]] = owner[id]
        BY <4>1, <4>2, <2>0, <3>3 DEF IInv, Apart
      <4> QED
        BY <4>1, <4>3, <2>0, <2>2, <3>2
    <3> QED
      BY <2>2, <3>1, <3>2, <3>4
  <2> QED
    BY <2>1, <2>2
<1>11. Kept'
  <2> SUFFICES ASSUME ~overlapped', NEW e \in Executions \ (wiped' \cup cut), NEW f \in edited[e]
               PROVE  /\ e \in content'[f]
                      /\ \A k \in Executions :
                            f \in DOMAIN shots[k] /\ owner[k] # owner[e] => e \in shots[k][f]
    BY DEF Kept
  <2>1. ~overlapped /\ (restores => owner[id] = s) /\ e \notin wiped
    BY <1>4
  <2>2. /\ e \in content[f]
        /\ \A k \in Executions : f \in DOMAIN shots[k] /\ owner[k] # owner[e] => e \in shots[k][f]
    BY <2>1 DEF IInv, Kept
  <2>3. f \in Files
    BY DEF IInv, Types
  <2>4. CASE f \in back
    <3>0. f \in DOMAIN shots[id] /\ restores
      BY <2>4, <1>2
    <3>1. owner[e] # s
      BY <2>2, <2>4, <3>0, <1>4 DEF Own
    <3>2. e \in shots[id][f]
      BY <2>1, <2>2, <3>0, <3>1
    <3> QED
      BY <2>2, <2>3, <2>4, <3>2, <1>2
  <2>5. CASE f \notin back
    BY <2>2, <2>3, <2>5, <1>2
  <2> QED
    BY <2>4, <2>5
<1> QED
  BY <1>7, <1>8, <1>9, <1>10, <1>11

\* What a rollback, and what goes without one, change is well typed.
LEMMA RollbackTypes ==
  ASSUME IInv, NEW s \in Sessions, NEW id \in Executions, NEW st \in Statuses, NEW nd \in Statuses,
         NEW fails \in SUBSET DOMAIN shots[id], RollbackBut(s, id, fails, st, nd)
  PROVE  /\ rollbacks' \in [Sessions -> Nat] /\ content' \in [Files -> SUBSET Executions]
         /\ status' \in [Sessions -> Statuses] /\ node' \in [Sessions -> Statuses]
         /\ undone' \in [Sessions -> 0..MaxExecutes] /\ wiped' \subseteq Executions
         /\ unrestored' \subseteq Executions \X Files
         /\ overlapped' \in BOOLEAN
<1>1. content' \in [Files -> SUBSET Executions]
  <2>1. id \in 0..MaxExecutes
    BY DEF Executions
  <2>2. shots[id] \in [DOMAIN shots[id] -> SUBSET Executions]
    BY <2>1, ShotForms DEF IInv
  <2> QED
    BY <2>2 DEF IInv, Types, RollbackBut, Restored
<1>2. status' \in [Sessions -> Statuses] /\ node' \in [Sessions -> Statuses]
  BY DEF IInv, Types, RollbackBut, Statuses
<1>3. undone' \in [Sessions -> 0..MaxExecutes] /\ rollbacks' \in [Sessions -> Nat]
  <2>1. id \in 0..MaxExecutes
    BY DEF Executions
  <2> QED
    BY <2>1 DEF IInv, Types, RollbackBut
<1>4. wiped' \subseteq Executions /\ overlapped' \in BOOLEAN
  <2>1. Own(s, DOMAIN shots[id] \ fails) \subseteq Executions
    BY DEF Own
  <2> QED
    BY <2>1 DEF IInv, Types, RollbackBut
<1>5. unrestored' \subseteq Executions \X Files
  <2>1. id \in 0..MaxExecutes
    BY DEF Executions
  <2>2. fails \subseteq Files
    BY <2>1, ShotForms DEF IInv
  <2> QED
    BY <2>2 DEF IInv, Types, RollbackBut
<1> QED
  BY <1>1, <1>2, <1>3, <1>4, <1>5

\* Likewise without a rollback.
LEMMA NoRollbackTypes ==
  ASSUME IInv, NEW s \in Sessions, NEW st \in Statuses, NEW nd \in Statuses,
         NoRollback(s, st, nd)
  PROVE  /\ rollbacks' \in [Sessions -> Nat] /\ content' \in [Files -> SUBSET Executions]
         /\ status' \in [Sessions -> Statuses] /\ node' \in [Sessions -> Statuses]
         /\ undone' \in [Sessions -> 0..MaxExecutes] /\ wiped' \subseteq Executions
         /\ unrestored' \subseteq Executions \X Files
         /\ overlapped' \in BOOLEAN
  BY DEF IInv, Types, NoRollback

\* ExecuteOverBudget keeps the invariant.
LEMMA ExecuteOverBudgetStep ==
  ASSUME IInv, NEW p \in Plans, NEW old \in BOOLEAN, ExecuteOverBudget(p, old)
  PROVE  IInv'
<1> DEFINE s == SessionOf[p]
           id == latest[p]
<1>0. s \in Sessions /\ id \in 0..MaxExecutes /\ "failed" \in Statuses
  BY RuntimeAssumption DEF IInv, Types, Statuses
<1>1. /\ UNCHANGED <<life, mode, born, planned, touched, failures, last, store, calls,
                     queue, processing, active, call, latest, shots, edited, ran, cut, owner>>
      /\ count < MaxExecutes /\ count' = count + 1 /\ life /\ call[s].pc = "idle"
      /\ marks' = [marks EXCEPT ![s] = @ \cup {"budget"}]
  BY DEF ExecuteOverBudget, Calls, Ready, Live
<1>2. IF id # 0 THEN Rollback(s, id, "failed", "failed") ELSE NoRollback(s, "failed", "failed")
  BY DEF ExecuteOverBudget
<1> HIDE DEF s, id
<1>3. /\ rollbacks' \in [Sessions -> Nat] /\ content' \in [Files -> SUBSET Executions]
      /\ status' \in [Sessions -> Statuses] /\ node' \in [Sessions -> Statuses]
      /\ undone' \in [Sessions -> 0..MaxExecutes] /\ wiped' \subseteq Executions
      /\ unrestored' \subseteq Executions \X Files
      /\ overlapped' \in BOOLEAN
  <2>1. CASE id # 0
    <3>1. id \in Executions
      BY <1>0, <2>1 DEF Executions
    <3>2. PICK fails \in SUBSET DOMAIN shots[id] : RollbackBut(s, id, fails, "failed", "failed")
      BY <1>2, <2>1 DEF Rollback
    <3> QED
      BY <1>0, <3>1, <3>2, RollbackTypes
  <2>2. CASE id = 0
    BY <1>0, <1>2, <2>2, NoRollbackTypes
  <2> QED
    BY <2>1, <2>2
<1>4. Types'
  <2>1. marks' \in [Sessions -> SUBSET Blockers]
    BY <1>1 DEF IInv, Types, Blockers
  <2>2. count' \in 0..MaxExecutes
    BY <1>1, RuntimeAssumption DEF IInv, Types
  <2> QED
    BY <1>1, <1>3, <2>1, <2>2 DEF IInv, Types, store
<1>5. CASE id = 0
  <2>1. NoRollback(s, "failed", "failed")
    BY <1>2, <1>5
  <2>2. \A t \in Sessions : status'[t] = "rolled_back" => status[t] = "rolled_back"
    BY <2>1 DEF NoRollback, IInv, Types
  <2>3. UNCHANGED <<content, undone, wiped, unrestored, overlapped>>
    BY <2>1 DEF NoRollback
  <2>4. Quiet
    BY <1>1, <2>2, <2>3 DEF Quiet, SameCalls
  <2> QED
    BY <1>4, <2>4, QuietStep
<1>6. CASE id # 0
  <2>1. Rollback(s, id, "failed", "failed") /\ id \in Executions
    BY <1>0, <1>2, <1>6 DEF Executions
  <2>2. Serial'
    <3>1. \A t \in Sessions : Current(t)' <=> Current(t)
      BY <1>1 DEF Current
    <3> QED
      BY <1>1, <3>1 DEF IInv, Serial, Current
  <2>3. \A t \in Sessions : call[t].pc = "executing" => t # s
    BY <1>1
  <2>4. PICK fails \in SUBSET DOMAIN shots[id] : RollbackBut(s, id, fails, "failed", "failed")
    BY <2>1 DEF Rollback
  <2>5. Numbered' /\ ShotsSound' /\ NoHalfEdits' /\ Apart' /\ Gone' /\ Kept'
    BY <1>0, <1>1, <2>1, <2>3, <2>4, RollbackStep
  <2> QED
    BY <1>4, <2>2, <2>5 DEF IInv
<1> QED
  BY <1>5, <1>6

\* ExecutionFails keeps the invariant.
LEMMA ExecutionFailsStep ==
  ASSUME IInv, NEW s \in Sessions, ExecutionFails(s)
  PROVE  IInv'
<1> DEFINE id == call[s].id
<1>0. /\ call[s] \in CallRecords /\ id \in Executions /\ call[s].pc = "executing"
      /\ call[s].todo # {} /\ call[s].todo \subseteq FilesOf[call[s].plan]
  BY CallForms DEF IInv, Types, ExecutionFails
<1>1. /\ UNCHANGED <<life, mode, born, marks, planned, touched, failures, queue, last, latest,
                     shots, edited, store, count, calls, ran, cut, owner>>
      /\ call' = [call EXCEPT ![s] = Idle]
  BY DEF ExecutionFails
<1>2. processing' \in BOOLEAN /\ (processing' <=> processing /\ ~Current(s)) /\ active' \in Nat
  <2>1. call[s].orphan \in BOOLEAN
    BY <1>0 DEF CallRecords
  <2>2. processing' = IF call[s].orphan THEN processing ELSE FALSE
    BY DEF ExecutionFails, Release
  <2>3. active' \in Nat
    BY DEF ExecutionFails, Release, IInv, Types
  <2>4. Current(s) <=> ~call[s].orphan
    BY <1>0 DEF Current
  <2>5. CASE call[s].orphan
    <3>1. processing' = processing /\ processing \in BOOLEAN
      BY <2>2, <2>5 DEF IInv, Types
    <3> QED
      BY <2>5, <2>3, <2>4, <3>1
  <2>6. CASE ~call[s].orphan
    <3>1. processing' = FALSE
      BY <2>2, <2>6
    <3> QED
      BY <2>6, <2>3, <2>4, <3>1
  <2> QED
    BY <2>5, <2>6
<1>3. /\ ~call[s].orphan => Rollback(s, id, "failed", node[s])
      /\ call[s].orphan => /\ rollbacks' = [rollbacks EXCEPT ![s] = @ + 1]
                           /\ UNCHANGED <<status, node, content, undone, wiped, unrestored, overlapped>>
  BY DEF ExecutionFails
<1>4. id \in cut <=> call[s].orphan
  BY <1>0 DEF IInv, Numbered
<1>5. life \/ undone' = undone
  <2>1. CASE call[s].orphan
    BY <1>3, <2>1
  <2>2. CASE ~call[s].orphan
    BY <2>2, <1>0 DEF IInv, Serial, Current
  <2> QED
    BY <2>1, <2>2
<1>6. /\ Serial'
      /\ call' \in [Sessions -> {Idle, Verifying} \cup CallRecords]
      /\ \A t \in Sessions : call'[t].pc = "executing" => call'[t].todo \subseteq FilesOf[call'[t].plan]
      /\ \A t \in Sessions : call'[t] = IF t = s THEN Idle ELSE call[t]
  BY <1>1, <1>2, <1>5, EndCall
<1>7. /\ rollbacks' \in [Sessions -> Nat] /\ content' \in [Files -> SUBSET Executions]
      /\ status' \in [Sessions -> Statuses] /\ node' \in [Sessions -> Statuses]
      /\ undone' \in [Sessions -> 0..MaxExecutes] /\ wiped' \subseteq Executions
      /\ unrestored' \subseteq Executions \X Files
      /\ overlapped' \in BOOLEAN
  <2>1. CASE call[s].orphan
    <3>1. /\ rollbacks' = [rollbacks EXCEPT ![s] = @ + 1]
          /\ UNCHANGED <<status, node, content, undone, wiped, unrestored, overlapped>>
      BY <1>3, <2>1
    <3>2. rollbacks' \in [Sessions -> Nat]
      BY <3>1 DEF IInv, Types
    <3> QED
      BY <3>1, <3>2 DEF IInv, Types
  <2>2. CASE ~call[s].orphan
    <3>1. "failed" \in Statuses /\ node[s] \in Statuses
      BY DEF IInv, Types, Statuses
    <3> HIDE DEF id
    <3>2. PICK fails \in SUBSET DOMAIN shots[id] : RollbackBut(s, id, fails, "failed", node[s])
      BY <1>3, <2>2 DEF Rollback
    <3> QED
      BY <1>0, <3>1, <3>2, RollbackTypes
  <2> QED
    BY <2>1, <2>2
<1>8. Types'
  BY <1>1, <1>2, <1>6, <1>7 DEF IInv, Types, store
<1>9. Numbered' /\ ShotsSound' /\ NoHalfEdits' /\ Apart' /\ Gone' /\ Kept'
  <2>1. CASE call[s].orphan
    <3>1. UNCHANGED <<status, content, undone, wiped, unrestored, overlapped>>
      BY <1>3, <2>1
    <3> QED
      BY <1>1, <1>4, <1>6, <2>1, <3>1, LeaveFiles
  <2>2. CASE ~call[s].orphan
    <3>1. DOMAIN shots[id] # {}
      BY <1>0, <2>2 DEF IInv, Serial, Current
    <3>2. call'[s] = Idle /\ \A t \in Sessions : t # s => call'[t] = call[t]
      BY <1>6
    <3>3. Rollback(s, id, "failed", node[s])
      BY <1>3, <2>2
    <3>4. call[s].id = id
      OBVIOUS
    <3> HIDE DEF id
    <3>5. PICK fails \in SUBSET DOMAIN shots[id] : RollbackBut(s, id, fails, "failed", node[s])
      BY <3>3 DEF Rollback
    <3> QED
      BY <1>0, <1>1, <3>1, <3>2, <3>5, <3>4, RollbackStep
  <2> QED
    BY <2>1, <2>2
<1> QED
  BY <1>6, <1>8, <1>9 DEF IInv

\* What the two ends of a verification have in common.
LEMMA VerifiedStep ==
  ASSUME IInv, NEW s \in Sessions, NEW passed \in BOOLEAN, NEW errors \in BOOLEAN,
         Verified(s, passed, errors),
         \A t \in Sessions : Current(t) => DOMAIN shots'[call[t].id] = DOMAIN shots[call[t].id]
  PROVE  /\ Serial' /\ call'[s] = Idle /\ \A t \in Sessions : t # s => call'[t] = call[t]
         /\ call[s].pc # "executing" /\ life
         /\ UNCHANGED <<last, edited, count, ran, cut, owner>>
         /\ (/\ rollbacks' \in [Sessions -> Nat] /\ content' \in [Files -> SUBSET Executions]
             /\ status' \in [Sessions -> Statuses] /\ node' \in [Sessions -> Statuses]
             /\ undone' \in [Sessions -> 0..MaxExecutes] /\ wiped' \subseteq Executions
             /\ unrestored' \subseteq Executions \X Files
             /\ overlapped' \in BOOLEAN /\ failures' \in [Sessions -> Nat]
             /\ shots' \in [0..MaxExecutes -> Shots])
            => Types'
<1>1. /\ UNCHANGED <<life, mode, born, planned, touched, queue, processing, active, last,
                     latest, edited, saved, count, calls, ran, cut, owner>>
      /\ call[s].pc = "verifying" /\ call' = [call EXCEPT ![s] = Idle]
      /\ marks' = [marks EXCEPT ![s] = MarksAfter(s, passed, errors)] /\ dirty' = dirty \cup {s}
  BY DEF Verified
<1>2. life
  BY <1>1 DEF IInv, Serial
<1>3. processing' \in BOOLEAN /\ (processing' <=> processing /\ ~Current(s))
  BY <1>1 DEF Current, IInv, Types
<1>4. /\ Serial'
      /\ call' \in [Sessions -> {Idle, Verifying} \cup CallRecords]
      /\ \A t \in Sessions : call'[t].pc = "executing" => call'[t].todo \subseteq FilesOf[call'[t].plan]
      /\ \A t \in Sessions : call'[t] = IF t = s THEN Idle ELSE call[t]
  BY <1>1, <1>2, <1>3, EndCall
<1>5. marks' \in [Sessions -> SUBSET Blockers] /\ dirty' \subseteq Sessions
  <2>1. marks[s] \subseteq Blockers
    BY DEF IInv, Types
  <2>2. MarksAfter(s, passed, errors) \subseteq Blockers
    BY <2>1 DEF MarksAfter, Blockers
  <2> QED
    BY <1>1, <2>2 DEF IInv, Types
<1>6. (/\ rollbacks' \in [Sessions -> Nat] /\ content' \in [Files -> SUBSET Executions]
       /\ status' \in [Sessions -> Statuses] /\ node' \in [Sessions -> Statuses]
       /\ undone' \in [Sessions -> 0..MaxExecutes] /\ wiped' \subseteq Executions
       /\ unrestored' \subseteq Executions \X Files
       /\ overlapped' \in BOOLEAN /\ failures' \in [Sessions -> Nat]
       /\ shots' \in [0..MaxExecutes -> Shots])
      => Types'
  BY <1>1, <1>3, <1>4, <1>5 DEF IInv, Types
<1> QED
  BY <1>1, <1>2, <1>4, <1>6

\* VerifyCompletes keeps the invariant.
LEMMA VerifyCompletesStep ==
  ASSUME IInv, NEW s \in Sessions, NEW errors \in BOOLEAN, VerifyCompletes(s, errors)
  PROVE  IInv'
<1>0. /\ Verified(s, TRUE, errors) /\ NoRollback(s, "completed", "completed")
      /\ shots' = [shots EXCEPT ![last[s]] = NoShot] /\ failures' = failures
  BY DEF VerifyCompletes
<1>1. DOMAIN NoShot = {} /\ NoShot \in Shots
  <2>1. NoShot \in [{} -> SUBSET Executions]
    BY DEF NoShot
  <2> QED
    BY <2>1 DEF Shots, NoShot
<1>2. \A k \in 0..MaxExecutes : shots'[k] = IF k = last[s] THEN NoShot ELSE shots[k]
  BY <1>0 DEF IInv, Types
<1>3. \A t \in Sessions : Current(t) => DOMAIN shots'[call[t].id] = DOMAIN shots[call[t].id]
  <2> SUFFICES ASSUME NEW t \in Sessions, Current(t)
               PROVE  DOMAIN shots'[call[t].id] = DOMAIN shots[call[t].id]
    OBVIOUS
  <2>1. call[t].id \in 0..MaxExecutes /\ call[t].id # 0 /\ call[t].id \notin ran
    BY CallForms DEF IInv, Numbered, Current, Executions
  <2>2. call[t].id # last[s]
    BY <2>1 DEF IInv, Numbered
  <2> QED
    BY <1>2, <2>1, <2>2
<1>4. /\ Serial' /\ call'[s] = Idle /\ \A t \in Sessions : t # s => call'[t] = call[t]
      /\ call[s].pc # "executing" /\ life
      /\ UNCHANGED <<last, edited, count, ran, cut, owner>>
      /\ (/\ rollbacks' \in [Sessions -> Nat] /\ content' \in [Files -> SUBSET Executions]
          /\ status' \in [Sessions -> Statuses] /\ node' \in [Sessions -> Statuses]
          /\ undone' \in [Sessions -> 0..MaxExecutes] /\ wiped' \subseteq Executions
          /\ unrestored' \subseteq Executions \X Files
          /\ overlapped' \in BOOLEAN /\ failures' \in [Sessions -> Nat]
          /\ shots' \in [0..MaxExecutes -> Shots])
         => Types'
  BY <1>0, <1>3, VerifiedStep
<1>5. Types'
  <2>1. "completed" \in Statuses
    BY DEF Statuses
  <2>2. shots' \in [0..MaxExecutes -> Shots] /\ failures' \in [Sessions -> Nat]
    BY <1>0, <1>1 DEF IInv, Types
  <2> QED
    BY <1>0, <1>4, <2>1, <2>2, NoRollbackTypes
<1>6. UNCHANGED <<content, undone, wiped, unrestored, overlapped>>
  BY <1>0 DEF NoRollback
<1>7. \A k \in Executions : DOMAIN shots'[k] = {} \/ shots'[k] = shots[k]
  BY <1>1, <1>2 DEF Executions
<1>8. ~overlapped => \A t \in Sessions : status'[t] = "rolled_back" =>
          /\ status[t] = "rolled_back"
          /\ undone[t] # 0 => shots'[undone[t]] = shots[undone[t]]
  <2> SUFFICES ASSUME ~overlapped, NEW t \in Sessions, status'[t] = "rolled_back"
               PROVE  /\ status[t] = "rolled_back"
                      /\ undone[t] # 0 => shots'[undone[t]] = shots[undone[t]]
    OBVIOUS
  <2>1. t # s /\ status[t] = "rolled_back"
    BY <1>0 DEF NoRollback, IInv, Types
  <2>2. ASSUME undone[t] # 0 PROVE shots'[undone[t]] = shots[undone[t]]
    <3>1. owner[undone[t]] = t /\ undone[t] \in 0..MaxExecutes
      BY <2>1, <2>2 DEF IInv, Gone, Types
    <3>2. undone[t] # last[s]
      BY <2>1, <2>2, <3>1 DEF IInv, Numbered
    <3> QED
      BY <1>2, <3>1, <3>2
  <2> QED
    BY <2>1, <2>2
<1>9. Numbered' /\ ShotsSound' /\ NoHalfEdits' /\ Apart' /\ Gone' /\ Kept'
  BY <1>4, <1>6, <1>7, <1>8, LeaveFiles
<1> QED
  BY <1>4, <1>5, <1>9 DEF IInv

\* VerifyRejects keeps the invariant.
LEMMA VerifyRejectsStep ==
  ASSUME IInv, NEW s \in Sessions, NEW passed \in BOOLEAN, NEW errors \in BOOLEAN,
         VerifyRejects(s, passed, errors)
  PROVE  IInv'
<1> DEFINE st == IF passed THEN "blocked" ELSE "failed"
           id == last[s]
<1>0. /\ Verified(s, passed, errors) /\ shots' = shots
      /\ failures' = [failures EXCEPT ![s] = IF passed THEN @ ELSE @ + 1]
      /\ IF id # 0 THEN Rollback(s, id, st, node[s]) ELSE NoRollback(s, st, node[s])
  BY DEF VerifyRejects
<1>1. /\ Serial' /\ call'[s] = Idle /\ \A t \in Sessions : t # s => call'[t] = call[t]
      /\ call[s].pc # "executing" /\ life
      /\ UNCHANGED <<last, edited, count, ran, cut, owner>>
      /\ (/\ rollbacks' \in [Sessions -> Nat] /\ content' \in [Files -> SUBSET Executions]
          /\ status' \in [Sessions -> Statuses] /\ node' \in [Sessions -> Statuses]
          /\ undone' \in [Sessions -> 0..MaxExecutes] /\ wiped' \subseteq Executions
          /\ unrestored' \subseteq Executions \X Files
          /\ overlapped' \in BOOLEAN /\ failures' \in [Sessions -> Nat]
          /\ shots' \in [0..MaxExecutes -> Shots])
         => Types'
  BY <1>0, VerifiedStep
<1>2. st \in Statuses /\ node[s] \in Statuses /\ st # "rolled_back"
  BY DEF Statuses, IInv, Types
<1>3. shots' \in [0..MaxExecutes -> Shots] /\ failures' \in [Sessions -> Nat]
  BY <1>0 DEF IInv, Types
<1>4. id \in 0..MaxExecutes
  BY DEF IInv, Types
<1> HIDE DEF st, id
<1>5. CASE id = 0
  <2>1. NoRollback(s, st, node[s])
    BY <1>0, <1>5
  <2>2. Types'
    BY <1>1, <1>2, <1>3, <2>1, NoRollbackTypes
  <2>3. \A t \in Sessions : status'[t] = "rolled_back" => status[t] = "rolled_back"
    BY <1>2, <2>1 DEF NoRollback, IInv, Types
  <2>4. UNCHANGED <<content, undone, wiped, unrestored, overlapped>>
    BY <2>1 DEF NoRollback
  <2>5. Numbered' /\ ShotsSound' /\ NoHalfEdits' /\ Apart' /\ Gone' /\ Kept'
    BY <1>0, <1>1, <2>3, <2>4, LeaveFiles
  <2> QED
    BY <1>1, <2>2, <2>5 DEF IInv
<1>6. CASE id # 0
  <2>1. Rollback(s, id, st, node[s]) /\ id \in Executions
    BY <1>0, <1>4, <1>6 DEF Executions
  <2>0. PICK fails \in SUBSET DOMAIN shots[id] : RollbackBut(s, id, fails, st, node[s])
    BY <2>1 DEF Rollback
  <2>2. Types'
    BY <1>1, <1>2, <1>3, <2>0, <2>1, RollbackTypes
  <2>3. Numbered' /\ ShotsSound' /\ NoHalfEdits' /\ Apart' /\ Gone' /\ Kept'
    BY <1>0, <1>1, <1>2, <2>0, <2>1, RollbackStep
  <2> QED
    BY <1>1, <2>2, <2>3 DEF IInv
<1> QED
  BY <1>5, <1>6

-----------------------------------------------------------------------------
(* The theorems *)

\* Every step keeps the invariant.
LEMMA NextIInv == IInv /\ [Next]_vars => IInv'
<1> SUFFICES ASSUME IInv, [Next]_vars PROVE IInv'
  OBVIOUS
<1>1. ASSUME NEW p \in Plans, PlanRepairs(p) PROVE IInv'
  BY <1>1, PlanRepairsStep
<1>2. ASSUME NEW p \in Plans, RequestApproval(p) PROVE IInv'
  BY <1>2, RequestApprovalStep
<1>3. ASSUME NEW p \in Plans, Execute(p) PROVE IInv'
  <2>1. CASE ExecuteForbidden(p)
    BY <2>1, ExecuteForbiddenStep
  <2>2. ASSUME NEW old \in BOOLEAN, ExecuteOverBudget(p, old) PROVE IInv'
    BY <2>2, ExecuteOverBudgetStep
  <2>3. ASSUME NEW policy \in Policies, NEW approved \in BOOLEAN,
               ExecuteAgainstPolicy(p, policy, approved)
        PROVE IInv'
    BY <2>3, ExecuteAgainstPolicyStep
  <2>4. ASSUME NEW policy \in Policies, NEW approved \in BOOLEAN,
               ExecuteRefused(p, policy, approved)
        PROVE IInv'
    BY <2>4, ExecuteRefusedStep
  <2>5. ASSUME NEW policy \in Policies, NEW approved \in BOOLEAN,
               ExecuteDispatched(p, policy, approved)
        PROVE IInv'
    BY <2>5, ExecuteDispatchedStep
  <2> QED
    BY <1>3, <2>1, <2>2, <2>3, <2>4, <2>5 DEF Execute
<1>4. ASSUME NEW s \in Sessions, BeginSession(s) \/ RecordAudit(s) \/ RecordGate(s) PROVE IInv'
  BY <1>4, BeginSessionStep, RecordAuditStep, RecordGateStep
<1>5. ASSUME NEW s \in Sessions, NEW f \in Files, ApplyDirective(s, f) PROVE IInv'
  BY <1>5, ApplyDirectiveStep
<1>6. ASSUME NEW s \in Sessions, ExecutionFails(s) \/ ExecutionSucceeds(s) PROVE IInv'
  BY <1>6, ExecutionFailsStep, ExecutionSucceedsStep
<1>7. ASSUME NEW s \in Sessions, Verify(s) PROVE IInv'
  <2>1. CASE VerifyStarts(s)
    BY <2>1, VerifyStartsStep
  <2>2. ASSUME NEW errors \in BOOLEAN, VerifyCompletes(s, errors) PROVE IInv'
    BY <2>2, VerifyCompletesStep
  <2>3. ASSUME NEW errors \in BOOLEAN, NEW passed \in BOOLEAN, VerifyRejects(s, passed, errors)
        PROVE IInv'
    BY <2>3, VerifyRejectsStep
  <2> QED
    BY <1>7, <2>1, <2>2, <2>3 DEF Verify
<1>8. ASSUME NEW s \in Sessions, TakeSnapshot(s) PROVE IInv'
  BY <1>8, TakeSnapshotStep
<1>9. ASSUME NEW m \in Modes, SetMode(m) PROVE IInv'
  BY <1>9, SetModeStep
<1>10. CASE Flush \/ Stop \/ Start
  BY <1>10, FlushStep, StopStep, StartStep
<1>11. CASE UNCHANGED vars
  <2>1. Types'
    BY <1>11 DEF IInv, Types, vars, graph, budget, disk, store, history
  <2>2. Quiet
    BY <1>11 DEF Quiet, SameCalls, IInv, Serial, vars, graph, disk, history
  <2> QED
    BY <2>1, <2>2, QuietStep
<1> QED
  BY <1>1, <1>2, <1>3, <1>4, <1>5, <1>6, <1>7, <1>8, <1>9, <1>10, <1>11 DEF Next

\* The invariant holds in every behaviour.
LEMMA Invariance == Spec => []IInv
<1>1. IInv /\ [Next]_vars => IInv'
  BY NextIInv
<1>2. Init => IInv
  BY InitIInv
<1> QED
  BY <1>1, <1>2, PTL DEF Spec

\* Executions of the runtime are serial, however the calls of several sessions
\* interleave and whichever session's job the scheduler dispatches for a caller.
THEOREM ExecutionsSerial == Spec => []SerialMutations
<1>1. IInv => SerialMutations
  BY SerialIsSerial DEF IInv
<1> QED
  BY <1>1, Invariance, PTL

\* A failed execution leaves nothing in any file.
THEOREM FailuresLeaveNothing == Spec => []NoHalfEdits
<1>1. IInv => NoHalfEdits
  BY DEF IInv
<1> QED
  BY <1>1, Invariance, PTL

\* What a session rolled back is in no file, while sessions do not overlap.
THEOREM RollbacksStay == Spec => []RolledBackIsGone
<1>1. IInv => RolledBackIsGone
  BY GoneIsGone DEF IInv
<1> QED
  BY <1>1, Invariance, PTL

\* What a completed session executed last is on disk, while sessions do not
\* overlap and unless it rolled that back itself.
THEOREM RepairsStay == Spec => []CompletedStays
<1>1. IInv => CompletedStays
  BY KeptStays DEF IInv
<1> QED
  BY <1>1, Invariance, PTL
=============================================================================

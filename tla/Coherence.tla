------------------------------ MODULE Coherence ------------------------------
(***************************************************************************)
(* Coherence tokens of lib/agent/native_mutation.py.                       *)
(*                                                                         *)
(* Agents working on different tasks patch the files of one workspace.  A  *)
(* task obtains a token that anchors the hashes of files and names the     *)
(* revision of the workspace; a patch presents both and is refused if they *)
(* are out of date.  A refusal and a status name the revision too; a task  *)
(* presents the last it was told.  All of it lives in mutation-state.json, *)
(* which every operation reads, changes and writes back without a lock:    *)
(* operations are several steps, between which another task may run (if    *)
(* Overlap) and any process may be killed.                                 *)
(*                                                                         *)
(* The content of a file is the set of edits in it, the first of which     *)
(* made the file; its hash is the content itself.  A read of a missing or  *)
(* truncated state file yields the default state: Default stands for both. *)
(***************************************************************************)
EXTENDS Naturals, Sequences

CONSTANTS
    Tasks,      \* task ids, each worked on by a process of its own
    Anonymous,  \* clients without a task id, whose patches are not checked
    Paths,      \* files of the workspace
    Overlap,    \* operations overlap each other and edits from outside
    MaxEdits,   \* bound: edits of files, by patches and from outside
    Exposed,    \* the files that may be changed by other means
    MaxVerify,  \* bound: the verify revision
    MaxFaults   \* bound: killed processes, lost answers and expired tokens

ASSUME CoherenceAssumption ==
    /\ Tasks \cap Anonymous = {} /\ Overlap \in BOOLEAN /\ Exposed \subseteq Paths
    /\ {MaxEdits, MaxVerify, MaxFaults} \subseteq Nat
    /\ MaxEdits > 0 /\ Paths # {}

VARIABLES
    file,     \* the content of each file
    state,    \* the state file
    op,       \* what each client is doing
    held,     \* the token and revision each task got last
    faults,   \* number of crashes and expiries so far
    edits,    \* number of edits so far; each new one has the next number
    seen,     \* history: the content of files as each task observed it last
    recorded  \* history: what patches recorded as the content of each file

vars == <<file, state, op, held, faults, edits, seen, recorded>>

Clients == Tasks \cup Anonymous

NoFile == {0}
Content == (SUBSET (1..MaxEdits)) \cup {NoFile}
Hashes == [Paths -> Content]

(* A token's id is coh_<position>: tokens are never removed.                *)
Token == [task: Tasks, ver: Nat, expired: BOOLEAN, anchors: Hashes]
State == [rev: Nat, ver: Nat, tracked: Hashes, tokens: Seq(Token)]
Default == [rev |-> 1, ver |-> 0, tracked |-> [p \in Paths |-> NoFile], tokens |-> <<>>]

(* lost: a record whose answer will not reach the agent.                    *)
Kinds == {"issue", "refresh", "track", "verify", "record", "lost"}
(* History: a patch was recorded since the revision, a passing verify since *)
(* the token; the revision was shown by a refusal or a status.              *)
Held == [id: Nat, rev: Nat, patched: BOOLEAN, verified: BOOLEAN, shown: BOOLEAN]
Nothing == [id |-> 0, rev |-> 0, patched |-> FALSE, verified |-> FALSE, shown |-> FALSE]

(* pc: checked (a patch that passed), read, torn (its file is truncated),   *)
(* patched (not recorded yet); save and saving (the state file truncated).  *)
Op == [pc: {"idle", "checked", "read", "torn", "patched", "save", "saving"},
       kind: Kinds, path: Paths, text: Content, passed: BOOLEAN, st: State]
Idle == [pc |-> "idle", kind |-> "issue", path |-> CHOOSE p \in Paths : TRUE, text |-> {},
         passed |-> FALSE, st |-> Default]

\* The state is well typed, and two active tokens never belong to one task: issuing
\* a token replaces the one its task had.
TypeOK ==
    /\ file \in [Paths -> Content]
    /\ state \in State
    /\ \A i, j \in DOMAIN state.tokens : state.tokens[i].task = state.tokens[j].task => i = j
    /\ op \in [Clients -> Op]
    /\ held \in [Tasks -> Held]
    /\ edits \in 0..MaxEdits /\ faults \in 0..MaxFaults
    /\ seen \in [Tasks -> Hashes]
    /\ recorded \in [Paths -> SUBSET Content]

Init ==
    /\ file = [p \in Paths |-> {1}]
    /\ state = Default
    /\ op = [c \in Clients |-> Idle]
    /\ held = [t \in Tasks |-> Nothing]
    /\ edits = 1 /\ faults = 0
    /\ seen = [t \in Tasks |-> [p \in Paths |-> NoFile]]
    /\ recorded = [p \in Paths |-> {}]

-----------------------------------------------------------------------------
(* Validation                                                               *)

(* The paths whose anchors no longer match a file that exists. *)
Changed(anchors) ==
    {p \in Paths : anchors[p] # NoFile /\ file[p] # NoFile /\ anchors[p] # file[p]}

(* _validate_coherence, with the token and the revision the task holds.     *)
(* Mutated form: without the check of the revision.                         *)
ValidAnyRevision(t) ==
    /\ held[t].id \in DOMAIN state.tokens
    /\ LET token == state.tokens[held[t].id] IN
       /\ ~token.expired
       /\ token.task = t
       /\ token.ver = state.ver
       /\ Changed(token.anchors) = {}
Valid(t) ==
    /\ held[t].id \in DOMAIN state.tokens
    /\ LET token == state.tokens[held[t].id] IN
       /\ ~token.expired
       /\ token.task = t
       /\ held[t].rev = state.rev
       /\ token.ver = state.ver
       /\ Changed(token.anchors) = {}

-----------------------------------------------------------------------------
(* Operations on the state file: read and change it, truncate it, write it. *)

(* Without Overlap an operation runs to its end, or its process is killed,  *)
(* before another begins.                                                   *)
Begin(c) ==
    /\ op[c].pc = "idle"
    /\ Overlap \/ \A d \in Clients : op[d].pc = "idle"

(* The hashes of the files in paths that exist, over those in old. *)
Rehash(old, paths) ==
    [p \in Paths |-> IF p \in paths /\ file[p] # NoFile THEN file[p] ELSE old[p]]

(* The token of the task, or the position of the one to be added.           *)
TokenOf(st, t) ==
    IF \E i \in DOMAIN st.tokens : st.tokens[i].task = t
    THEN CHOOSE i \in DOMAIN st.tokens : st.tokens[i].task = t
    ELSE Len(st.tokens) + 1

Anchored(st) == {p \in Paths : st.tracked[p] # NoFile}

(* issue_coherence_token, also at the end of get_status with no paths.      *)
Issued(st, t, paths) ==
    LET id == TokenOf(st, t)
        old == IF id \in DOMAIN st.tokens THEN st.tokens[id].anchors ELSE Default.tracked
        token == [task |-> t, ver |-> st.ver, expired |-> FALSE,
                  anchors |-> Rehash(old, paths \cup Anchored(st))]
    IN  [st EXCEPT !.tokens = [i \in DOMAIN @ \cup {id} |-> IF i = id THEN token ELSE @[i]],
                   !.tracked = Rehash(@, paths \cup Anchored(st))]

Save(c, kind, path, passed, st) ==
    op' = [op EXCEPT ![c] = [Idle EXCEPT !.pc = "save", !.kind = kind, !.path = path,
                                         !.passed = passed, !.st = st]]

(* The agent is given hashes, and counts as having observed the files: that *)
(* a file changed by other means is not told where :741 moved its hash.     *)
Issue(t, paths) ==
    /\ Begin(t)
    /\ Save(t, "issue", Idle.path, FALSE, Issued(state, t, paths))
    /\ seen' = [seen EXCEPT ![t] = Rehash(@, paths \cup Anchored(state))]
    /\ UNCHANGED <<file, state, held, edits, faults, recorded>>

(* refresh_anchor: every token is brought up to date, whoever asks.         *)
Refreshed(st, paths) ==
    LET now(old) == [p \in Paths |-> IF p \in paths THEN file[p] ELSE old[p]]
        renewed(token) == [token EXCEPT !.ver = st.ver, !.anchors = now(token.anchors)]
    IN  [st EXCEPT !.tracked = now(st.tracked),
                   !.tokens = [i \in DOMAIN st.tokens |-> renewed(st.tokens[i])]]

Refresh(c, paths) ==
    LET refreshed == IF paths = {} THEN Anchored(state) ELSE paths IN
    /\ Begin(c)
    /\ Save(c, "refresh", Idle.path, FALSE, Refreshed(state, refreshed))
    /\ seen' = [t \in Tasks |-> [p \in Paths |->
                   IF p \in refreshed THEN file[p] ELSE seen[t][p]]]
    /\ UNCHANGED <<file, state, held, edits, faults, recorded>>

(* The hook on read_file, auto_track_file_read: the task has read the file. *)
(* Mutated form: it anchors the file for every task.                        *)
TrackedForAll(st, t, p) ==
    [st EXCEPT !.tracked[p] = file[p],
               !.tokens = [i \in DOMAIN @ |-> [@[i] EXCEPT !.anchors[p] = file[p]]]]
Tracked(st, t, p) ==
    [st EXCEPT !.tracked[p] = file[p],
               !.tokens = [i \in DOMAIN @ |->
                   IF @[i].task = t THEN [@[i] EXCEPT !.anchors[p] = file[p]] ELSE @[i]]]

ReadFile(t, p) ==
    /\ Begin(t) /\ file[p] # NoFile
    /\ Save(t, "track", p, FALSE, Tracked(state, t, p))
    /\ seen' = [seen EXCEPT ![t][p] = file[p]]
    /\ UNCHANGED <<file, state, held, edits, faults, recorded>>

(* apply_verify, from the moment its command has ended.                     *)
Verify(c, passed) ==
    /\ Begin(c) /\ state.ver < MaxVerify
    /\ Save(c, "verify", Idle.path, passed,
            IF passed THEN [state EXCEPT !.ver = @ + 1] ELSE state)
    /\ UNCHANGED <<file, state, held, edits, seen, faults, recorded>>

Truncate(c) ==
    /\ op[c].pc = "save"
    /\ op' = [op EXCEPT ![c].pc = "saving"]
    /\ state' = Default
    /\ UNCHANGED <<file, held, edits, seen, faults, recorded>>

(* The state is written and the operation returns: an issue with the token, *)
(* a patch with the new revision (the code adds 1 to a revision it read     *)
(* just before: the same, unless operations overlap).  A refresh tells      *)
(* every task.                                                              *)
Written(c) ==
    /\ op[c].pc = "saving"
    /\ op' = [op EXCEPT ![c] = Idle]
    /\ state' = op[c].st

ReturnIssue(t) ==
    /\ Written(t) /\ op[t].kind = "issue"
    /\ held' = [held EXCEPT ![t] = [Nothing EXCEPT !.id = TokenOf(state', t), !.rev = state'.rev]]
    /\ UNCHANGED <<file, edits, seen, faults, recorded>>

(* get_status without a task, and every refusal, name the current revision. *)
(* A task without a token has no use for it: an issue will tell it another. *)
Shown(t) ==
    /\ held[t].id # 0
    /\ held' = [held EXCEPT ![t].rev = state.rev, ![t].shown = TRUE, ![t].patched = FALSE]
    /\ UNCHANGED <<file, state, op, edits, seen, faults, recorded>>

Status(t) == Begin(t) /\ Shown(t)

ReturnRefresh(c) ==
    /\ Written(c) /\ op[c].kind = "refresh"
    /\ held' = [t \in Tasks |-> [held[t] EXCEPT !.verified = FALSE]]
    /\ UNCHANGED <<file, edits, seen, faults, recorded>>

ReturnTrack(t) ==
    /\ Written(t) /\ op[t].kind = "track"
    /\ UNCHANGED <<file, held, edits, seen, faults, recorded>>

ReturnVerify(c) ==
    /\ Written(c) /\ op[c].kind = "verify"
    /\ held' = [t \in Tasks |-> [held[t] EXCEPT !.verified = @ \/ op[c].passed]]
    /\ UNCHANGED <<file, edits, seen, faults, recorded>>

ReturnPatch(c) ==
    /\ Written(c) /\ op[c].kind = "record"
    /\ held' = [t \in Tasks |-> IF t = c THEN [held[t] EXCEPT !.rev = state'.rev]
                               ELSE [held[t] EXCEPT !.patched = TRUE]]
    /\ seen' = [t \in Tasks |-> IF t = c THEN [seen[t] EXCEPT ![op[c].path] = op[c].text]
                               ELSE seen[t]]
    /\ UNCHANGED <<file, edits, faults, recorded>>

(* The agent keeps its token and repeats the request or asks for the status. *)
AnswerLost(c) ==
    /\ Written(c) /\ op[c].kind = "lost"
    /\ held' = [t \in Tasks |-> [held[t] EXCEPT !.patched = TRUE]]
    /\ UNCHANGED <<file, edits, seen, faults, recorded>>

-----------------------------------------------------------------------------
(* apply_patch                                                              *)

(* It is validated, unless the client has no task. *)
Refused(t, p) ==
    /\ Begin(t) /\ file[p] # NoFile
    /\ ~Valid(t) /\ Shown(t)

PatchCheck(c, p) ==
    /\ Begin(c) /\ file[p] # NoFile
    /\ c \in Tasks => Valid(c)
    /\ op' = [op EXCEPT ![c] = [Idle EXCEPT !.pc = "checked", !.path = p]]
    /\ UNCHANGED <<file, state, held, edits, seen, faults, recorded>>

(* The file is read and the edit made in memory.  If the text to be         *)
(* replaced is not in it, or the file is gone, the patch ends here.         *)
PatchRead(c) ==
    /\ op[c].pc = "checked"
    /\ \/ /\ file[op[c].path] # NoFile /\ edits < MaxEdits
          /\ op' = [op EXCEPT ![c].pc = "read", ![c].text = file[op[c].path] \cup {edits + 1}]
          /\ edits' = edits + 1
       \/ op' = [op EXCEPT ![c] = Idle] /\ UNCHANGED edits
    /\ UNCHANGED <<file, state, held, seen, faults, recorded>>

(* write_text truncates the file, then writes it. *)
PatchTruncate(c) ==
    /\ op[c].pc = "read"
    /\ op' = [op EXCEPT ![c].pc = "torn"]
    /\ file' = [file EXCEPT ![op[c].path] = {}]
    /\ UNCHANGED <<state, held, edits, seen, faults, recorded>>

PatchWrite(c) ==
    /\ op[c].pc = "torn"
    /\ op' = [op EXCEPT ![c].pc = "patched"]
    /\ file' = [file EXCEPT ![op[c].path] = op[c].text]
    /\ UNCHANGED <<state, held, edits, seen, faults, recorded>>

(* _record_mutation_receipt: a new revision, and the file anchored anew for *)
(* every task.                                                              *)
Recorded(st, p, text) ==
    [st EXCEPT !.rev = @ + 1, !.tracked[p] = text,
               !.tokens = [i \in DOMAIN @ |-> [@[i] EXCEPT !.anchors[p] = text]]]

(* Whether the agent will get the answer is chosen here. *)
PatchRecord(c) ==
    /\ op[c].pc = "patched"
    /\ \E kind \in {"record", "lost"} :
          /\ op' = [op EXCEPT ![c].pc = "save", ![c].kind = kind,
                              ![c].st = Recorded(state, op[c].path, op[c].text)]
          /\ faults' = IF kind = "lost" THEN faults + 1 ELSE faults
    /\ faults' <= MaxFaults
    /\ recorded' = [recorded EXCEPT ![op[c].path] = @ \cup {op[c].text}]
    /\ UNCHANGED <<file, state, held, edits, seen>>

-----------------------------------------------------------------------------
(* The environment                                                          *)

(* Somebody edits, creates or deletes a file by other means. *)
Outside(p) ==
    /\ Overlap \/ \A c \in Clients : op[c].pc = "idle"
    /\ p \in Exposed
    /\ \/ /\ edits < MaxEdits /\ edits' = edits + 1
          /\ file' = [file EXCEPT ![p] = (@ \ NoFile) \cup {edits + 1}]
       \/ /\ file[p] # NoFile
          /\ file' = [file EXCEPT ![p] = NoFile]
          /\ UNCHANGED edits
    /\ UNCHANGED <<state, op, held, seen, faults, recorded>>

(* Five minutes after its issue a token expires, in every copy of the state.*)
Expire(i) ==
    LET expired(st) ==
            [st EXCEPT !.tokens = [j \in DOMAIN @ |->
                IF j = i THEN [@[j] EXCEPT !.expired = TRUE] ELSE @[j]]]
    IN  /\ i \in DOMAIN state.tokens
        /\ ~state.tokens[i].expired
        /\ faults < MaxFaults /\ faults' = faults + 1
        /\ state' = expired(state)
        /\ op' = [c \in Clients |-> [op[c] EXCEPT !.st = expired(@)]]
        /\ UNCHANGED <<file, held, edits, seen, recorded>>

(* A process is killed in the middle of an operation; the one that takes    *)
(* its place holds no token.                                                *)
Crash(c) ==
    /\ op[c].pc # "idle"
    /\ faults < MaxFaults /\ faults' = faults + 1
    /\ op' = [op EXCEPT ![c] = Idle]
    /\ IF c \in Tasks
       THEN held' = [held EXCEPT ![c] = Nothing] /\ seen' = [seen EXCEPT ![c] = Default.tracked]
       ELSE UNCHANGED <<held, seen>>
    /\ UNCHANGED <<file, state, edits, recorded>>

ClientStep(c) ==
    \/ \E paths \in SUBSET Paths : Refresh(c, paths)
    \/ \E passed \in BOOLEAN : Verify(c, passed)
    \/ Truncate(c) \/ ReturnRefresh(c) \/ ReturnVerify(c) \/ ReturnPatch(c) \/ AnswerLost(c)
    \/ \E p \in Paths : PatchCheck(c, p)
    \/ PatchRead(c) \/ PatchTruncate(c) \/ PatchWrite(c) \/ PatchRecord(c)
    \/ Crash(c)

TaskStep(t) ==
    \/ \E paths \in SUBSET Paths : Issue(t, paths)
    \/ \E p \in Paths : ReadFile(t, p)
    \/ \E p \in Paths : Refused(t, p)
    \/ Status(t) \/ ReturnIssue(t) \/ ReturnTrack(t)

Next ==
    \/ \E c \in Clients : ClientStep(c)
    \/ \E t \in Tasks : TaskStep(t)
    \/ \E p \in Paths : Outside(p)
    \/ \E i \in DOMAIN state.tokens : Expire(i)

Spec == Init /\ [][Next]_vars

-----------------------------------------------------------------------------
(* Properties                                                               *)

(* A patch that would be let through now: every file its token anchors is   *)
(* as the task observed it last, however many patches, external edits and   *)
(* crashes in the middle of an operation there were since: read it, patched *)
(* it or was given its hash with a token; a refresh tells every task.  A    *)
(* task that took the revision from a refusal or a status, and kept its old *)
(* token, may also find what a patch recorded that it had no answer of: the *)
(* record anchors the file for every token.  But never what came by other   *)
(* means.  An empty file has nothing to overwrite, and the hash of every    *)
(* other empty file.                                                        *)
AnchorsFresh ==
    \A t \in Tasks : Valid(t) =>
        \A p \in Paths : state.tokens[held[t].id].anchors[p] # NoFile =>
            \/ file[p] \in {NoFile, {}, seen[t][p]}
            \/ held[t].shown /\ file[p] \in recorded[p]

(* ... no patch was recorded since the task was told the revision it        *)
(* presents, unless it is its own and the answer told the revision: a patch *)
(* whose answer was lost, and is repeated as it was, is not made twice.     *)
(* And no verify command passed since the last issue or refresh.            *)
NothingSince == TypeOK /\ \A t \in Tasks : Valid(t) => ~held[t].patched /\ ~held[t].verified

(* A patch overwrites nothing it has not read ("atomic": True).             *)
PatchKept ==
    \A c \in Clients : op[c].pc = "read" /\ file[op[c].path] # NoFile =>
        file[op[c].path] \subseteq op[c].text
=============================================================================

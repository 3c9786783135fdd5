----------------------------- MODULE Repository -----------------------------
(***************************************************************************)
(* Repository (core/repository.ts) and the writing half of FileTree        *)
(* (core/file-tree.ts): branches of commit nodes over the buffered pool.   *)
(*                                                                         *)
(* commit() reads the head, pushes the node and the new head into the      *)
(* shadow of its author and lands them with commitWork(), under the mutex  *)
(* of the branch.  A file operation does the same under a mutex of its own *)
(* and, although it is inside runTransaction(), pushes without an agent:   *)
(* each row is visible at once.  squash() takes no mutex, reset() writes   *)
(* the head directly, merge() reads both heads before it calls commit().   *)
(* Each await is a step.                                                   *)
(*                                                                         *)
(* Data is abstracted to what is in a tree: the set of file operations a   *)
(* node's tree shows.  A node is "hier" when its metadata has a treeHash.  *)
(* One Repository instance is modelled (one refCache), over a pool that    *)
(* loses nothing (that is DbPool's subject).                               *)
(***************************************************************************)
EXTENDS Integers, Sequences, FiniteSets, FiniteSetsExt

CONSTANTS Procs,       \* concurrent callers
          Branches, Main,
          Ephemeral,   \* branches created with isEphemeral
          Kinds,       \* operations the callers use
          Authors,     \* agents; each names the shadow of its commits
          MaxNodes,    \* bound: nodes ever made, the initial one included
          MaxCalls     \* bound: calls ever made

ASSUME RepositoryAssumption ==
  /\ Main \in Branches
  /\ Ephemeral \subseteq Branches \ {Main}
  /\ MaxNodes \in Nat \ {0}
  /\ MaxCalls \in Nat

VARIABLES nodes,     \* every node ever made, in order
          stored,    \* those whose row is in the database
          trees,     \* those whose tree is in the database
          heads,     \* branch rows
          stash,     \* node the stash entry was taken from, or None
          reflog,    \* nodes the reflog names
          refCache,  \* cached heads, None when not cached
          cell,      \* per node, the node whose tree its cached tree object shows
          shadow,    \* per author, the operations pushed and not yet landed
          call,      \* what each caller is doing
          calls      \* calls made so far

VARIABLES acked,     \* history: <<branch, node>> of what was reported done
          lossy,     \* history: per branch, why it may have lost a change
          excused,   \* history: nodes whose rows may be missing, and why it is known
          stale,     \* history: branches whose cached head may be stale
          raced,     \* history: a call overlapped with the current gc()
          stashed    \* history: "no", "kept", "applied" once a pop has landed, or
                     \* "torn" when one that did not land has deleted the entry

rows == <<nodes, stored, trees, heads, stash, reflog, shadow>>
history == <<acked, lossy, excused, stale, raced, stashed>>
caches == <<refCache, cell>>
vars == <<rows, caches, call, calls, history>>

None == 0
Absent == -1           \* no row; a row without a head holds None
Node == 1 .. MaxNodes
LastNode == Len(nodes)

\* anc: the node and its ancestors; has: the file operations its tree shows.
NodeRec == [anc : SUBSET Node, hier : BOOLEAN, has : SUBSET Node]

Anc(n) == IF n \in DOMAIN nodes THEN nodes[n].anc ELSE {}
Has(n) == IF n \in DOMAIN nodes THEN nodes[n].has ELSE {}
Hier(n) == n \in DOMAIN nodes /\ nodes[n].hier
Shown(n) == IF Hier(n) THEN Has(cell[n]) ELSE Has(n)
Exists(b) == heads[b] # Absent

\* The tree a commit is given: none, or one with a treeHash, which may be the
\* tree of an existing node ("of").
Plain == [hier |-> FALSE, has |-> {}, of |-> None]
TreeOf(n) == IF Hier(n) THEN [hier |-> TRUE, has |-> Has(n), of |-> n] ELSE Plain

Idle == [kind |-> "none", step |-> "idle", branch |-> Main, node |-> None,
         tree |-> Plain, todo |-> {}, seen |-> {}, author |-> None,
         old |-> None]   \* the head the reflog will name besides the new node
Busy(p) == call[p].step # "idle"
CommitKinds == {"commit", "pop", "merge", "pick", "rebase", "squash"}
Unlocked == {"reset", "create", "delete", "stash", "gc"}

\* A file was written on Main, every other branch was created from it, and the
\* process has started.
Init ==
  /\ nodes = <<[anc |-> {1}, hier |-> TRUE, has |-> {1}]>>
  /\ stored = {1} /\ trees = {1}
  /\ heads = [b \in Branches |-> 1]
  /\ stash = None
  /\ reflog = {}
  /\ refCache = [b \in Branches |-> None]
  /\ cell = <<1>>
  /\ shadow = [a \in Authors |-> <<>>]
  /\ call = [p \in Procs |-> Idle]
  /\ calls = 0
  /\ acked = Branches \X {1}
  /\ lossy = [b \in Branches |-> {}]
  /\ excused = {} /\ stale = {} /\ raced = FALSE /\ stashed = "no"

-----------------------------------------------------------------------------
(* Refs and rows *)

\* resolveRef() of a branch: the cache first; None when there is no head.
Resolve(b) == IF refCache[b] # None THEN refCache[b]
              ELSE IF heads[b] \in Node THEN heads[b] ELSE None
Cached(b) == IF Resolve(b) = None THEN refCache
             ELSE [refCache EXCEPT ![b] = Resolve(b)]

\* findLCA() along first parents, the only ones there are: None, or one node.
CommonAncestors(m, n) == Anc(m) \cap Anc(n)
LCA(m, n) == IF CommonAncestors(m, n) = {} THEN {None}
             ELSE {l \in CommonAncestors(m, n) : CommonAncestors(m, n) \subseteq Anc(l)}

\* A row updated by name is left alone when it is not there.
SetHead(h, b, n) == IF h[b] = Absent THEN h ELSE [h EXCEPT ![b] = n]
HeadOps(ops, b) == {i \in DOMAIN ops : ops[i].head /\ ops[i].branch = b}
Landed(h, ops) ==
  [b \in Branches |-> IF h[b] = Absent \/ HeadOps(ops, b) = {} THEN h[b]
                      ELSE ops[Max(HeadOps(ops, b))].node]
Ops(ops) == {ops[i] : i \in DOMAIN ops}
NodesIn(ops) == {o.node : o \in {x \in Ops(ops) : ~ x.head}}
Op(p, isHead) == [head |-> isHead, branch |-> call[p].branch,
                  node |-> call[p].node, by |-> p]

\* commitInTransaction() reads the head through the shadow of its author; for
\* a file operation it is called without one.
VisibleHead(p) == IF call[p].kind = "file" THEN heads[call[p].branch]
                  ELSE Landed(heads, shadow[call[p].author])[call[p].branch]

\* Mutexes: one key for commits, another for file operations of the branch.
\* A file operation locks out nothing but other file operations.
Family(p) == IF call[p].kind \in CommitKinds \ {"squash"} THEN "commit"
             ELSE IF call[p].kind = "file" THEN "file" ELSE "none"
InSection(p) == call[p].step \in {"read", "node", "head", "land"}
FreeAnyway(p) == TRUE
Free(p) == \A q \in Procs \ {p} :
             ~ (InSection(q) /\ Family(q) = Family(p) /\ call[q].branch = call[p].branch)

\* A writer of the branch that the mutex of p does not keep out, or that has
\* read heads before it takes its mutex, is about to use what it read.
Overlapping(p, b) ==
  \E q \in Procs \ {p} :
    /\ Busy(q) /\ call[q].branch = b
    /\ \/ InSection(q) /\ (Family(q) # Family(p) \/ Family(q) = "none")
       \/ call[q].kind \in {"merge", "rebase"} /\ call[q].step = "wait"

Overlap(p, b) == lossy' = [lossy EXCEPT ![b] =
                             @ \cup IF Overlapping(p, b) THEN {"overlap"} ELSE {}]

\* Nodes a ref would name although they never landed or gc() has removed them.
Ghosts(n) == Anc(n) \ stored

\* A cached head will be named in the reflog, whatever has become of its row.
Remember(p) == excused' = excused \cup Ghosts(call'[p].old)

-----------------------------------------------------------------------------
(* Calls *)

\* A new call of a caller that has none in progress.
Starts(p, kind) ==
  /\ kind \in Kinds
  /\ ~ Busy(p)
  /\ calls < MaxCalls
  /\ calls' = calls + 1
  /\ raced' = (raced \/ \E q \in Procs : call[q].kind = "gc")

Begin(p, kind, b, step) ==
  /\ Starts(p, kind)
  /\ kind = "gc" \/ LastNode < MaxNodes
  /\ \E a \in IF kind \in CommitKinds THEN Authors ELSE {None} :
       call' = [call EXCEPT ![p] = [Idle EXCEPT !.kind = kind, !.branch = b, !.step = step,
                                                !.author = a,
                                                !.old = IF kind = "squash" THEN Resolve(b)
                                                        ELSE None]]

\* commit(), revert() and cherryPick() of a node without a treeHash; writeFile(),
\* deleteFile(), moveFile(), copyFile() and addSubRepo(); squash().
StartCommit(p) ==
  /\ \E b \in Branches :
       \/ Begin(p, "commit", b, "wait")
       \/ Begin(p, "file", b, "wait")
       \/ /\ Resolve(b) # None /\ Cardinality(Anc(Resolve(b))) >= 2
          /\ Begin(p, "squash", b, "read")
  /\ Remember(p)
  /\ UNCHANGED <<rows, caches, acked, lossy, stale, stashed>>

\* cherryPick() copies the metadata of the picked commit, its treeHash included.
StartPick(p) ==
  /\ \E b \in Branches, n \in stored, a \in Authors :
       /\ Hier(n)
       /\ Starts(p, "pick") /\ LastNode < MaxNodes
       /\ call' = [call EXCEPT ![p] =
            [Idle EXCEPT !.kind = "pick", !.branch = b, !.step = "wait", !.author = a,
                         !.tree = TreeOf(n)]]
  /\ UNCHANGED <<rows, caches, acked, lossy, excused, stale, stashed>>

\* mergeTrees(): what has not changed since the base is taken from the other
\* side as it is; else both trees are read through the cache and united.
Merged(m, n, base) ==
  IF Has(m) \in {Has(n), Has(base)} THEN TreeOf(n)
  ELSE IF Has(n) = Has(base) THEN TreeOf(m)
  ELSE [hier |-> TRUE, has |-> Shown(m) \cup Shown(n), of |-> None]

\* merge() up to its commit(): a treeHash only if base, source and target have
\* one.  Otherwise the merged tree is only the data of a plain commit.
StartMerge(p) ==
  /\ \E s, t \in Branches, a \in Authors :
       LET m == Resolve(s)  n == Resolve(t) IN
          /\ m # None /\ n # None /\ m # n
          /\ Starts(p, "merge") /\ LastNode < MaxNodes
          /\ \E base \in LCA(m, n) :
               call' = [call EXCEPT ![p] =
                 [Idle EXCEPT !.kind = "merge", !.branch = t, !.step = "wait", !.author = a,
                              !.old = n,
                              !.tree = IF Hier(m) /\ Hier(n) /\ Hier(base)
                                       THEN Merged(m, n, base) ELSE Plain]]
          /\ refCache' = [refCache EXCEPT ![s] = m, ![t] = n]
          /\ lossy' = [lossy EXCEPT ![t] = @ \cup lossy[s]]
  /\ Remember(p)
  /\ UNCHANGED <<cell, rows, acked, stale, stashed>>

\* The first of a set of nodes that follow each other.
Oldest(set) == CHOOSE n \in set : \A k \in set : n \in Anc(k)

\* rebase() replays the commits since the common ancestor, one commit() each,
\* on the branch as it is; it resets the branch when that only moves it forward.
StartRebase(p) ==
  /\ \E b, onto \in Branches, a \in Authors :
       LET m == Resolve(b)  n == Resolve(onto)
           replay == Anc(m) \ Anc(n)
       IN /\ m # None /\ n # None
          /\ CommonAncestors(m, n) # {}
          /\ replay # {} /\ LastNode + Cardinality(replay) <= MaxNodes
          /\ Starts(p, "rebase")
          /\ call' = [call EXCEPT ![p] =
               [Idle EXCEPT !.kind = "rebase", !.branch = b, !.step = "wait", !.author = a,
                            !.todo = replay, !.old = m,
                            !.tree = TreeOf(Oldest(replay))]]
          /\ refCache' = [refCache EXCEPT ![b] = m, ![onto] = n]
  /\ Remember(p)
  /\ UNCHANGED <<cell, rows, acked, lossy, stale, stashed>>

\* stashPop() selects the entry; two callers may select the same one.
StartPop(p) ==
  /\ stash # None
  /\ \E b \in Branches : Begin(p, "pop", b, "wait")
  /\ UNCHANGED <<rows, caches, acked, lossy, excused, stale, stashed>>

-----------------------------------------------------------------------------
(* The steps of a commit *)

Goto(p, step) == call' = [call EXCEPT ![p].step = step]

\* A file operation builds its tree on the tree of the cached head, or on
\* nothing when that node has no treeHash, and writes the tree row.  It edits
\* the cached tree object in place: from now on every node whose tree that
\* object is shows the new tree.
BuildTree(p) ==
  /\ call[p].kind = "file" /\ call[p].step = "wait"
  /\ Free(p)
  /\ LastNode < MaxNodes
  /\ LET n == LastNode + 1
         root == Resolve(call[p].branch)
         has == (IF Hier(root) THEN Shown(root) ELSE {}) \cup {n}
     IN /\ cell' = [m \in 1 .. n |-> IF m = n \/ (Hier(root) /\ cell[m] = cell[root])
                                    THEN n ELSE cell[m]]
        /\ nodes' = Append(nodes, [anc |-> {n}, hier |-> TRUE, has |-> has])
        /\ trees' = trees \cup {n}
        /\ lossy' = [lossy EXCEPT ![call[p].branch] = @ \cup
                       IF root # None /\ ~ Hier(root) THEN {"mixed"} ELSE {}]
        /\ call' = [call EXCEPT ![p].node = n, ![p].step = "read"]
  /\ refCache' = Cached(call[p].branch)
  /\ UNCHANGED <<stored, heads, stash, reflog, shadow, calls, acked, excused, stale,
                 raced, stashed>>

\* commitInTransaction() up to the node: the parent is the head it reads now.
ReadHead(p) ==
  LET c == call[p]  h == VisibleHead(p) IN
  /\ \/ c.kind \in CommitKinds /\ c.step = "wait" /\ Free(p)
     \/ c.step = "read"
  /\ h # Absent
  /\ IF c.kind = "file"
     THEN /\ nodes' = [nodes EXCEPT ![c.node].anc = @ \cup Anc(h)]
          /\ trees' = trees /\ cell' = cell
          /\ Goto(p, "node")
     ELSE LET n == LastNode + 1 IN
          /\ LastNode < MaxNodes
          /\ nodes' = Append(nodes,
               [anc |-> Anc(h) \cup {n}, hier |-> c.tree.hier,
                has |-> IF c.tree.hier THEN c.tree.has
                        ELSE IF c.kind = "squash" THEN {} ELSE Shown(h)])
          /\ cell' = Append(cell, IF c.tree.of = None THEN n ELSE cell[c.tree.of])
          /\ trees' = IF c.tree.hier THEN trees \cup {n} ELSE trees
          /\ call' = [call EXCEPT ![p].node = n, ![p].step = "node"]
  /\ lossy' = [lossy EXCEPT ![c.branch] = @ \cup
       IF c.kind \in {"pick", "rebase"} /\ c.tree.hier THEN {"picked"}
       ELSE IF c.kind = "squash" THEN {"squashed"} ELSE {}]
  /\ UNCHANGED <<stored, heads, stash, reflog, shadow, refCache, calls, acked, excused,
                 stale, raced, stashed>>

PushNode(p) ==
  /\ call[p].step = "node"
  /\ IF call[p].kind = "file"
     THEN stored' = stored \cup {call[p].node} /\ shadow' = shadow
     ELSE /\ shadow' = [shadow EXCEPT ![call[p].author] = Append(@, Op(p, FALSE))]
          /\ stored' = stored
  /\ Goto(p, "head")
  /\ UNCHANGED <<nodes, trees, heads, stash, reflog, caches, calls, history>>

\* The head is pushed and cached before it lands; a file operation is done.
PushHead(p) ==
  LET c == call[p] IN
  /\ c.step = "head"
  /\ refCache' = [refCache EXCEPT ![c.branch] = c.node]
  /\ IF c.kind = "file"
     THEN /\ heads' = SetHead(heads, c.branch, c.node)
          /\ shadow' = shadow
          /\ acked' = acked \cup IF Exists(c.branch) THEN {<<c.branch, c.node>>} ELSE {}
          /\ Overlap(p, c.branch)
          /\ call' = [call EXCEPT ![p] = Idle]
     ELSE /\ shadow' = [shadow EXCEPT ![call[p].author] = Append(@, Op(p, TRUE))]
          /\ Goto(p, "land")
          /\ UNCHANGED <<heads, acked, lossy>>
  /\ stale' = IF Exists(c.branch) THEN stale ELSE stale \cup {c.branch}
  /\ UNCHANGED <<cell, nodes, stored, trees, stash, reflog, calls, excused, raced, stashed>>

\* commitWork(): everything in the author's shadow lands, whoever pushed it;
\* nothing, when another commit's rollback has emptied it.
Land(p) ==
  LET c == call[p]  ops == shadow[call[p].author] IN
  /\ c.step = "land"
  /\ stored' = stored \cup NodesIn(ops)
  /\ heads' = Landed(heads, ops)
  /\ shadow' = [shadow EXCEPT ![call[p].author] = <<>>]
  /\ acked' = acked \cup IF Exists(c.branch) THEN {<<c.branch, c.node>>} ELSE {}
  /\ Overlap(p, c.branch)
  /\ stashed' = IF c.kind = "pop" /\ c.node \in stored' THEN "applied" ELSE stashed
  /\ Goto(p, "log")
  /\ UNCHANGED <<nodes, trees, stash, reflog, caches, calls, excused, stale, raced>>

\* After the mutex is released: the reflog entry of the commit, and that of a
\* squash(), a merge() or the last commit of a rebase(), which names the head
\* from before too; then the next commit of a rebase, or the deletion of the
\* stash entry that was applied.
Log(p) ==
  LET c == call[p]  rest == c.todo \ {Oldest(c.todo)}
      more == c.kind = "rebase" /\ rest # {}
  IN
  /\ c.step = "log"
  /\ reflog' = reflog \cup {c.node} \cup IF more THEN {} ELSE {c.old} \ {None}
  /\ IF c.kind = "pop" THEN Goto(p, "drop")
     ELSE IF more
     THEN call' = [call EXCEPT ![p].todo = rest, ![p].step = "wait",
                               ![p].tree = TreeOf(Oldest(rest))]
     ELSE call' = [call EXCEPT ![p] = Idle]
  /\ UNCHANGED <<nodes, stored, trees, heads, stash, shadow, caches, calls, history>>

DropStashFirst(p) ==
  /\ call[p].kind = "pop" /\ call[p].step \in {"wait", "drop"} /\ stash # None
  /\ stash' = None
  /\ UNCHANGED <<nodes, stored, trees, heads, reflog, shadow, caches, call, calls, history>>

DropStash(p) ==
  /\ call[p].step = "drop"
  /\ stash' = None
  /\ stashed' = IF stashed = "kept" /\ call[p].node \in excused THEN "torn" ELSE stashed
  /\ call' = [call EXCEPT ![p] = Idle]
  /\ UNCHANGED <<nodes, stored, trees, heads, reflog, shadow, caches, calls, acked,
                 lossy, excused, stale, raced>>

\* Another commit pushes into the same shadow, and reads through it.
Shared(p) == \E q \in Procs \ {p} : /\ InSection(q) /\ call[q].kind \in CommitKinds
                                    /\ call[q].author = call[p].author

\* A commit fails: the branch is gone, the audit of its data or its paths says
\* no, or the pool does.  rollbackWork() empties the shadow of the author; a
\* head that another commit of that author has landed meanwhile stays.
Fail(p) ==
  LET c == call[p]
      theirs == {o \in Ops(shadow[call[p].author]) : o.by # p}
  IN
  /\ c.kind \in CommitKinds
  /\ c.step \in {"wait", "read", "node", "land"}
  /\ c.step \in {"wait", "read"} => Free(p) /\ VisibleHead(p) = Absent
  /\ shadow' = [shadow EXCEPT ![call[p].author] = <<>>]
  /\ lossy' = [b \in Branches |-> lossy[b]
       \cup (IF \E o \in theirs : o.branch = b THEN {"torn"} ELSE {})
       \cup IF b = c.branch /\ c.step = "land" /\ heads[b] = c.node /\ Overlapping(p, b)
            THEN {"overlap"} ELSE {}]
  /\ excused' = excused \cup IF Shared(p) THEN NodesIn(shadow[call[p].author]) ELSE {}
  /\ stale' = IF c.step = "land" THEN stale \cup {c.branch} ELSE stale
  /\ call' = [call EXCEPT ![p] = Idle]
  /\ UNCHANGED <<nodes, stored, trees, heads, stash, reflog, caches, calls, acked, raced,
                 stashed>>

\* The branch is gone, or the wait for the mutex takes too long.
GiveUp(p) ==
  /\ \/ call[p].kind = "file" /\ call[p].step = "read" /\ ~ Exists(call[p].branch)
     \/ call[p].step = "wait" /\ ~ Free(p)
  /\ call' = [call EXCEPT ![p] = Idle]
  /\ UNCHANGED <<rows, caches, calls, history>>

-----------------------------------------------------------------------------
(* Operations that move refs directly *)

\* What the user asked to forget is forgotten: the branch starts anew, from a
\* head that may itself have lost changes.
Anew(p, b, from) ==
  /\ acked' = {x \in acked : x[1] # b}
  /\ lossy' = [lossy EXCEPT ![b] = from \cup IF Overlapping(p, b) THEN {"overlap"} ELSE {}]

\* reset(), hard: onto a node; soft: onto a new flat node with its tree.
Reset(p) ==
  /\ Starts(p, "reset")
  /\ \E b, to \in Branches :
       LET m == Resolve(b)  n == Resolve(to) IN
       /\ m # None /\ n # None
       /\ \/ /\ heads' = SetHead(heads, b, n)
             /\ refCache' = [refCache EXCEPT ![to] = n, ![b] = n]
             /\ reflog' = reflog \cup {m, n}
             /\ UNCHANGED <<nodes, stored, cell>>
          \/ /\ LastNode < MaxNodes
             /\ LET d == LastNode + 1 IN
                /\ nodes' = Append(nodes, [anc |-> Anc(m) \cup {d}, hier |-> FALSE,
                                           has |-> Shown(n)])
                /\ cell' = Append(cell, d)
                /\ stored' = stored \cup {d}
                /\ heads' = SetHead(heads, b, d)
                /\ refCache' = [refCache EXCEPT ![to] = n, ![b] = d]
                /\ reflog' = reflog \cup {m, d}
       /\ Anew(p, b, lossy[to])
       /\ stale' = IF Exists(b) THEN stale ELSE stale \cup {b}
       /\ excused' = excused \cup Ghosts(m) \cup Ghosts(n)
  /\ UNCHANGED <<trees, stash, shadow, call, stashed>>

\* createBranch(), from another branch or without a head.
CreateBranch(p) ==
  /\ Starts(p, "create")
  /\ \E b \in Branches :
       /\ \/ /\ heads' = [heads EXCEPT ![b] = None]
             /\ Anew(p, b, IF refCache[b] = None THEN {} ELSE lossy[b])
             /\ stale' = stale \cup {b}
             /\ UNCHANGED <<refCache, excused>>
          \/ \E from \in Branches :
               LET n == Resolve(from) IN
               /\ n # None
               /\ heads' = [heads EXCEPT ![b] = n]
               /\ Anew(p, b, lossy[from])
               /\ refCache' = [refCache EXCEPT ![from] = n, ![b] = n]
               /\ stale' = stale \ {b}
               /\ excused' = excused \cup Ghosts(n)
  /\ UNCHANGED <<cell, nodes, stored, trees, stash, reflog, shadow, call, stashed>>

DeleteBranchOnly(b) ==
  /\ heads' = [heads EXCEPT ![b] = Absent]
  /\ refCache' = refCache
ForgetBranch(b) ==
  /\ heads' = [heads EXCEPT ![b] = Absent]
  /\ refCache' = [refCache EXCEPT ![b] = None]

DeleteBranch(p) ==
  /\ Starts(p, "delete")
  /\ \E b \in Branches \ {Main} :
       /\ ForgetBranch(b)
       /\ Anew(p, b, {})
       /\ stale' = stale \ {b}
  /\ UNCHANGED <<cell, nodes, stored, trees, stash, reflog, shadow, call, excused, stashed>>

Stash(p) ==
  /\ Starts(p, "stash")
  /\ stashed = "no"
  /\ \E b \in Branches :
       /\ Resolve(b) # None
       /\ stash' = Resolve(b)
       /\ refCache' = Cached(b)
       /\ excused' = excused \cup Ghosts(Resolve(b))
  /\ stashed' = "kept"
  /\ UNCHANGED <<cell, nodes, stored, trees, heads, reflog, shadow, call, acked, lossy, stale>>

-----------------------------------------------------------------------------
(* Garbage collection and restart *)

\* gc(): branches whose hour is over are deleted, their cached heads are not.
StartGc(p) ==
  /\ Begin(p, "gc", Main, "mark")
  /\ \E expired \in SUBSET {b \in Ephemeral : Exists(b)} :
       /\ heads' = [b \in Branches |-> IF b \in expired THEN Absent ELSE heads[b]]
       /\ stale' = stale \cup expired
       /\ acked' = {x \in acked : x[1] \notin expired}
       /\ lossy' = [b \in Branches |-> lossy[b] \cup
                      IF b \in expired /\ Overlapping(p, b) THEN {"overlap"} ELSE {}]
  /\ UNCHANGED <<nodes, stored, trees, stash, reflog, shadow, caches, excused, stashed>>

RootsWithoutEphemeral == {heads[b] : b \in Branches \ Ephemeral} \cup {stash} \cup reflog
Roots == {heads[b] : b \in Branches} \cup {stash} \cup reflog
RefRoots == Roots \ {None, Absent}

\* A node or tree without a row may still be in a cache; else the gc() fails.
Mark(p) ==
  /\ call[p].step = "mark"
  /\ call' = [call EXCEPT ![p].step = "sweep", ![p].seen = UNION {Anc(n) : n \in RefRoots}]
  /\ raced' = (raced \/ \E q \in Procs \ {p} : Busy(q))
  /\ UNCHANGED <<rows, caches, calls, acked, lossy, excused, stale, stashed>>

MarkFails(p) ==
  /\ call[p].step = "mark"
  /\ \E n \in UNION {Anc(m) : m \in RefRoots} :
       n \notin stored \/ (Hier(n) /\ n \notin trees)
  /\ call' = [call EXCEPT ![p] = Idle]
  /\ raced' = \E q \in Procs \ {p} : call[q].kind = "gc"
  /\ UNCHANGED <<rows, caches, calls, acked, lossy, excused, stale, stashed>>

Sweep(p) ==
  LET gone == (stored \cup trees) \ call[p].seen IN
  /\ call[p].step = "sweep"
  /\ stored' = stored \ gone
  /\ trees' = trees \ gone
  /\ excused' = IF raced THEN excused \cup gone ELSE excused
  /\ call' = [call EXCEPT ![p] = Idle]
  /\ raced' = \E q \in Procs \ {p} : call[q].kind = "gc"
  /\ UNCHANGED <<nodes, heads, stash, reflog, shadow, caches, calls, acked, lossy, stale,
                 stashed>>

\* The process stops and starts: caches, shadows and calls are gone.
Restart ==
  /\ calls < MaxCalls
  /\ calls' = calls + 1
  /\ refCache' = [b \in Branches |-> None]
  /\ cell' = [n \in 1 .. LastNode |-> n]
  /\ shadow' = [a \in Authors |-> <<>>]
  /\ call' = [p \in Procs |-> Idle]
  /\ stale' = {} /\ raced' = FALSE
  /\ UNCHANGED <<nodes, stored, trees, heads, stash, reflog, acked, lossy, excused, stashed>>

Next ==
  \/ \E p \in Procs :
       \/ StartCommit(p) \/ StartPick(p) \/ StartMerge(p) \/ StartRebase(p) \/ StartPop(p)
       \/ BuildTree(p) \/ ReadHead(p) \/ PushNode(p) \/ PushHead(p) \/ Land(p) \/ Log(p)
       \/ DropStash(p) \/ Fail(p) \/ GiveUp(p)
       \/ Reset(p) \/ CreateBranch(p) \/ DeleteBranch(p) \/ Stash(p)
       \/ StartGc(p) \/ Mark(p) \/ MarkFails(p) \/ Sweep(p)
  \/ Restart

Spec == Init /\ [][Next]_vars

-----------------------------------------------------------------------------
(* Properties *)

\* The state is well typed: heads name nodes that were created, or none; a call
\* that is idle remembers nothing.
TypeOK ==
  /\ nodes \in Seq(NodeRec) /\ LastNode <= MaxNodes
  /\ stored \subseteq 1 .. LastNode /\ trees \subseteq 1 .. LastNode
  /\ heads \in [Branches -> 1 .. LastNode \cup {None, Absent}]
  /\ refCache \in [Branches -> 0 .. LastNode]
  /\ stash \in 0 .. LastNode /\ reflog \subseteq 1 .. LastNode
  /\ acked \subseteq Branches \X (1 .. LastNode)
  /\ \A p \in Procs : call[p].step = "idle" <=> call[p] = Idle

\* Everything reported done on a branch stays in the history of its head, and
\* every file operation in its tree, through concurrent commits, merges,
\* failures, collections and restarts.  The exceptions are the ways this code
\* is known to lose changes, each by its cause: writers of one branch that no
\* common mutex orders ("overlap"), a file operation on a head without a
\* treeHash ("mixed"), the copied tree of cherryPick() and rebase() ("picked"),
\* squash() ("squashed"), and the rollback of another commit by the same author
\* ("torn").  A merge or a new branch takes over what its source has lost.
NoLostChange ==
  \A x \in acked :
    LET b == x[1]  n == x[2] IN
    lossy[b] = {} => /\ n \in Anc(heads[b])
                     /\ n \in Has(n) => n \in Has(heads[b])

\* Every row a ref, the stash or the reflog leads to is there: a head never
\* names a node that was rolled back or collected, nor a tree that was.  The
\* exceptions: nodes another commit of the author took down with it, nodes
\* swept by a collection that overlapped with a call, and the cached head of a
\* branch, used again or named in the reflog by a reset(), merge(), rebase() or
\* squash(), whose node never landed or was collected.
RefsResolve ==
  \A n \in {heads[b] : b \in Branches} \cup {stash} \cup reflog :
    /\ Anc(n) \subseteq stored \cup excused
    /\ Hier(n) => n \in trees \cup excused

\* A stash entry is only deleted after a node that carries its data has landed,
\* whatever fails and whoever pops it at the same time (that the head leads to
\* the node is NoLostChange).  The exception: a pop that landed nothing because
\* another commit of its author was rolled back and took its node down with it.
StashKept == stashed = "kept" => stash # None

\* What resolveRef() answers from its cache is the head of the branch when no
\* writer of the branch is half way.  The exceptions: a commit that failed
\* after it warmed the cache, a branch that expired or was re-created without a
\* head, and writers no common mutex orders.
CacheTruth == TypeOK /\
  \A b \in Branches :
    \/ b \in stale \/ lossy[b] \cap {"overlap", "torn"} # {}
    \/ \E p \in Procs : InSection(p) /\ call[p].branch = b
    \/ refCache[b] \in {None, heads[b]}

\* "creating an immutable snapshot of the tree at each commit" (FileTree): with
\* nothing but file operations on branches, the tree of a head holds only what
\* was done in the history of that head.
BranchesIsolated == \A b \in Branches : Has(heads[b]) \subseteq Anc(heads[b])
=============================================================================

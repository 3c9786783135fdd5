-------------------------- MODULE RepositoryProofs --------------------------
(***************************************************************************)
(* Theorems about Repository, for any callers, branches, agents and kinds  *)
(* of calls, and any number of nodes and calls:                            *)
(*                                                                         *)
(* - what refs, stash and reflog lead to is stored, with its trees         *)
(*   (RefsResolve).  It is not inductive: a head lands with the node that  *)
(*   was pushed before it into the same shadow, so one has to know, of     *)
(*   every commit under way, which of its node's ancestors are rows, which *)
(*   wait in the shadow of its author and which it has not pushed yet      *)
(*   (InFlight); that nobody else names the node of a file operation       *)
(*   before its parent is known (Secret); that the head a merge, a rebase  *)
(*   or a squash will name in the reflog keeps its rows, or is known to    *)
(*   lack them (Remembers); and that a collection nothing overlapped with  *)
(*   sweeps by what the refs lead to now (Marked);                         *)
(*                                                                         *)
(* - the cached head is the head (CacheTruth).  PushHead sets it before    *)
(*   the head lands; in between the shadow holds the operation that makes  *)
(*   it true, unless a rollback of the same author's took it (Warmed);     *)
(*                                                                         *)
(* - a stash entry goes only after its data has landed, or a rollback by   *)
(*   the same author has taken the pop's node down (StashKept): of a pop   *)
(*   past its landing, one of the two holds (Popping);                     *)
(*                                                                         *)
(* - what was reported done on a branch is in its head (NoLostChange).     *)
(*   Of a branch without a flaw, the head carries all that was             *)
(*   acknowledged and the cached head all that the head does (Tip), and    *)
(*   every call under way carries on what it has read (Carried), unless    *)
(*   its head is already the node of a commit still at it, which another   *)
(*   commit of the author has landed (Intruded).                           *)
(***************************************************************************)
EXTENDS Repository, TLAPS

-----------------------------------------------------------------------------
(* The inductive invariant                                                  *)

Made == 1 .. LastNode
Flaws == {"overlap", "mixed", "picked", "squashed", "torn"}
Steps == {"idle", "wait", "read", "node", "head", "land", "log", "drop", "mark", "sweep"}
NodeSet(M) == [anc : SUBSET M, hier : BOOLEAN, has : SUBSET M]
TreeSet(M) == [hier : BOOLEAN, has : SUBSET M, of : M \cup {None}]
OpSet(M) == [head : BOOLEAN, branch : Branches, node : M, by : Procs]
CallSet(M) ==
  [kind : CommitKinds \cup Unlocked \cup {"file", "none"}, step : Steps, branch : Branches,
   node : M \cup {None}, tree : TreeSet(M), todo : SUBSET M, seen : SUBSET M,
   author : Authors \cup {None}, old : M \cup {None}]

NodeTypes ==
  /\ nodes \in Seq(NodeSet(Made)) /\ LastNode <= MaxNodes /\ 1 <= LastNode
  /\ cell \in Seq(Made) /\ Len(cell) = LastNode
  /\ \A n \in Made : n \in Anc(n)
RowTypes ==
  /\ stored \subseteq Made /\ trees \subseteq Made /\ reflog \subseteq Made
  /\ heads \in [Branches -> Made \cup {None, Absent}]
  /\ refCache \in [Branches -> Made \cup {None}]
  /\ stash \in Made \cup {None}
HistoryTypes ==
  /\ acked \subseteq Branches \X Made
  /\ lossy \in [Branches -> SUBSET Flaws]
  /\ excused \subseteq Made /\ stale \subseteq Branches
  /\ raced \in BOOLEAN /\ stashed \in {"no", "kept", "applied", "torn"}

(* What a step tells of the call that is at it.                             *)
Flying(c) == c.step \in {"node", "head", "land"} \/ (c.kind = "file" /\ c.step = "read")
Shaped(c) ==
  /\ c.step = "idle" => c = Idle
  /\ c.step = "wait" => c.kind \in CommitKinds \cup {"file"}
  /\ c.step = "read" => c.kind \in {"file", "squash"}
  /\ c.step \in {"node", "head"} => c.kind \in CommitKinds \cup {"file"}
  /\ c.step \in {"land", "log"} => c.kind \in CommitKinds
  /\ c.step = "drop" => c.kind = "pop"
  /\ c.step \in {"mark", "sweep"} => c.kind = "gc"
  /\ c.step # "idle" /\ c.kind \in CommitKinds => c.author \in Authors
  /\ Flying(c) \/ c.step = "log" => c.node # None
CallTypes ==
  /\ call \in [Procs -> CallSet(Made)] /\ calls \in Nat
  /\ \A p \in Procs : Shaped(call[p])

(* The operations in a shadow are those of the commits at work in it.       *)
FromCall(o, a) ==
  LET c == call[o.by] IN
  /\ c.kind \in CommitKinds /\ c.author = a /\ c.branch = o.branch /\ c.node = o.node
  /\ c.step \in {"head", "land"} /\ (o.head => c.step = "land")
ShadowTypes ==
  /\ shadow \in [Authors -> Seq(OpSet(Made))]
  /\ \A a \in Authors : \A i \in DOMAIN shadow[a] : FromCall(shadow[a][i], a)
  /\ \A a \in Authors, b \in Branches :
       HeadOps(shadow[a], b) # {} =>
         \E i \in HeadOps(shadow[a], b) : \A j \in HeadOps(shadow[a], b) : i >= j

Types == NodeTypes /\ RowTypes /\ HistoryTypes /\ CallTypes /\ ShadowTypes

(* One holder of a mutex.                                                   *)
Mutex ==
  \A p, q \in Procs :
    /\ p # q /\ InSection(p) /\ InSection(q)
    /\ call[p].branch = call[q].branch /\ Family(p) = Family(q)
    => Family(p) = "none"

(* A stash entry is dropped after a pop has landed, or was taken down with  *)
(* another commit.                                                          *)
Popped(c) == c.kind = "pop" /\ c.step \in {"log", "drop"}
Popping ==
  /\ StashKept
  /\ stash # None => stashed # "no"
  /\ \A p \in Procs :
       /\ call[p].kind = "pop" => stashed # "no"
       /\ Popped(call[p]) /\ stashed = "kept" => call[p].node \in excused

(* The cached head of a branch is its head, or the one about to land.       *)
Landing(p, b) == call[p].step = "land" /\ call[p].branch = b
Pending(p) == \E i \in DOMAIN shadow[call[p].author] :
                shadow[call[p].author][i] = Op(p, TRUE)
Warmed(b) ==
  \/ b \in stale \/ lossy[b] \cap {"overlap", "torn"} # {}
  \/ \E p, q \in Procs : p # q /\ Landing(p, b) /\ Landing(q, b)
  \/ \E p \in Procs : /\ Landing(p, b) /\ refCache[b] = call[p].node /\ Exists(b)
                      /\ heads[b] = call[p].node \/ Pending(p)
  \/ (\A p \in Procs : ~ Landing(p, b)) /\ refCache[b] \in {None, heads[b]}

(* What is reachable is stored, or will be with the commit that names it.   *)
Kept == stored \cup excused
Named == {heads[b] : b \in Branches} \cup {stash} \cup reflog
Whole == \A n \in Named : Anc(n) \subseteq Kept
Buffered(c) == IF c.kind = "file" THEN {} ELSE NodesIn(shadow[c.author])
Unpushed(c) == IF c.step \in {"read", "node"} THEN {c.node} ELSE {}
InFlight(c) ==
  /\ Flying(c) => Anc(c.node) \subseteq Kept \cup Buffered(c) \cup Unpushed(c)
  /\ c.step = "log" => Anc(c.node) \subseteq Kept
Planted ==
  \A n \in Made : Hier(n) /\ (n \in stored \/ \E p \in Procs : Flying(call[p]) /\ call[p].node = n)
                    => n \in trees \cup excused

(* A file node whose parent has not been read is known to its writer only.  *)
Secret(p) ==
  call[p].kind = "file" /\ call[p].step = "read" =>
    /\ call[p].node \notin Named /\ \A b \in Branches : refCache[b] # call[p].node
    /\ \A q \in Procs \ {p} : call[q].node # call[p].node

(* The head a call remembers is another, and is stored or excused.          *)
Hidden(c) == c.kind = "file" /\ c.step = "read"
Remembers(p) ==
  call[p].old # None =>
    /\ Anc(call[p].old) \subseteq Kept
    /\ \A q \in Procs : Hidden(call[q]) => call[q].node # call[p].old

(* A collection nothing overlapped with has marked what the refs lead to.   *)
Marked(p) ==
  call[p].step = "sweep" /\ ~ raced =>
    /\ \A q \in Procs \ {p} : call[q].step = "idle"
    /\ call[p].seen = UNION {Anc(n) : n \in RefRoots}

Resolving == /\ Whole /\ Planted
             /\ \A p \in Procs : InFlight(call[p]) /\ Remembers(p) /\ Secret(p) /\ Marked(p)
IInv == /\ Types /\ Mutex /\ Popping /\ Resolving
        /\ \A b \in Branches : Warmed(b)
-----------------------------------------------------------------------------
(* Nodes                                                                    *)

LEMMA MadeFacts ==
  ASSUME NodeTypes
  PROVE  /\ Made \subseteq Node /\ Made \subseteq Nat \ {0} /\ LastNode \in Nat \ {0}
         /\ None \notin Node /\ Absent \notin Node /\ None \notin Made /\ Absent \notin Made
         /\ LastNode + 1 \notin Made /\ None # Absent /\ Made = DOMAIN nodes
BY RepositoryAssumption DEF NodeTypes, Made, Node, None, Absent, LastNode

LEMMA NodeFacts ==
  ASSUME NodeTypes, NEW n \in Made
  PROVE  /\ nodes[n] \in NodeSet(Made) /\ cell[n] \in Made
         /\ Anc(n) = nodes[n].anc /\ Has(n) = nodes[n].has /\ Hier(n) = nodes[n].hier
         /\ Anc(n) \subseteq Made /\ Has(n) \subseteq Made /\ n \in Anc(n)
<1>1. n \in Node /\ n \in DOMAIN nodes /\ n \in DOMAIN cell
  BY MadeFacts DEF NodeTypes, Made, LastNode
<1>2. nodes[n] \in NodeSet(Made) /\ cell[n] \in Made
  BY <1>1 DEF NodeTypes
<1>3. Anc(n) = nodes[n].anc /\ Has(n) = nodes[n].has /\ Hier(n) = nodes[n].hier
  BY <1>1, <1>2 DEF Anc, Has, Hier, NodeSet
<1>4. n \in Anc(n)
  BY DEF NodeTypes
<1>5. QED BY <1>2, <1>3, <1>4 DEF NodeSet

LEMMA NoNode ==
  ASSUME NodeTypes, NEW n \in {None, Absent}
  PROVE  Anc(n) = {} /\ Has(n) = {} /\ ~Hier(n)
BY MadeFacts DEF Anc, Has, Hier

(* What a new node leaves as it is.                                         *)
LEMMA Appended ==
  ASSUME NodeTypes, NEW n \in Nat, n = LastNode + 1, LastNode < MaxNodes,
         NEW r \in NodeSet(Made \cup {n}), n \in r.anc, nodes' = Append(nodes, r)
  PROVE  /\ LastNode' = n /\ n \notin Made /\ Made' = Made \cup {n} /\ Made' = 1 .. n
         /\ \A m \in Made \cup {None, Absent} :
              Anc(m)' = Anc(m) /\ Has(m)' = Has(m) /\ Hier(m)' = Hier(m)
         /\ Anc(n)' = r.anc /\ Has(n)' = r.has /\ Hier(n)' = r.hier
         /\ nodes' \in Seq(NodeSet(Made')) /\ LastNode' <= MaxNodes /\ 1 <= LastNode'
         /\ \A m \in Made' : m \in Anc(m)'
<1>1. LastNode \in Nat \ {0} /\ MaxNodes \in Nat /\ nodes \in Seq(NodeSet(Made))
  BY MadeFacts, RepositoryAssumption DEF NodeTypes
<1>2. LastNode' = n
  BY <1>1 DEF LastNode
<1>3. Made' = Made \cup {n} /\ Made' = 1 .. n
  BY <1>1, <1>2 DEF Made
<1>4. \A m \in Made : nodes'[m] = nodes[m]
  BY <1>1 DEF Made, LastNode
<1>5. nodes'[n] = r
  BY <1>1 DEF LastNode
<1>6. /\ Made = DOMAIN nodes /\ n \in DOMAIN nodes' /\ Made \subseteq DOMAIN nodes'
      /\ None \notin DOMAIN nodes' /\ Absent \notin DOMAIN nodes'
  BY <1>1, MadeFacts DEF LastNode, None, Absent
<1>7. \A m \in Made \cup {None, Absent} :
        Anc(m)' = Anc(m) /\ Has(m)' = Has(m) /\ Hier(m)' = Hier(m)
  <2>1. \A m \in Made : Anc(m)' = Anc(m) /\ Has(m)' = Has(m) /\ Hier(m)' = Hier(m)
    BY <1>4, <1>6 DEF Anc, Has, Hier
  <2>2. \A m \in {None, Absent} : Anc(m)' = Anc(m) /\ Has(m)' = Has(m) /\ Hier(m)' = Hier(m)
    BY <1>6, MadeFacts DEF Anc, Has, Hier
  <2>3. QED BY <2>1, <2>2
<1>8. Anc(n)' = r.anc /\ Has(n)' = r.has /\ Hier(n)' = r.hier
  BY <1>5, <1>6 DEF Anc, Has, Hier, NodeSet
<1>9. nodes' \in Seq(NodeSet(Made'))
  <2>1. NodeSet(Made) \subseteq NodeSet(Made')
    BY <1>3 DEF NodeSet
  <2>2. r \in NodeSet(Made')
    BY <1>3 DEF NodeSet
  <2>3. nodes \in Seq(NodeSet(Made'))
    BY <1>1, <2>1
  <2>4. QED BY <2>2, <2>3
<1>10. \A m \in Made' : m \in Anc(m)'
  <2>1. \A m \in Made : m \in Anc(m)'
    BY <1>7 DEF NodeTypes
  <2>2. QED BY <2>1, <1>3, <1>8
<1>11. n <= MaxNodes /\ 1 <= n
  BY <1>1
<1>12. QED BY MadeFacts, <1>2, <1>3, <1>7, <1>8, <1>9, <1>10, <1>11

-----------------------------------------------------------------------------
(* Calls                                                                    *)

LEMMA CallFacts ==
  ASSUME CallTypes, NEW p \in Procs
  PROVE  call[p] \in CallSet(Made) /\ Shaped(call[p])
BY DEF CallTypes

LEMMA IdleFacts ==
  ASSUME Types
  PROVE  Idle \in CallSet(Made) /\ Shaped(Idle) /\ ~Flying(Idle) /\ Idle.step = "idle"
         /\ Idle.node = None /\ Idle.kind = "none" /\ Idle.branch = Main /\ Idle.old = None
BY RepositoryAssumption DEF Idle, CallSet, TreeSet, Plain, Shaped, Flying, Steps

(* One call is now as c says.                                               *)
LEMMA Moved ==
  ASSUME CallTypes, Made \subseteq Made', NEW p \in Procs, NEW c \in CallSet(Made'), Shaped(c),
         call' = [call EXCEPT ![p] = c], calls' \in Nat
  PROVE  CallTypes' /\ call'[p] = c /\ \A q \in Procs \ {p} : call'[q] = call[q]
<1>1. call \in [Procs -> CallSet(Made)]
  BY DEF CallTypes
<1>2. TreeSet(Made) \subseteq TreeSet(Made')
  BY DEF TreeSet
<1>3. CallSet(Made) \subseteq CallSet(Made')
  BY <1>2 DEF CallSet
<1>4. call'[p] = c /\ \A q \in Procs \ {p} : call'[q] = call[q]
  BY <1>1
<1>5. call' \in [Procs -> CallSet(Made')]
  BY <1>1, <1>3
<1>6. \A q \in Procs : Shaped(call'[q])
  BY <1>4 DEF CallTypes
<1>7. QED BY <1>4, <1>5, <1>6 DEF CallTypes

(* Operations stay in a shadow while their callers do not move on.          *)
LEMMA OpsStay ==
  ASSUME ShadowTypes, CallTypes, Made \subseteq Made', NEW p \in Procs, shadow' = shadow,
         \A q \in Procs \ {p} : call'[q] = call[q], call[p].step \notin {"head", "land"}
  PROVE  ShadowTypes'
<1>1. ASSUME NEW a \in Authors, NEW i \in DOMAIN shadow[a]
      PROVE  FromCall(shadow[a][i], a)'
  <2>1. shadow[a][i] \in OpSet(Made) /\ FromCall(shadow[a][i], a)
    BY <1>1 DEF ShadowTypes
  <2>2. shadow[a][i].by \in Procs \ {p}
    BY <2>1 DEF FromCall, OpSet
  <2>3. QED BY <2>1, <2>2 DEF FromCall
<1>2. shadow \in [Authors -> Seq(OpSet(Made'))]
  <2>1. OpSet(Made) \subseteq OpSet(Made')
    BY DEF OpSet
  <2>2. QED BY <2>1 DEF ShadowTypes
<1>3. \A a \in Authors, b \in Branches : HeadOps(shadow[a], b)' = HeadOps(shadow[a], b)
  BY DEF HeadOps
<1>4. QED BY <1>1, <1>2, <1>3 DEF ShadowTypes

LEMMA ResolveFacts ==
  ASSUME Types, NEW b \in Branches
  PROVE  /\ Resolve(b) \in Made \cup {None}
         /\ refCache[b] # None => Resolve(b) = refCache[b]
         /\ refCache[b] = None => Resolve(b) \in {heads[b], None}
         /\ refCache[b] = None /\ heads[b] \in Made => Resolve(b) = heads[b]
BY MadeFacts DEF Types, RowTypes, Resolve, Node

(* An invariant of pops, whatever else a step does.                         *)
LEMMA PoppingStays ==
  ASSUME IInv, stash' = stash, stashed' = stashed, excused \subseteq excused',
         \A q \in Procs : call'[q].kind = "pop" =>
           /\ call[q].kind = "pop" \/ stash # None
           /\ Popped(call'[q]) => Popped(call[q]) /\ call'[q].node = call[q].node
  PROVE  Popping'
BY DEF IInv, Popping, Popped, StashKept

(* A call that starts, or gives up: rows stay as they are.                  *)
Light(p) ==
  /\ call[p].step \in {"idle", "wait", "read"}
  /\ \E c \in CallSet(Made) :
       /\ Shaped(c) /\ ~Flying(c) /\ c.step \in {"idle", "wait", "read"} /\ c.node = None
       /\ call' = [call EXCEPT ![p] = c]
       /\ c.kind = "pop" => stash # None
       /\ c.old # None => /\ \E b \in Branches : c.old = Resolve(b)
                          /\ Anc(c.old) \subseteq stored \cup excused'
  /\ UNCHANGED <<nodes, cell, stored, trees, heads, stash, reflog, shadow,
                 acked, stale, stashed>>
  /\ excused \subseteq excused' /\ excused' \subseteq Made
  /\ refCache' \in [Branches -> Made \cup {None}]
  /\ \A b \in Branches : refCache'[b] \in {refCache[b], Resolve(b)}
  /\ lossy' \in [Branches -> SUBSET Flaws] /\ \A b \in Branches : lossy[b] \subseteq lossy'[b]
  /\ raced' \in BOOLEAN /\ (raced => raced') /\ calls' \in Nat
  /\ call[p].step = "idle" => raced' \/ \A q \in Procs : call[q].kind # "gc"

LEMMA LightKeeps ==
  ASSUME IInv, NEW p \in Procs, Light(p)
  PROVE  IInv'
<1> PICK c \in CallSet(Made) :
       /\ Shaped(c) /\ ~Flying(c) /\ c.step \in {"idle", "wait", "read"} /\ c.node = None
       /\ call' = [call EXCEPT ![p] = c]
       /\ c.kind = "pop" => stash # None
       /\ c.old # None => /\ \E b \in Branches : c.old = Resolve(b)
                          /\ Anc(c.old) \subseteq stored \cup excused'
  BY DEF Light
<1> USE DEF IInv
<1>1. /\ UNCHANGED <<nodes, cell, stored, trees, heads, stash, reflog, shadow,
                     acked, stale, stashed>>
      /\ Made' = Made /\ LastNode' = LastNode /\ Named' = Named
      /\ excused \subseteq excused' /\ Kept \subseteq Kept'
      /\ \A n : Anc(n)' = Anc(n) /\ Hier(n)' = Hier(n)
  <2>1. /\ UNCHANGED <<nodes, cell, stored, trees, heads, stash, reflog, shadow,
                       acked, stale, stashed>>
        /\ excused \subseteq excused'
    BY DEF Light
  <2>2. QED BY <2>1 DEF Made, LastNode, Kept, Named, Anc, Hier
<1>2. CallTypes' /\ call'[p] = c /\ \A q \in Procs \ {p} : call'[q] = call[q]
  <2>1. calls' \in Nat
    BY DEF Light
  <2>2. QED BY <1>1, <2>1, Moved DEF Types
<1>3. Types'
  <2>1. NodeTypes'
    BY <1>1 DEF Types, NodeTypes
  <2>2. RowTypes' /\ HistoryTypes'
    BY <1>1 DEF Types, RowTypes, HistoryTypes, Light
  <2>3. ShadowTypes'
    BY <1>1, <1>2, OpsStay DEF Types, Light
  <2>4. QED BY <1>2, <2>1, <2>2, <2>3 DEF Types
<1>4. Mutex'
  <2>1. InSection(p)' => Family(p)' = "none"
    BY <1>2 DEF InSection, Shaped, Flying, Family, CommitKinds
  <2>2. \A q \in Procs \ {p} : InSection(q)' = InSection(q) /\ Family(q)' = Family(q)
    BY <1>2 DEF InSection, Family
  <2>3. QED BY <1>2, <2>1, <2>2 DEF Mutex
<1>5. Popping'
  BY <1>1, <1>2, PoppingStays DEF Popped
<1>6. Whole' /\ Planted'
  <2>1. \A q \in Procs : Flying(call'[q]) => Flying(call[q]) /\ call'[q].node = call[q].node
    BY <1>2
  <2>2. Whole'
    BY <1>1 DEF Whole, Resolving
  <2>3. QED BY <1>1, <2>1, <2>2 DEF Planted, Resolving
<1>7. \A q \in Procs : InFlight(call[q])'
  <2>1. InFlight(call[p])'
    BY <1>2 DEF InFlight
  <2>2. ASSUME NEW q \in Procs \ {p} PROVE InFlight(call[q])'
    <3>1. InFlight(call[q])
      BY DEF Resolving
    <3>2. Buffered(call[q])' = Buffered(call[q])
      BY <1>1, <1>2 DEF Buffered
    <3>3. QED BY <1>1, <1>2, <3>1, <3>2 DEF InFlight, Unpushed
  <2>3. QED BY <2>1, <2>2
<1>8. \A q \in Procs : Secret(q)'
  <2>1. Secret(p)'
    BY <1>2 DEF Secret, Flying
  <2>2. ASSUME NEW q \in Procs \ {p}, call[q].kind = "file", call[q].step = "read"
        PROVE  Secret(q)'
    <3>1. Secret(q) /\ call[q].node # None
      BY <2>2 DEF Resolving, Types, CallTypes, Shaped, Flying
    <3>2. ASSUME NEW b \in Branches PROVE refCache'[b] # call[q].node
      <4>1. refCache'[b] \in {refCache[b], heads[b], None}
        BY ResolveFacts DEF Light
      <4>2. QED BY <2>2, <3>1, <4>1 DEF Secret, Named
    <3>3. QED BY <1>1, <1>2, <3>1, <3>2, <2>2 DEF Secret
  <2>3. QED BY <1>2, <2>1, <2>2 DEF Secret
<1>9. \A q \in Procs : Marked(q)'
  <2>1. Marked(p)'
    BY <1>2 DEF Marked
  <2>2. ASSUME NEW q \in Procs \ {p}, call[q].step = "sweep", ~raced' PROVE Marked(q)'
    <3>1. call[q].kind = "gc"
      BY <2>2 DEF Types, CallTypes, Shaped
    <3>2. call[p].step # "idle"
      BY <2>2, <3>1 DEF Light
    <3>3. ~raced /\ Marked(q)
      BY <2>2 DEF Light, Resolving
    <3>4. QED BY <2>2, <3>2, <3>3 DEF Marked
  <2>3. QED BY <1>2, <2>1, <2>2 DEF Marked
<1>10. ASSUME NEW b \in Branches PROVE Warmed(b)'
  <2>1. Warmed(b)
    OBVIOUS
  <2>2. \A q \in Procs : Landing(q, b)' = Landing(q, b)
    BY <1>2 DEF Landing, Light
  <2>3. \A q \in Procs : Landing(q, b) => /\ call'[q] = call[q] /\ Pending(q)' = Pending(q)
    BY <1>1, <1>2 DEF Landing, Light, Pending, Op
  <2>4. /\ stale' = stale /\ lossy[b] \subseteq lossy'[b] /\ heads' = heads
        /\ Exists(b)' = Exists(b)
    BY <1>1 DEF Light, Exists
  <2>5. refCache[b] # None => refCache'[b] = refCache[b]
    BY ResolveFacts DEF Light
  <2>6. refCache[b] = None => refCache'[b] \in {None, heads[b]}
    BY ResolveFacts DEF Light
  <2>7. \A q \in Procs : Landing(q, b) => call[q].node # None
    BY DEF Landing, Types, CallTypes, Shaped, Flying
  <2>8. CASE b \in stale \/ lossy[b] \cap {"overlap", "torn"} # {}
    BY <2>4, <2>8 DEF Warmed
  <2>9. CASE \E q, r \in Procs : q # r /\ Landing(q, b) /\ Landing(r, b)
    BY <2>2, <2>9 DEF Warmed
  <2>10. ASSUME NEW q \in Procs, Landing(q, b), refCache[b] = call[q].node, Exists(b),
                heads[b] = call[q].node \/ Pending(q)
         PROVE  Warmed(b)'
    <3>1. /\ Landing(q, b)' /\ refCache'[b] = call'[q].node /\ Exists(b)'
          /\ heads'[b] = call'[q].node \/ Pending(q)'
      BY <2>2, <2>3, <2>4, <2>5, <2>7, <2>10
    <3>2. QED BY <3>1 DEF Warmed
  <2>11. CASE (\A q \in Procs : ~Landing(q, b)) /\ refCache[b] \in {None, heads[b]}
    BY <2>2, <2>4, <2>5, <2>6, <2>11 DEF Warmed
  <2>12. QED BY <2>1, <2>8, <2>9, <2>10, <2>11 DEF Warmed
<1>11. \A q \in Procs : Remembers(q)'
  <2>1. \A q \in Procs : Hidden(call'[q]) => Hidden(call[q]) /\ call'[q] = call[q]
    BY <1>2 DEF Hidden, Flying
  <2>2. \A q \in Procs : Hidden(call[q]) => Secret(q) /\ call[q].node # None
    BY DEF Resolving, Types, CallTypes, Shaped, Flying, Hidden
  <2>3. ASSUME NEW q \in Procs, Hidden(call[q]), c.old # None PROVE c.old # call[q].node
    <3>1. PICK b \in Branches : c.old = Resolve(b)
      BY <2>3
    <3>2. c.old \in {refCache[b], heads[b], None}
      BY <3>1, ResolveFacts
    <3>3. QED BY <2>2, <2>3, <3>2 DEF Secret, Named, Hidden
  <2>4. Remembers(p)'
    BY <1>1, <1>2, <2>1, <2>3 DEF Remembers, Kept
  <2>5. ASSUME NEW q \in Procs \ {p} PROVE Remembers(q)'
    <3>1. Remembers(q)
      BY DEF Resolving
    <3>2. QED BY <1>1, <1>2, <2>1, <3>1 DEF Remembers
  <2>6. QED BY <2>4, <2>5
<1>12. QED BY <1>3, <1>4, <1>5, <1>6, <1>7, <1>8, <1>9, <1>10, <1>11 DEF Resolving

LEMMA BeginFacts ==
  ASSUME IInv, NEW p \in Procs, NEW kind, Starts(p, kind)
  PROVE  /\ call[p].step = "idle" /\ calls' \in Nat /\ raced' \in BOOLEAN /\ (raced => raced')
         /\ raced' \/ \A q \in Procs : call[q].kind # "gc"
<1>1. call[p].step = "idle" /\ calls' \in Nat
  BY DEF IInv, Types, CallTypes, Starts, Busy
<1>2. raced \in BOOLEAN /\ raced' = (raced \/ \E q \in Procs : call[q].kind = "gc")
  BY DEF IInv, Types, HistoryTypes, Starts
<1>3. raced' \in BOOLEAN /\ (raced => raced') /\ (raced' \/ \A q \in Procs : call[q].kind # "gc")
  BY <1>2, Zenon
<1>4. QED BY <1>1, <1>3

LEMMA CachedFacts ==
  ASSUME Types, NEW b \in Branches
  PROVE  /\ Cached(b) \in [Branches -> Made \cup {None}]
         /\ \A d \in Branches : Cached(b)[d] \in {refCache[d], Resolve(d)}
BY ResolveFacts DEF Types, RowTypes, Cached

LEMMA TreeOfType ==
  ASSUME Types, NEW n
  PROVE  TreeOf(n) \in TreeSet(Made)
<1>1. CASE Hier(n)
  <2>1. n \in Made
    BY <1>1, MadeFacts DEF Hier, Types
  <2>2. QED BY <1>1, <2>1, NodeFacts DEF TreeOf, TreeSet, Types
<1>2. CASE ~Hier(n)
  BY <1>2 DEF TreeOf, Plain, TreeSet
<1>3. QED BY <1>1, <1>2

(* What is taken up by a call that starts.                                  *)
LEMMA NewCall ==
  ASSUME NEW c \in CallSet(Made), c.kind \in CommitKinds \cup {"file", "gc"}, c.node = None,
         c.step \in {"wait", "read", "mark"}, c.kind \in CommitKinds => c.author \in Authors,
         c.kind = "gc" <=> c.step = "mark", c.step = "read" => c.kind = "squash"
  PROVE  Shaped(c) /\ ~Flying(c)
<1>1. c.kind # "none" /\ (c.kind \in CommitKinds => c.kind # "gc" /\ c.kind # "file")
  BY DEF CommitKinds
<1>2. QED BY <1>1 DEF Shaped, Flying

(* The head a call remembers, and what becomes of its row.                  *)
LEMMA Remembered ==
  ASSUME IInv, NEW p \in Procs, Remember(p), NEW c, call'[p] = c, UNCHANGED <<nodes, stored>>,
         c.old \in Made \cup {None}
  PROVE  /\ excused \subseteq excused' /\ excused' \subseteq Made
         /\ c.old # None => Anc(c.old) \subseteq stored \cup excused'
<1>1. Anc(c.old)' = Anc(c.old) /\ Anc(c.old) \subseteq Made /\ excused \subseteq Made
  BY NodeFacts, NoNode DEF IInv, Types, HistoryTypes, Anc
<1>2. excused' = excused \cup (Anc(c.old) \ stored)
  BY DEF Remember, Ghosts
<1>3. QED BY <1>1, <1>2

LEMMA StartCommitKeeps ==
  ASSUME IInv, NEW p \in Procs, StartCommit(p)
  PROVE  IInv'
<1>1. PICK b \in Branches, kind \in {"commit", "file", "squash"}, step \in {"wait", "read"} :
        /\ Begin(p, kind, b, step) /\ (step = "read" => kind = "squash")
  BY DEF StartCommit
<1>2. PICK a \in IF kind \in CommitKinds THEN Authors ELSE {None} :
        call' = [call EXCEPT ![p] = [Idle EXCEPT !.kind = kind, !.branch = b, !.step = step,
                                                 !.author = a,
                                                 !.old = IF kind = "squash" THEN Resolve(b)
                                                         ELSE None]]
  BY <1>1 DEF Begin
<1> DEFINE old == IF kind = "squash" THEN Resolve(b) ELSE None
<1> DEFINE c == [Idle EXCEPT !.kind = kind, !.branch = b, !.step = step, !.author = a,
                             !.old = old]
<1>4. old \in Made \cup {None} /\ (old # None => old = Resolve(b))
  BY ResolveFacts DEF IInv
<1> HIDE DEF old
<1> HIDE DEF c
<1>3. c \in CallSet(Made) /\ c.kind = kind /\ c.step = step /\ c.node = None /\ c.author = a
      /\ c.old = old
  BY IdleFacts, <1>1, <1>4 DEF c, IInv, CallSet, Steps, CommitKinds
<1>5. c \in CallSet(Made) /\ Shaped(c) /\ ~Flying(c) /\ c.step = step /\ c.node = None
  BY <1>1, <1>3, NewCall DEF IInv, CommitKinds
<1>6. call' = [call EXCEPT ![p] = c]
  BY <1>2 DEF c, old
<1>7. Light(p)
  <2>1. UNCHANGED <<rows, caches, acked, lossy, stale, stashed>> /\ Remember(p)
    BY DEF StartCommit
  <2>2. Starts(p, kind)
    BY <1>1 DEF Begin
  <2>4. /\ excused \subseteq excused' /\ excused' \subseteq Made
        /\ c.old # None => Anc(c.old) \subseteq stored \cup excused'
    <3>1. call'[p] = c
      BY <1>6 DEF IInv, Types, CallTypes
    <3>2. QED BY <1>3, <1>4, <2>1, <3>1, Remembered DEF rows
  <2>3. QED BY <1>1, <1>3, <1>4, <1>5, <1>6, <2>1, <2>2, <2>4, BeginFacts
            DEF Light, rows, caches, IInv, Types, RowTypes, HistoryTypes
<1>8. QED BY <1>7, LightKeeps

LEMMA StartPickKeeps ==
  ASSUME IInv, NEW p \in Procs, StartPick(p)
  PROVE  IInv'
<1>1. PICK b \in Branches, n \in stored, a \in Authors :
        /\ Starts(p, "pick")
        /\ call' = [call EXCEPT ![p] =
             [Idle EXCEPT !.kind = "pick", !.branch = b, !.step = "wait", !.author = a,
                          !.tree = TreeOf(n)]]
  BY DEF StartPick
<1> DEFINE tree == TreeOf(n)
<1> DEFINE c == [Idle EXCEPT !.kind = "pick", !.branch = b, !.step = "wait", !.author = a,
                             !.tree = tree]
<1>3. tree \in TreeSet(Made)
  BY TreeOfType DEF IInv
<1> HIDE DEF tree
<1> HIDE DEF c
<1>2. c \in CallSet(Made) /\ c.kind = "pick" /\ c.step = "wait" /\ c.node = None /\ c.author = a
      /\ c.old = None
  BY IdleFacts, <1>3 DEF c, IInv, CallSet, Steps, CommitKinds
<1>4. c \in CallSet(Made) /\ Shaped(c) /\ ~Flying(c) /\ c.step = "wait" /\ c.node = None
  BY <1>2, NewCall DEF IInv, CommitKinds
<1>5. call' = [call EXCEPT ![p] = c]
  BY <1>1 DEF c, tree
<1>6. Light(p)
  <2>1. UNCHANGED <<rows, caches, acked, lossy, excused, stale, stashed>>
    BY DEF StartPick
  <2>2. QED BY <1>1, <1>2, <1>4, <1>5, <2>1, BeginFacts
            DEF Light, rows, caches, IInv, Types, RowTypes, HistoryTypes
<1>7. QED BY <1>6, LightKeeps

LEMMA MergedType ==
  ASSUME Types, NEW m \in Made, NEW n \in Made, NEW base
  PROVE  Merged(m, n, base) \in TreeSet(Made)
<1>1. Shown(m) \subseteq Made /\ Shown(n) \subseteq Made
  <2>1. cell[m] \in Made /\ cell[n] \in Made
    BY NodeFacts DEF Types
  <2>2. QED BY <2>1, NodeFacts DEF Shown, Types
<1>2. [hier |-> TRUE, has |-> Shown(m) \cup Shown(n), of |-> None] \in TreeSet(Made)
  BY <1>1 DEF TreeSet
<1>3. QED BY <1>2, TreeOfType DEF Merged

LEMMA StartMergeKeeps ==
  ASSUME IInv, NEW p \in Procs, StartMerge(p)
  PROVE  IInv'
<1>1. PICK s \in Branches, t \in Branches, a \in Authors :
        /\ Resolve(s) # None /\ Resolve(t) # None
        /\ Starts(p, "merge")
        /\ \E base \in LCA(Resolve(s), Resolve(t)) :
             call' = [call EXCEPT ![p] =
               [Idle EXCEPT !.kind = "merge", !.branch = t, !.step = "wait", !.author = a,
                            !.old = Resolve(t),
                            !.tree = IF Hier(Resolve(s)) /\ Hier(Resolve(t)) /\ Hier(base)
                                     THEN Merged(Resolve(s), Resolve(t), base) ELSE Plain]]
        /\ refCache' = [refCache EXCEPT ![s] = Resolve(s), ![t] = Resolve(t)]
        /\ lossy' = [lossy EXCEPT ![t] = @ \cup lossy[s]]
  BY DEF StartMerge
<1>2. PICK base \in LCA(Resolve(s), Resolve(t)) :
        call' = [call EXCEPT ![p] =
          [Idle EXCEPT !.kind = "merge", !.branch = t, !.step = "wait", !.author = a,
                       !.old = Resolve(t),
                       !.tree = IF Hier(Resolve(s)) /\ Hier(Resolve(t)) /\ Hier(base)
                                THEN Merged(Resolve(s), Resolve(t), base) ELSE Plain]]
  BY <1>1
<1> DEFINE tree == IF Hier(Resolve(s)) /\ Hier(Resolve(t)) /\ Hier(base)
                   THEN Merged(Resolve(s), Resolve(t), base) ELSE Plain
<1> DEFINE old == Resolve(t)
<1> DEFINE c == [Idle EXCEPT !.kind = "merge", !.branch = t, !.step = "wait", !.author = a,
                             !.old = old, !.tree = tree]
<1>4. tree \in TreeSet(Made)
  <2>1. Resolve(s) \in Made /\ Resolve(t) \in Made
    BY <1>1, ResolveFacts DEF IInv
  <2>2. Plain \in TreeSet(Made)
    BY DEF Plain, TreeSet
  <2>3. Merged(Resolve(s), Resolve(t), base) \in TreeSet(Made)
    BY <2>1, MergedType DEF IInv
  <2>4. QED BY <2>2, <2>3
<1>11. old \in Made /\ \E b \in Branches : old = Resolve(b)
  BY <1>1, ResolveFacts DEF IInv
<1> HIDE DEF tree, old
<1> HIDE DEF c
<1>3. c \in CallSet(Made) /\ c.kind = "merge" /\ c.step = "wait" /\ c.node = None /\ c.author = a
      /\ c.old = old
  BY IdleFacts, <1>4, <1>11 DEF c, IInv, CallSet, Steps, CommitKinds
<1>5. c \in CallSet(Made) /\ Shaped(c) /\ ~Flying(c) /\ c.step = "wait" /\ c.node = None
  BY <1>3, NewCall DEF IInv, CommitKinds
<1>6. call' = [call EXCEPT ![p] = c]
  BY <1>2 DEF c, tree, old
<1>7. /\ refCache' \in [Branches -> Made \cup {None}]
      /\ \A b \in Branches : refCache'[b] \in {refCache[b], Resolve(b)}
  BY <1>1, ResolveFacts DEF IInv, Types, RowTypes
<1>8. lossy' \in [Branches -> SUBSET Flaws] /\ \A b \in Branches : lossy[b] \subseteq lossy'[b]
  BY <1>1 DEF IInv, Types, HistoryTypes
<1>9. Light(p)
  <2>1. UNCHANGED <<cell, rows, acked, stale, stashed>> /\ Remember(p)
    BY DEF StartMerge
  <2>2. /\ excused \subseteq excused' /\ excused' \subseteq Made
        /\ c.old # None => Anc(c.old) \subseteq stored \cup excused'
    <3>1. call'[p] = c
      BY <1>6 DEF IInv, Types, CallTypes
    <3>2. QED BY <1>3, <1>11, <2>1, <3>1, Remembered DEF rows
  <2>3. QED BY <1>1, <1>3, <1>5, <1>6, <1>7, <1>8, <1>11, <2>1, <2>2, BeginFacts DEF Light, rows
<1>10. QED BY <1>9, LightKeeps

LEMMA StartRebaseKeeps ==
  ASSUME IInv, NEW p \in Procs, StartRebase(p)
  PROVE  IInv'
<1>1. PICK b \in Branches, onto \in Branches, a \in Authors :
        /\ Resolve(b) # None /\ Resolve(onto) # None
        /\ Starts(p, "rebase")
        /\ call' = [call EXCEPT ![p] =
             [Idle EXCEPT !.kind = "rebase", !.branch = b, !.step = "wait", !.author = a,
                          !.todo = Anc(Resolve(b)) \ Anc(Resolve(onto)),
                          !.old = Resolve(b),
                          !.tree = TreeOf(Oldest(Anc(Resolve(b)) \ Anc(Resolve(onto))))]]
        /\ refCache' = [refCache EXCEPT ![b] = Resolve(b), ![onto] = Resolve(onto)]
  BY DEF StartRebase
<1> DEFINE todo == Anc(Resolve(b)) \ Anc(Resolve(onto))
<1> DEFINE tree == TreeOf(Oldest(todo))
<1> DEFINE old == Resolve(b)
<1> DEFINE c == [Idle EXCEPT !.kind = "rebase", !.branch = b, !.step = "wait", !.author = a,
                             !.todo = todo, !.old = old, !.tree = tree]
<1>3. tree \in TreeSet(Made) /\ todo \in SUBSET Made
  <2>1. Resolve(b) \in Made
    BY <1>1, ResolveFacts DEF IInv
  <2>2. todo \in SUBSET Made
    BY <2>1, NodeFacts DEF IInv, Types
  <2>3. QED BY <2>2, TreeOfType DEF IInv
<1>4. call' = [call EXCEPT ![p] = c]
  BY <1>1
<1>11. old \in Made /\ \E d \in Branches : old = Resolve(d)
  BY <1>1, ResolveFacts DEF IInv
<1> HIDE DEF tree, todo, old
<1> HIDE DEF c
<1>2. c \in CallSet(Made) /\ c.kind = "rebase" /\ c.step = "wait" /\ c.node = None /\ c.author = a
      /\ c.old = old
  BY IdleFacts, <1>3, <1>11 DEF c, IInv, CallSet, Steps, CommitKinds
<1>5. c \in CallSet(Made) /\ Shaped(c) /\ ~Flying(c) /\ c.step = "wait" /\ c.node = None
  BY <1>2, NewCall DEF IInv, CommitKinds
<1>6. /\ refCache' \in [Branches -> Made \cup {None}]
      /\ \A d \in Branches : refCache'[d] \in {refCache[d], Resolve(d)}
  BY <1>1, ResolveFacts DEF IInv, Types, RowTypes
<1>7. Light(p)
  <2>1. UNCHANGED <<cell, rows, acked, lossy, stale, stashed>> /\ Remember(p)
    BY DEF StartRebase
  <2>2. /\ excused \subseteq excused' /\ excused' \subseteq Made
        /\ c.old # None => Anc(c.old) \subseteq stored \cup excused'
    <3>1. call'[p] = c
      BY <1>4 DEF IInv, Types, CallTypes
    <3>2. QED BY <1>2, <1>11, <2>1, <3>1, Remembered DEF rows
  <2>3. QED BY <1>1, <1>2, <1>4, <1>5, <1>6, <1>11, <2>1, <2>2, BeginFacts
            DEF Light, rows, IInv, Types, HistoryTypes
<1>8. QED BY <1>7, LightKeeps

LEMMA StartPopKeeps ==
  ASSUME IInv, NEW p \in Procs, StartPop(p)
  PROVE  IInv'
<1>1. PICK b \in Branches : Begin(p, "pop", b, "wait")
  BY DEF StartPop
<1>2. PICK a \in Authors :
        call' = [call EXCEPT ![p] = [Idle EXCEPT !.kind = "pop", !.branch = b, !.step = "wait",
                                                 !.author = a, !.old = None]]
  BY <1>1 DEF Begin, CommitKinds
<1> DEFINE c == [Idle EXCEPT !.kind = "pop", !.branch = b, !.step = "wait", !.author = a,
                             !.old = None]
<1> HIDE DEF c
<1>3. c \in CallSet(Made) /\ c.kind = "pop" /\ c.step = "wait" /\ c.node = None /\ c.author = a
      /\ c.old = None
  BY IdleFacts DEF c, IInv, CallSet, Steps, CommitKinds
<1>5. c \in CallSet(Made) /\ Shaped(c) /\ ~Flying(c) /\ c.step = "wait" /\ c.node = None
  BY <1>3, NewCall DEF IInv, CommitKinds
<1>6. call' = [call EXCEPT ![p] = c]
  BY <1>2 DEF c
<1>7. Light(p)
  <2>1. UNCHANGED <<rows, caches, acked, lossy, excused, stale, stashed>>
    BY DEF StartPop
  <2>4. stash # None
    BY DEF StartPop
  <2>2. Starts(p, "pop")
    BY <1>1 DEF Begin
  <2>3. QED BY <1>3, <1>5, <2>4, <1>6, <2>1, <2>2, BeginFacts
            DEF Light, rows, caches, IInv, Types, RowTypes, HistoryTypes
<1>8. QED BY <1>7, LightKeeps

LEMMA GiveUpKeeps ==
  ASSUME IInv, NEW p \in Procs, GiveUp(p)
  PROVE  IInv'
<1>1. /\ call' = [call EXCEPT ![p] = Idle]
      /\ call[p].step \in {"wait", "read"}
      /\ UNCHANGED <<rows, caches, calls, history>>
  BY DEF GiveUp
<1>2. Light(p)
  BY <1>1, IdleFacts DEF Light, rows, caches, history, IInv, Types, RowTypes, HistoryTypes,
     CallTypes
<1>3. QED BY <1>2, LightKeeps

-----------------------------------------------------------------------------
(* What the steps of a call have in common                                  *)

LEMMA WarmStaysAt ==
  ASSUME IInv, NEW b \in Branches, NEW p \in Procs, ~Landing(p, b), ~Landing(p, b)',
         \A q \in Procs \ {p} : call'[q] = call[q],
         heads'[b] = heads[b], b \in stale => b \in stale', lossy[b] \subseteq lossy'[b],
         refCache'[b] \in {refCache[b], Resolve(b)},
         \A q \in Procs : Landing(q, b) /\ Pending(q) => Pending(q)'
  PROVE  Warmed(b)'
<1> USE DEF IInv
<1>1. Warmed(b)
  OBVIOUS
<1>2. \A q \in Procs : Landing(q, b)' = Landing(q, b)
  BY DEF Landing
<1>3. \A q \in Procs : Landing(q, b) => call'[q] = call[q] /\ (Pending(q) => Pending(q)')
  BY DEF Landing
<1>4. Exists(b)' = Exists(b)
  BY DEF Exists
<1>5. refCache[b] # None => refCache'[b] = refCache[b]
  BY ResolveFacts
<1>6. refCache[b] = None => refCache'[b] \in {None, heads[b]}
  BY ResolveFacts
<1>7. \A q \in Procs : Landing(q, b) => call[q].node # None
  BY DEF Landing, Types, CallTypes, Shaped, Flying
<1>8. CASE b \in stale \/ lossy[b] \cap {"overlap", "torn"} # {}
  BY <1>8 DEF Warmed
<1>9. CASE \E q, r \in Procs : q # r /\ Landing(q, b) /\ Landing(r, b)
  BY <1>2, <1>9 DEF Warmed
<1>10. ASSUME NEW q \in Procs, Landing(q, b), refCache[b] = call[q].node, Exists(b),
              heads[b] = call[q].node \/ Pending(q)
       PROVE  Warmed(b)'
  <2>1. /\ Landing(q, b)' /\ refCache'[b] = call'[q].node /\ Exists(b)'
        /\ heads'[b] = call'[q].node \/ Pending(q)'
    BY <1>2, <1>3, <1>4, <1>5, <1>7, <1>10
  <2>2. QED BY <2>1 DEF Warmed
<1>11. CASE (\A q \in Procs : ~Landing(q, b)) /\ refCache[b] \in {None, heads[b]}
  BY <1>2, <1>5, <1>6, <1>11 DEF Warmed
<1>12. QED BY <1>1, <1>8, <1>9, <1>10, <1>11 DEF Warmed

LEMMA WarmStays ==
  ASSUME IInv, NEW p \in Procs, call[p].step # "land", call'[p].step # "land",
         \A q \in Procs \ {p} : call'[q] = call[q],
         heads' = heads, stale \subseteq stale', \A b \in Branches : lossy[b] \subseteq lossy'[b],
         \A b \in Branches : refCache'[b] \in {refCache[b], Resolve(b)},
         \A q \in Procs : call[q].step = "land" /\ Pending(q) => Pending(q)'
  PROVE  \A b \in Branches : Warmed(b)'
<1>1. \A b \in Branches : ~Landing(p, b) /\ ~Landing(p, b)'
  BY DEF Landing
<1>2. \A b \in Branches, q \in Procs : Landing(q, b) /\ Pending(q) => Pending(q)'
  BY DEF Landing
<1>3. QED BY <1>1, <1>2, WarmStaysAt

(* A mutex is entered when it is free.                                      *)
LEMMA MutexStays ==
  ASSUME Mutex, NEW p \in Procs, \A q \in Procs \ {p} : call'[q] = call[q],
         InSection(p)' => /\ call'[p].branch = call[p].branch /\ call'[p].kind = call[p].kind
                          /\ InSection(p) \/ Free(p)
  PROVE  Mutex'
<1>1. \A q \in Procs \ {p} : InSection(q)' = InSection(q) /\ Family(q)' = Family(q)
  BY DEF InSection, Family
<1>2. InSection(p)' => Family(p)' = Family(p)
  BY DEF Family
<1>3. ASSUME NEW q \in Procs \ {p}, InSection(p)', InSection(q)',
             call'[p].branch = call'[q].branch, Family(p)' = Family(q)'
      PROVE  Family(p)' = "none" /\ Family(q)' = "none"
  <2>1. InSection(q) /\ Family(q) = Family(p) /\ call[q].branch = call[p].branch
    BY <1>1, <1>2, <1>3
  <2>2. InSection(p)
    BY <1>3, <2>1 DEF Free
  <2>3. QED BY <1>1, <1>2, <1>3, <2>1, <2>2 DEF Mutex
<1>4. QED BY <1>1, <1>3 DEF Mutex

(* While a call is busy every collection that sweeps is raced.              *)
LEMMA MarkedStays ==
  ASSUME IInv, NEW p \in Procs, call[p].step # "idle", call'[p].step # "sweep", raced' = raced,
         \A q \in Procs \ {p} : call'[q] = call[q]
  PROVE  \A q \in Procs : Marked(q)'
<1>1. ASSUME NEW q \in Procs \ {p}, call[q].step = "sweep" PROVE raced
  BY <1>1 DEF IInv, Resolving, Marked
<1>2. QED BY <1>1 DEF Marked

(* Others keep their file nodes to themselves.                              *)
LEMMA SecretStays ==
  ASSUME IInv, NEW p \in Procs, NEW q \in Procs \ {p}, call'[q] = call[q],
         \A r \in Procs \ {p} : call'[r] = call[r],
         call[q].kind = "file" /\ call[q].step = "read" =>
           /\ call'[p].node # call[q].node /\ call[q].node \notin Named' \ Named
           /\ \A b \in Branches : refCache'[b] \in {refCache[b], heads[b], None, call[p].node}
  PROVE  Secret(q)'
<1> SUFFICES ASSUME call[q].kind = "file", call[q].step = "read" PROVE Secret(q)'
  BY DEF Secret
<1>1. Secret(q) /\ call[q].node # None
  BY DEF IInv, Resolving, Types, CallTypes, Shaped, Flying
<1>2. call[q].node # call[p].node /\ \A b \in Branches : heads[b] # call[q].node
  BY <1>1 DEF Secret, Named
<1>3. \A b \in Branches : refCache'[b] # call'[q].node
  BY <1>1, <1>2 DEF Secret
<1>4. call'[q].node \notin Named'
  BY <1>1 DEF Secret
<1>5. \A r \in Procs \ {q} : call'[r].node # call'[q].node
  BY <1>1 DEF Secret
<1>6. QED BY <1>3, <1>4, <1>5 DEF Secret

(* A head that is remembered stays where it is.                             *)
LEMMA RemembersStay ==
  ASSUME IInv, NEW p \in Procs, \A q \in Procs \ {p} : call'[q] = call[q],
         call'[p].old \in {call[p].old, None}, Kept \subseteq Kept',
         Hidden(call'[p]) =>
           (Hidden(call[p]) /\ call'[p].node = call[p].node) \/ call'[p].node \notin Made,
         \A m \in Made : Anc(m)' = Anc(m) \/ (Hidden(call[p]) /\ m = call[p].node)
  PROVE  \A q \in Procs : Remembers(q)'
<1> SUFFICES ASSUME NEW q \in Procs, call'[q].old # None PROVE Remembers(q)'
  BY DEF Remembers
<1>1. /\ call'[q].old = call[q].old /\ call[q].old \in Made
      /\ Anc(call[q].old) \subseteq Kept
      /\ \A r \in Procs : Hidden(call[r]) => call[r].node # call[q].old
  <2>1. call'[q].old = call[q].old
    OBVIOUS
  <2>2. call[q] \in CallSet(Made) /\ Remembers(q)
    BY DEF IInv, Types, CallTypes, Resolving
  <2>3. QED BY <2>1, <2>2 DEF Remembers, CallSet
<1>2. Anc(call[q].old)' = Anc(call[q].old)
  BY <1>1
<1>3. \A r \in Procs : Hidden(call'[r]) => call'[r].node # call'[q].old
  BY <1>1
<1>4. QED BY <1>1, <1>2, <1>3 DEF Remembers, Hidden

(* A step of one call, which it goes on with or ends.                       *)
LEMMA StepRests ==
  ASSUME IInv, NEW p \in Procs, \A q \in Procs \ {p} : call'[q] = call[q],
         UNCHANGED <<stash, stashed>>, excused \subseteq excused', Kept \subseteq Kept',
         \/ call'[p] = Idle
         \/ /\ call'[p].kind = call[p].kind /\ call'[p].old = call[p].old
            /\ call'[p].step \notin {"log", "drop"},
         Hidden(call'[p]) => call'[p].node \notin Made,
         \A m \in Made : Anc(m)' = Anc(m) \/ (Hidden(call[p]) /\ m = call[p].node)
  PROVE  Popping' /\ \A q \in Procs : Remembers(q)'
<1>1. Popping'
  BY PoppingStays DEF Popped, Idle
<1>2. call'[p].old \in {call[p].old, None}
  BY DEF Idle
<1>3. QED BY <1>1, <1>2, RemembersStay

LEMMA NamedMade ==
  ASSUME Types
  PROVE  Named \subseteq Made \cup {None, Absent} /\ Kept \subseteq Made
BY DEF Types, RowTypes, HistoryTypes, Named, Kept

LEMMA NodesInFacts ==
  ASSUME Types, NEW a \in Authors
  PROVE  /\ NodesIn(shadow[a]) \subseteq Made
         /\ \A i \in DOMAIN shadow[a] : ~shadow[a][i].head => shadow[a][i].node \in NodesIn(shadow[a])
<1>1. \A i \in DOMAIN shadow[a] : shadow[a][i] \in OpSet(Made)
  BY DEF Types, ShadowTypes
<1>2. QED BY <1>1 DEF NodesIn, Ops, OpSet

(* Heads as they will be with what is in a shadow.                          *)
LEMMA LandedFacts ==
  ASSUME Types, NEW a \in Authors, NEW b \in Branches
  PROVE  LET h == Landed(heads, shadow[a])[b] IN
         \/ h = heads[b] /\ (heads[b] = Absent \/ HeadOps(shadow[a], b) = {})
         \/ \E i \in HeadOps(shadow[a], b) : h = shadow[a][i].node /\ heads[b] # Absent
<1> DEFINE S == HeadOps(shadow[a], b)
<1>1. Landed(heads, shadow[a])[b] =
        IF heads[b] = Absent \/ S = {} THEN heads[b] ELSE shadow[a][Max(S)].node
  BY DEF Landed
<1>2. S # {} => Max(S) \in S
  <2>1. S # {} => \E i \in S : \A j \in S : i >= j
    BY DEF Types, ShadowTypes
  <2> HIDE DEF S
  <2>2. QED BY <2>1 DEF Max
<1>3. QED BY <1>1, <1>2

(* What an operation in a shadow leads to is stored or in that shadow.      *)
LEMMA OpWhole ==
  ASSUME IInv, NEW a \in Authors, NEW i \in DOMAIN shadow[a]
  PROVE  /\ Anc(shadow[a][i].node) \subseteq Kept \cup NodesIn(shadow[a])
         /\ shadow[a][i].node \in Made /\ shadow[a][i].by \in Procs
<1> DEFINE o == shadow[a][i]
<1>1. o \in OpSet(Made) /\ FromCall(o, a)
  BY DEF IInv, Types, ShadowTypes
<1>2. InFlight(call[o.by])
  BY <1>1 DEF IInv, Resolving, OpSet
<1>3. call[o.by].kind # "file"
  BY <1>1 DEF FromCall, CommitKinds
<1>4. QED BY <1>1, <1>2, <1>3 DEF FromCall, InFlight, Flying, Buffered, Unpushed, OpSet

LEMMA VisibleHeadFacts ==
  ASSUME IInv, NEW p \in Procs, call[p].kind \in CommitKinds, call[p].step # "idle"
  PROVE  /\ VisibleHead(p) \in Made \cup {None, Absent}
         /\ Anc(VisibleHead(p)) \subseteq Kept \cup NodesIn(shadow[call[p].author])
<1> DEFINE a == call[p].author
<1> DEFINE b == call[p].branch
<1>1. a \in Authors /\ b \in Branches /\ call[p].kind # "file"
  BY DEF IInv, Types, CallTypes, Shaped, CallSet, CommitKinds
<1>2. VisibleHead(p) = Landed(heads, shadow[a])[b]
  BY <1>1 DEF VisibleHead
<1>3. heads[b] \in Made \cup {None, Absent} /\ Anc(heads[b]) \subseteq Kept
  BY <1>1 DEF IInv, Types, RowTypes, Resolving, Whole, Named
<1> HIDE DEF a, b
<1>4. CASE VisibleHead(p) = heads[b]
  BY <1>3, <1>4 DEF a
<1>5. ASSUME NEW i \in HeadOps(shadow[a], b), VisibleHead(p) = shadow[a][i].node
      PROVE  VisibleHead(p) \in Made /\ Anc(VisibleHead(p)) \subseteq Kept \cup NodesIn(shadow[a])
  <2>1. i \in DOMAIN shadow[a]
    BY DEF HeadOps
  <2>2. QED BY <1>1, <1>5, <2>1, OpWhole
<1>6. QED BY <1>1, <1>2, <1>4, <1>5, LandedFacts DEF IInv, a
-----------------------------------------------------------------------------
(* The steps of a commit                                                    *)

LEMMA BuildTreeKeeps ==
  ASSUME IInv, NEW p \in Procs, BuildTree(p)
  PROVE  IInv'
<1> DEFINE b == call[p].branch
<1> DEFINE root == Resolve(b)
<1>1. PICK n \in Nat : n = LastNode + 1
  BY MadeFacts DEF IInv, Types
<1> DEFINE has == (IF Hier(root) THEN Shown(root) ELSE {}) \cup {n}
<1> DEFINE r == [anc |-> {n}, hier |-> TRUE, has |-> has]
<1>2. /\ call[p].kind = "file" /\ call[p].step = "wait" /\ Free(p) /\ LastNode < MaxNodes
      /\ cell' = [m \in 1 .. n |-> IF m = n \/ (Hier(root) /\ cell[m] = cell[root])
                                   THEN n ELSE cell[m]]
      /\ nodes' = Append(nodes, r) /\ trees' = trees \cup {n}
      /\ lossy' = [lossy EXCEPT ![b] = @ \cup IF root # None /\ ~ Hier(root) THEN {"mixed"} ELSE {}]
      /\ call' = [call EXCEPT ![p].node = n, ![p].step = "read"]
      /\ refCache' = Cached(b)
      /\ UNCHANGED <<stored, heads, stash, reflog, shadow, calls, acked, excused, stale,
                     raced, stashed>>
  BY <1>1 DEF BuildTree
<1>3. call[p] \in CallSet(Made) /\ Shaped(call[p]) /\ b \in Branches
  BY CallFacts DEF IInv, Types, CallSet
<1>4. r \in NodeSet(Made \cup {n})
  <2>1. Shown(root) \subseteq Made
    <3>1. CASE Hier(root)
      <4>1. root \in Made
        BY <3>1, MadeFacts DEF Hier, IInv, Types
      <4>2. cell[root] \in Made
        BY <4>1, NodeFacts DEF IInv, Types
      <4>3. QED BY <3>1, <4>2, NodeFacts DEF Shown, IInv, Types
    <3>2. CASE ~Hier(root)
      <4>1. root \in Made \cup {None}
        BY <1>3, ResolveFacts DEF IInv
      <4>2. QED BY <3>2, <4>1, NodeFacts, NoNode DEF Shown, IInv, Types
    <3>3. QED BY <3>1, <3>2
  <2>2. QED BY <2>1 DEF NodeSet
<1> HIDE DEF has
<1> HIDE DEF r
<1>5. n \in r.anc /\ r.anc = {n} /\ r.hier = TRUE
  BY DEF r
<1>6. /\ LastNode' = n /\ n \notin Made /\ Made' = Made \cup {n} /\ Made' = 1 .. n
      /\ \A m \in Made \cup {None, Absent} :
           Anc(m)' = Anc(m) /\ Has(m)' = Has(m) /\ Hier(m)' = Hier(m)
      /\ Anc(n)' = r.anc
      /\ nodes' \in Seq(NodeSet(Made')) /\ LastNode' <= MaxNodes /\ 1 <= LastNode'
      /\ \A m \in Made' : m \in Anc(m)'
  BY <1>1, <1>2, <1>4, <1>5, Appended DEF IInv, Types
<1> DEFINE c == [call[p] EXCEPT !.node = n, !.step = "read"]
<1>7. c \in CallSet(Made') /\ c.node = n /\ c.step = "read" /\ c.kind = "file" /\ c.branch = b
  <2>1. call[p] \in CallSet(Made')
    <3>1. TreeSet(Made) \subseteq TreeSet(Made')
      BY <1>6 DEF TreeSet
    <3>2. QED BY <1>3, <1>6, <3>1 DEF CallSet
  <2>2. QED BY <1>2, <1>6, <2>1 DEF CallSet, Steps
<1>8. call' = [call EXCEPT ![p] = c]
  BY <1>2
<1> HIDE DEF c
<1>9. n # None
  BY <1>6, MadeFacts, <1>1 DEF IInv, Types, None
<1>10. Shaped(c) /\ Flying(c)
  BY <1>3, <1>7, <1>9 DEF Shaped, Flying, CommitKinds
<1>11. CallTypes' /\ call'[p] = c /\ \A q \in Procs \ {p} : call'[q] = call[q]
  <2>1. calls' \in Nat /\ Made \subseteq Made'
    BY <1>2, <1>6 DEF IInv, Types, CallTypes
  <2>2. QED BY <1>7, <1>8, <1>10, <2>1, Moved DEF IInv, Types
<1>12. \A d \in Branches : refCache'[d] \in {refCache[d], Resolve(d)}
  BY <1>2, <1>3, CachedFacts DEF IInv
<1>13. Types'
  <2>1. cell' \in Seq(Made') /\ Len(cell') = LastNode'
    <3>1. \A m \in 1 .. n : m # n => cell[m] \in Made
      BY <1>6, NodeFacts DEF IInv, Types
    <3>2. cell' \in [1 .. n -> Made']
      BY <1>2, <1>6, <3>1
    <3>3. QED BY <1>6, <3>2
  <2>2. NodeTypes'
    BY <1>6, <2>1 DEF NodeTypes
  <2>3. RowTypes'
    BY <1>2, <1>3, <1>6, CachedFacts DEF IInv, Types, RowTypes
  <2>4. HistoryTypes'
    <3>1. lossy' \in [Branches -> SUBSET Flaws]
      BY <1>2, <1>3 DEF IInv, Types, HistoryTypes, Flaws
    <3>2. QED BY <1>2, <1>6, <3>1 DEF IInv, Types, HistoryTypes
  <2>5. ShadowTypes'
    BY <1>2, <1>6, <1>11, OpsStay DEF IInv, Types
  <2>6. QED BY <1>11, <2>2, <2>3, <2>4, <2>5 DEF Types
<1>14. Mutex'
  BY <1>2, <1>7, <1>11, MutexStays DEF IInv
<1>15. Popping' /\ \A q \in Procs : Remembers(q)'
  <2>1. c.old = call[p].old
    BY <1>3 DEF c, CallSet
  <2>2. Kept \subseteq Kept' /\ excused \subseteq excused' /\ UNCHANGED <<stash, stashed>>
    BY <1>2 DEF Kept
  <2>3. QED BY <1>2, <1>7, <1>6, <1>11, <2>1, <2>2, StepRests DEF Hidden
<1>16. Kept' = Kept /\ Named' = Named
  BY <1>2 DEF Kept, Named
<1>17. Whole'
  BY <1>6, <1>16, NamedMade DEF IInv, Resolving, Whole
<1>18. Planted'
  <2>1. ASSUME NEW m \in Made, Hier(m)',
               m \in stored' \/ \E q \in Procs : Flying(call'[q]) /\ call'[q].node = m
        PROVE  m \in trees' \cup excused'
    <3>1. m \in stored \/ \E q \in Procs : Flying(call[q]) /\ call[q].node = m
      BY <1>2, <1>6, <1>7, <1>11, <2>1
    <3>2. QED BY <1>2, <1>6, <2>1, <3>1 DEF IInv, Resolving, Planted
  <2>2. QED BY <1>2, <1>6, <2>1 DEF Planted
<1>19. \A q \in Procs : InFlight(call[q])'
  <2>1. InFlight(call[p])'
    BY <1>5, <1>6, <1>7, <1>11 DEF InFlight, Unpushed
  <2>2. ASSUME NEW q \in Procs \ {p} PROVE InFlight(call[q])'
    <3>1. InFlight(call[q]) /\ call[q].node \in Made \cup {None}
      BY DEF IInv, Resolving, Types, CallTypes, CallSet
    <3>2. Buffered(call[q])' = Buffered(call[q])
      <4>1. shadow' = shadow /\ call'[q] = call[q]
        BY <1>2, <1>11
      <4>2. QED BY <4>1 DEF Buffered
    <3>3. QED BY <1>6, <1>11, <1>16, <3>1, <3>2 DEF InFlight, Unpushed
  <2>3. QED BY <2>1, <2>2
<1>20. \A q \in Procs : Secret(q)'
  <2>1. Secret(p)'
    <3>1. n \notin Named'
      BY <1>6, <1>9, <1>16, NamedMade, <1>1, MadeFacts DEF IInv, Types, Absent
    <3>2. \A d \in Branches : refCache'[d] # n
      <4>1. Cached(b) \in [Branches -> Made \cup {None}]
        BY <1>3, CachedFacts DEF IInv
      <4>2. QED BY <1>2, <1>6, <1>9, <4>1
    <3>3. \A q \in Procs \ {p} : call'[q].node # n
      BY <1>6, <1>9, <1>11 DEF IInv, Types, CallTypes, CallSet
    <3>4. QED BY <1>7, <1>11, <3>1, <3>2, <3>3 DEF Secret
  <2>2. ASSUME NEW q \in Procs \ {p} PROVE Secret(q)'
    <3>1. call[q].node # n
      BY <1>6, <1>9 DEF IInv, Types, CallTypes, CallSet
    <3>2. \A d \in Branches : refCache'[d] \in {refCache[d], heads[d], None}
      BY <1>12, ResolveFacts DEF IInv
    <3>3. QED BY <1>7, <1>11, <1>16, <3>1, <3>2, SecretStays
  <2>3. QED BY <2>1, <2>2
<1>21. \A q \in Procs : Marked(q)'
  BY <1>2, <1>7, <1>11, MarkedStays
<1>22. \A d \in Branches : Warmed(d)'
  <2>1. \A d \in Branches : lossy[d] \subseteq lossy'[d]
    BY <1>2 DEF IInv, Types, HistoryTypes
  <2>2. \A q \in Procs : call[q].step = "land" /\ Pending(q) => Pending(q)'
    BY <1>2, <1>11 DEF Pending, Op
  <2>3. QED BY <1>2, <1>7, <1>11, <1>12, <2>1, <2>2, WarmStays
<1>23. QED BY <1>13, <1>14, <1>15, <1>17, <1>18, <1>19, <1>20, <1>21, <1>22 DEF IInv, Resolving

LEMMA Replaced ==
  ASSUME NEW S, NEW s \in Seq(S), NEW n \in DOMAIN s, NEW x \in S
  PROVE  LET t == [s EXCEPT ![n] = x] IN
         /\ t \in Seq(S) /\ Len(t) = Len(s) /\ DOMAIN t = DOMAIN s /\ t[n] = x
         /\ \A m \in DOMAIN s \ {n} : t[m] = s[m]
OBVIOUS

(* The node of a file operation gets its parent.                            *)
LEMMA Parented ==
  ASSUME NodeTypes, NEW n \in Made, NEW A \in SUBSET Made,
         nodes' = [nodes EXCEPT ![n].anc = @ \cup A]
  PROVE  /\ nodes' \in Seq(NodeSet(Made)) /\ LastNode' = LastNode /\ Made' = Made
         /\ Anc(n)' = Anc(n) \cup A
         /\ \A m \in Made \cup {None, Absent} : m # n => Anc(m)' = Anc(m)
         /\ \A m \in Made \cup {None, Absent} : Hier(m)' = Hier(m) /\ Has(m)' = Has(m)
<1>1. nodes \in Seq(NodeSet(Made)) /\ n \in DOMAIN nodes /\ nodes[n] \in NodeSet(Made)
      /\ Made = DOMAIN nodes
  BY NodeFacts, MadeFacts DEF NodeTypes
<1> DEFINE x == [nodes[n] EXCEPT !.anc = @ \cup A]
<1>2. /\ x \in NodeSet(Made) /\ x.anc = nodes[n].anc \cup A /\ x.hier = nodes[n].hier
      /\ x.has = nodes[n].has
  BY <1>1 DEF NodeSet
<1>3. nodes' = [nodes EXCEPT ![n] = x]
  OBVIOUS
<1> HIDE DEF x
<1>4. /\ nodes' \in Seq(NodeSet(Made)) /\ Len(nodes') = Len(nodes)
      /\ DOMAIN nodes' = DOMAIN nodes /\ nodes'[n] = x
      /\ \A m \in DOMAIN nodes \ {n} : nodes'[m] = nodes[m]
  <2>1. PICK s : s = nodes
    OBVIOUS
  <2>2. PICK t : t = [s EXCEPT ![n] = x]
    OBVIOUS
  <2>3. s \in Seq(NodeSet(Made)) /\ n \in DOMAIN s /\ x \in NodeSet(Made)
    BY <1>1, <1>2, <2>1
  <2>4. /\ t \in Seq(NodeSet(Made)) /\ Len(t) = Len(s) /\ DOMAIN t = DOMAIN s /\ t[n] = x
        /\ \A m \in DOMAIN s \ {n} : t[m] = s[m]
    BY <2>2, <2>3, Replaced
  <2>5. nodes' = t
    BY <1>3, <2>1, <2>2
  <2>6. QED BY <2>1, <2>4, <2>5, Zenon
<1>5. LastNode' = LastNode /\ Made' = Made
  BY <1>4 DEF LastNode, Made
<1>6. Anc(n)' = nodes'[n].anc /\ Anc(n) = nodes[n].anc
  BY <1>1, <1>4 DEF Anc
<1>7. \A m \in Made \cup {None, Absent} : m # n => Anc(m)' = Anc(m)
  BY <1>1, <1>4 DEF Anc
<1>8. \A m \in Made \cup {None, Absent} : Hier(m)' = Hier(m) /\ Has(m)' = Has(m)
  BY <1>1, <1>2, <1>4 DEF Hier, Has
<1>9. QED BY <1>2, <1>4, <1>5, <1>6, <1>7, <1>8

LEMMA ReadHeadOfFileKeeps ==
  ASSUME IInv, NEW p \in Procs, ReadHead(p), call[p].kind = "file"
  PROVE  IInv'
<1> DEFINE h == heads[call[p].branch]
<1> DEFINE c == [call[p] EXCEPT !.step = "node"]
<1>1. call[p] \in CallSet(Made) /\ Shaped(call[p]) /\ call[p].step = "read"
  BY CallFacts DEF IInv, Types, ReadHead, CommitKinds
<1>2. PICK n \in Made : n = call[p].node
  BY <1>1 DEF Shaped, Flying, CallSet
<1>3. /\ nodes' = [nodes EXCEPT ![n].anc = @ \cup Anc(h)]
      /\ lossy' = [lossy EXCEPT ![call[p].branch] = @ \cup {}]
      /\ call' = [call EXCEPT ![p] = c]
  BY <1>2 DEF ReadHead, VisibleHead, CommitKinds, Goto
<1>4. /\ trees' = trees /\ cell' = cell
      /\ UNCHANGED <<stored, heads, stash, reflog, shadow, refCache, calls, acked, excused,
                     stale, raced, stashed>>
  BY DEF ReadHead
<1>5. call[p].branch \in Branches /\ Flying(call[p]) /\ Secret(p)
  BY <1>1 DEF Flying, CallSet, IInv, Resolving
<1>6. h \in Made \cup {None, Absent} /\ Anc(h) \subseteq Kept /\ Anc(h) \subseteq Made
  <2>1. h \in Made \cup {None, Absent} /\ Anc(h) \subseteq Kept
    BY <1>5 DEF IInv, Types, RowTypes, Resolving, Whole, Named
  <2>2. QED BY <2>1, NamedMade DEF IInv
<1> HIDE DEF h
<1>7. /\ nodes' \in Seq(NodeSet(Made)) /\ LastNode' = LastNode /\ Made' = Made
      /\ Anc(n)' = Anc(n) \cup Anc(h)
      /\ \A m \in Made \cup {None, Absent} : m # n => Anc(m)' = Anc(m)
      /\ \A m \in Made \cup {None, Absent} : Hier(m)' = Hier(m)
  BY <1>3, <1>6, Parented DEF IInv, Types
<1>8. c \in CallSet(Made) /\ Shaped(c) /\ c.step = "node" /\ c.kind = "file" /\ c.node = n
      /\ c.branch = call[p].branch
  <2>1. c \in CallSet(Made) /\ c.step = "node" /\ c.kind = "file" /\ c.node = n
        /\ c.branch = call[p].branch
    BY <1>1, <1>2 DEF CallSet, Steps
  <2> HIDE DEF c
  <2>2. QED BY <1>2, <2>1, MadeFacts DEF Shaped, Flying, CommitKinds, IInv, Types
<1> HIDE DEF c
<1>9. CallTypes' /\ call'[p] = c /\ \A q \in Procs \ {p} : call'[q] = call[q]
  <2>1. calls' \in Nat /\ Made' = Made
    BY <1>4, <1>7 DEF IInv, Types, CallTypes
  <2>2. QED BY <1>3, <1>8, <2>1, Moved DEF IInv, Types
<1>10. Types'
  <2>1. NodeTypes'
    BY <1>4, <1>7 DEF IInv, Types, NodeTypes
  <2>2. lossy' = lossy
    BY <1>3 DEF IInv, Types, HistoryTypes
  <2>3. RowTypes' /\ HistoryTypes'
    BY <1>4, <1>7, <2>2 DEF IInv, Types, RowTypes, HistoryTypes
  <2>4. ShadowTypes'
    BY <1>1, <1>4, <1>7, <1>9, OpsStay DEF IInv, Types
  <2>5. QED BY <1>9, <2>1, <2>3, <2>4 DEF Types
<1>11. Mutex'
  BY <1>1, <1>8, <1>9, MutexStays DEF IInv, InSection
<1>12. Popping' /\ \A q \in Procs : Remembers(q)'
  <2>1. c.old = call[p].old
    BY <1>1 DEF c, CallSet
  <2>2. Kept \subseteq Kept' /\ excused \subseteq excused' /\ UNCHANGED <<stash, stashed>>
    BY <1>4 DEF Kept
  <2>3. QED BY <1>1, <1>2, <1>8, <1>7, <1>9, <2>1, <2>2, StepRests DEF Hidden
<1>13. Kept' = Kept /\ Named' = Named
  BY <1>4 DEF Kept, Named
<1>14. \A m \in Named : m # n
  BY <1>1, <1>2, <1>5 DEF Secret
<1>15. Whole'
  BY <1>7, <1>13, <1>14, NamedMade DEF IInv, Resolving, Whole
<1>16. Planted'
  BY <1>2, <1>4, <1>5, <1>7, <1>8, <1>9 DEF IInv, Resolving, Planted
<1>17. \A q \in Procs : InFlight(call[q])'
  <2>1. InFlight(call[p])'
    <3>1. Anc(n) \subseteq Kept \cup {n}
      BY <1>1, <1>2, <1>5 DEF IInv, Resolving, InFlight, Buffered, Unpushed
    <3>2. QED BY <1>6, <1>7, <1>8, <1>9, <1>13, <3>1 DEF InFlight, Unpushed
  <2>2. ASSUME NEW q \in Procs \ {p} PROVE InFlight(call[q])'
    <3>1. InFlight(call[q]) /\ call[q].node \in Made \cup {None} /\ call[q].node # n
      BY <1>1, <1>2, <1>5 DEF IInv, Resolving, Types, CallTypes, CallSet, Secret
    <3>2. Buffered(call[q])' = Buffered(call[q])
      <4>1. shadow' = shadow /\ call'[q] = call[q]
        BY <1>4, <1>9
      <4>2. QED BY <4>1 DEF Buffered
    <3>3. Anc(call[q].node)' = Anc(call[q].node)
      BY <1>7, <1>9, <3>1
    <3>4. QED BY <1>9, <1>13, <3>1, <3>2, <3>3 DEF InFlight, Unpushed
  <2>3. QED BY <2>1, <2>2
<1>18. \A q \in Procs : Secret(q)'
  <2>1. Secret(p)'
    BY <1>8, <1>9 DEF Secret
  <2>2. ASSUME NEW q \in Procs \ {p} PROVE Secret(q)'
    <3>1. call[q].node # n
      BY <1>1, <1>2, <1>5 DEF Secret
    <3>2. QED BY <1>4, <1>8, <1>9, <1>13, <3>1, SecretStays
  <2>3. QED BY <2>1, <2>2
<1>19. \A q \in Procs : Marked(q)'
  BY <1>1, <1>4, <1>8, <1>9, MarkedStays
<1>20. \A d \in Branches : Warmed(d)'
  <2>1. \A d \in Branches : lossy[d] \subseteq lossy'[d]
    BY <1>3 DEF IInv, Types, HistoryTypes
  <2>2. \A q \in Procs : call[q].step = "land" /\ Pending(q) => Pending(q)'
    BY <1>1, <1>4, <1>9 DEF Pending, Op
  <2>3. QED BY <1>1, <1>4, <1>8, <1>9, <2>1, <2>2, WarmStays
<1>21. QED BY <1>10, <1>11, <1>12, <1>15, <1>16, <1>17, <1>18, <1>19, <1>20 DEF IInv, Resolving

LEMMA ReadHeadOfCommitKeeps ==
  ASSUME IInv, NEW p \in Procs, ReadHead(p), call[p].kind # "file"
  PROVE  IInv'
<1> DEFINE a == call[p].author
<1> DEFINE b == call[p].branch
<1> DEFINE h == VisibleHead(p)
<1>1. PICK n \in Nat : n = LastNode + 1
  BY MadeFacts DEF IInv, Types
<1> DEFINE r == [anc |-> Anc(h) \cup {n}, hier |-> call[p].tree.hier,
                 has |-> IF call[p].tree.hier THEN call[p].tree.has
                         ELSE IF call[p].kind = "squash" THEN {} ELSE Shown(h)]
<1> DEFINE x == IF call[p].tree.of = None THEN n ELSE cell[call[p].tree.of]
<1> DEFINE c == [call[p] EXCEPT !.node = n, !.step = "node"]
<1>2. call[p] \in CallSet(Made) /\ Shaped(call[p])
  BY CallFacts DEF IInv, Types
<1>3. /\ LastNode < MaxNodes /\ h # Absent
      /\ nodes' = Append(nodes, r) /\ cell' = Append(cell, x)
      /\ trees' = IF call[p].tree.hier THEN trees \cup {n} ELSE trees
      /\ call' = [call EXCEPT ![p] = c]
      /\ \A d \in Branches : lossy[d] \subseteq lossy'[d]
      /\ lossy' \in [Branches -> SUBSET Flaws]
  <2>1. /\ LastNode < MaxNodes /\ h # Absent
        /\ nodes' = Append(nodes, r) /\ cell' = Append(cell, x)
        /\ trees' = IF call[p].tree.hier THEN trees \cup {n} ELSE trees
        /\ call' = [call EXCEPT ![p] = c]
    BY <1>1 DEF ReadHead
  <2>2. PICK more \in SUBSET Flaws : lossy' = [lossy EXCEPT ![b] = @ \cup more]
    BY DEF ReadHead, Flaws
  <2>3. lossy \in [Branches -> SUBSET Flaws]
    BY DEF IInv, Types, HistoryTypes
  <2>4. QED BY <2>1, <2>2, <2>3
<1>4. /\ UNCHANGED <<stored, heads, stash, reflog, shadow, refCache, calls, acked, excused,
                     stale, raced, stashed>>
      /\ \/ call[p].kind \in CommitKinds /\ call[p].step = "wait" /\ Free(p)
         \/ call[p].step = "read"
  BY DEF ReadHead
<1>5. /\ call[p].kind \in CommitKinds /\ call[p].step \in {"wait", "read"}
      /\ a \in Authors /\ b \in Branches /\ call[p].tree \in TreeSet(Made)
      /\ InSection(p) \/ Free(p)
  BY <1>2, <1>4 DEF Shaped, CallSet, CommitKinds, InSection
<1>6. h \in Made \cup {None, Absent} /\ Anc(h) \subseteq Kept \cup NodesIn(shadow[a])
      /\ Anc(h) \subseteq Made
  BY <1>5, VisibleHeadFacts, NamedMade, NodesInFacts DEF IInv
<1>7. r \in NodeSet(Made \cup {n}) /\ n \in r.anc /\ r.anc = Anc(h) \cup {n}
      /\ r.hier = call[p].tree.hier
  <2>1. Shown(h) \subseteq Made
    <3>1. CASE h \in Made
      <4>1. cell[h] \in Made
        BY <3>1, NodeFacts DEF IInv, Types
      <4>2. QED BY <3>1, <4>1, NodeFacts DEF Shown, IInv, Types
    <3>2. CASE h \in {None, Absent}
      BY <3>2, NoNode DEF Shown, IInv, Types
    <3>3. QED BY <1>6, <3>1, <3>2
  <2> HIDE DEF h
  <2>2. QED BY <1>5, <1>6, <2>1 DEF NodeSet, TreeSet
<1> HIDE DEF r
<1>8. /\ LastNode' = n /\ n \notin Made /\ Made' = Made \cup {n} /\ Made' = 1 .. n
      /\ \A m \in Made \cup {None, Absent} :
           Anc(m)' = Anc(m) /\ Has(m)' = Has(m) /\ Hier(m)' = Hier(m)
      /\ Anc(n)' = r.anc /\ Hier(n)' = r.hier
      /\ nodes' \in Seq(NodeSet(Made')) /\ LastNode' <= MaxNodes /\ 1 <= LastNode'
      /\ \A m \in Made' : m \in Anc(m)'
  BY <1>1, <1>3, <1>7, Appended DEF IInv, Types
<1>9. n # None
  BY <1>8, MadeFacts, <1>1 DEF IInv, Types, None
<1>10. c \in CallSet(Made') /\ c.node = n /\ c.step = "node" /\ c.kind = call[p].kind
       /\ c.branch = b /\ c.author = a
  <2>1. call[p] \in CallSet(Made')
    <3>1. TreeSet(Made) \subseteq TreeSet(Made')
      BY <1>8 DEF TreeSet
    <3>2. QED BY <1>2, <1>8, <3>1 DEF CallSet
  <2>2. QED BY <1>2, <1>8, <2>1 DEF CallSet, Steps
<1> HIDE DEF c
<1>11. Shaped(c)
  BY <1>5, <1>9, <1>10 DEF Shaped, Flying
<1>12. CallTypes' /\ call'[p] = c /\ \A q \in Procs \ {p} : call'[q] = call[q]
  <2>1. calls' \in Nat /\ Made \subseteq Made'
    BY <1>4, <1>8 DEF IInv, Types, CallTypes
  <2>2. QED BY <1>3, <1>10, <1>11, <2>1, Moved DEF IInv, Types
<1>13. Types'
  <2>1. cell' \in Seq(Made') /\ Len(cell') = LastNode'
    <3>1. x \in Made'
      BY <1>5, <1>8, NodeFacts DEF TreeSet, IInv, Types
    <3>2. cell \in Seq(Made') /\ Len(cell) = LastNode
      BY <1>8 DEF IInv, Types, NodeTypes
    <3> HIDE DEF x
    <3>3. QED BY <1>1, <1>3, <1>8, <3>1, <3>2
  <2>2. NodeTypes'
    BY <1>8, <2>1 DEF NodeTypes
  <2>3. RowTypes' /\ HistoryTypes'
    BY <1>3, <1>4, <1>8 DEF IInv, Types, RowTypes, HistoryTypes
  <2>4. ShadowTypes'
    BY <1>4, <1>5, <1>8, <1>12, OpsStay DEF IInv, Types
  <2>5. QED BY <1>12, <2>2, <2>3, <2>4 DEF Types
<1>14. Mutex'
  BY <1>5, <1>10, <1>12, MutexStays DEF IInv
<1>15. Popping' /\ \A q \in Procs : Remembers(q)'
  <2>1. c.old = call[p].old
    BY <1>2 DEF c, CallSet
  <2>2. Kept \subseteq Kept' /\ excused \subseteq excused' /\ UNCHANGED <<stash, stashed>>
    BY <1>4 DEF Kept
  <2>3. QED BY <1>10, <1>8, <1>12, <2>1, <2>2, StepRests DEF Hidden
<1>16. Kept' = Kept /\ Named' = Named
  BY <1>4 DEF Kept, Named
<1>17. Whole'
  BY <1>8, <1>16, NamedMade DEF IInv, Resolving, Whole
<1>18. Planted'
  <2>1. ASSUME NEW m \in Made, Hier(m)',
               m \in stored' \/ \E q \in Procs : Flying(call'[q]) /\ call'[q].node = m
        PROVE  m \in trees' \cup excused'
    <3>1. m \in stored \/ \E q \in Procs : Flying(call[q]) /\ call[q].node = m
      BY <1>4, <1>8, <1>10, <1>12, <2>1
    <3>2. QED BY <1>3, <1>4, <1>8, <2>1, <3>1 DEF IInv, Resolving, Planted
  <2>2. Hier(n)' => n \in trees'
    BY <1>3, <1>7, <1>8
  <2>3. QED BY <1>8, <2>1, <2>2 DEF Planted
<1>19. \A q \in Procs : InFlight(call[q])'
  <2>1. InFlight(call[p])'
    <3>1. Buffered(call[p])' = NodesIn(shadow[a])
      <4>1. shadow' = shadow /\ call'[p].author = a /\ call'[p].kind # "file"
        BY <1>4, <1>10, <1>12
      <4>2. QED BY <4>1 DEF Buffered
    <3>2. QED BY <1>6, <1>7, <1>8, <1>10, <1>12, <1>16, <3>1 DEF InFlight, Unpushed
  <2>2. ASSUME NEW q \in Procs \ {p} PROVE InFlight(call[q])'
    <3>1. InFlight(call[q]) /\ call[q].node \in Made \cup {None}
      BY DEF IInv, Resolving, Types, CallTypes, CallSet
    <3>2. Buffered(call[q])' = Buffered(call[q])
      <4>1. shadow' = shadow /\ call'[q] = call[q]
        BY <1>4, <1>12
      <4>2. QED BY <4>1 DEF Buffered
    <3>3. Anc(call[q].node)' = Anc(call[q].node)
      BY <1>8, <1>12, <3>1
    <3>4. QED BY <1>12, <1>16, <3>1, <3>2, <3>3 DEF InFlight, Unpushed
  <2>3. QED BY <2>1, <2>2
<1>20. \A q \in Procs : Secret(q)'
  <2>1. Secret(p)'
    BY <1>10, <1>12 DEF Secret
  <2>2. ASSUME NEW q \in Procs \ {p} PROVE Secret(q)'
    <3>1. call[q].node # n
      BY <1>8, <1>9 DEF IInv, Types, CallTypes, CallSet
    <3>2. QED BY <1>4, <1>10, <1>12, <1>16, <3>1, SecretStays
  <2>3. QED BY <2>1, <2>2
<1>21. \A q \in Procs : Marked(q)'
  BY <1>4, <1>5, <1>10, <1>12, MarkedStays
<1>22. \A d \in Branches : Warmed(d)'
  <2>1. \A q \in Procs : call[q].step = "land" /\ Pending(q) => Pending(q)'
    BY <1>4, <1>5, <1>12 DEF Pending, Op
  <2>2. QED BY <1>3, <1>4, <1>5, <1>10, <1>12, <2>1, WarmStays
<1>23. QED BY <1>13, <1>14, <1>15, <1>17, <1>18, <1>19, <1>20, <1>21, <1>22 DEF IInv, Resolving

LEMMA ReadHeadKeeps ==
  ASSUME IInv, NEW p \in Procs, ReadHead(p)
  PROVE  IInv'
BY ReadHeadOfFileKeeps, ReadHeadOfCommitKeeps

(* An operation is appended to a shadow by a call that is then at it.       *)
LEMMA Pushed ==
  ASSUME IInv, NEW p \in Procs, NEW a \in Authors, NEW o \in OpSet(Made), Made' = Made,
         call[p].step \in {"node", "head"}, call'[p].step \in {"head", "land"},
         call'[p].kind = call[p].kind, call'[p].author = call[p].author,
         call'[p].branch = call[p].branch, call'[p].node = call[p].node,
         \A q \in Procs \ {p} : call'[q] = call[q],
         o.by = p, FromCall(o, a)', shadow' = [shadow EXCEPT ![a] = Append(@, o)]
  PROVE  /\ ShadowTypes'
         /\ \A d \in Authors \ {a} : shadow'[d] = shadow[d]
         /\ \A i \in DOMAIN shadow[a] : i \in DOMAIN shadow'[a] /\ shadow'[a][i] = shadow[a][i]
         /\ \A d \in Authors : NodesIn(shadow[d]) \subseteq NodesIn(shadow'[d])
         /\ ~o.head => o.node \in NodesIn(shadow'[a])
<1>1. shadow \in [Authors -> Seq(OpSet(Made))] /\ shadow[a] \in Seq(OpSet(Made))
  BY DEF IInv, Types, ShadowTypes
<1> DEFINE k == Len(shadow[a]) + 1
<1>2. /\ shadow'[a] = Append(shadow[a], o) /\ \A d \in Authors \ {a} : shadow'[d] = shadow[d]
      /\ shadow' \in [Authors -> Seq(OpSet(Made))]
  BY <1>1
<1>3. /\ DOMAIN shadow[a] = 1 .. k - 1 /\ DOMAIN shadow'[a] = 1 .. k /\ k \in Nat \ {0}
      /\ shadow'[a][k] = o
      /\ \A i \in 1 .. k - 1 : i \in 1 .. k /\ shadow'[a][i] = shadow[a][i]
  BY <1>1, <1>2
<1> HIDE DEF k
<1>4. \A i \in 1 .. k : i \in 1 .. k - 1 \/ i = k
  BY <1>3
<1>5. ASSUME NEW d \in Authors, NEW i \in DOMAIN shadow'[d], NEW e, e = shadow'[d][i]
      PROVE  FromCall(e, d)'
  <2>1. ASSUME i \in DOMAIN shadow[d], e = shadow[d][i]
        PROVE  FromCall(e, d)'
    <3>1. FromCall(e, d) /\ e.by \in Procs
      <4>1. shadow[d] \in Seq(OpSet(Made))
        BY <1>1
      <4>2. e \in OpSet(Made)
        BY <2>1, <4>1
      <4>3. QED BY <2>1, <4>2 DEF IInv, Types, ShadowTypes, OpSet
    <3>2. QED BY <3>1 DEF FromCall
  <2>2. CASE d # a
    BY <1>2, <1>5, <2>1, <2>2
  <2>3. CASE d = a /\ i # k
    BY <1>3, <1>4, <1>5, <2>1, <2>3
  <2>4. CASE d = a /\ i = k
    BY <1>3, <1>5, <2>4
  <2>5. QED BY <2>2, <2>3, <2>4
<1>6. ASSUME NEW d \in Authors, NEW b \in Branches, HeadOps(shadow'[d], b) # {}
      PROVE  \E i \in HeadOps(shadow'[d], b) : \A j \in HeadOps(shadow'[d], b) : i >= j
  <2>1. CASE d # a \/ ~(o.head /\ o.branch = b)
    <3>1. HeadOps(shadow'[d], b) = HeadOps(shadow[d], b)
      <4>1. CASE d # a
        BY <1>2, <4>1
      <4>2. CASE d = a /\ ~(o.head /\ o.branch = b)
        BY <1>3, <1>4, <4>2 DEF HeadOps
      <4>3. QED BY <2>1, <4>1, <4>2
    <3>2. QED BY <1>6, <3>1 DEF IInv, Types, ShadowTypes
  <2>2. CASE d = a /\ o.head /\ o.branch = b
    <3>1. k \in HeadOps(shadow'[d], b) /\ \A j \in HeadOps(shadow'[d], b) : j \in 1 .. k
      BY <1>3, <2>2 DEF HeadOps
    <3>2. QED BY <1>3, <3>1
  <2>3. QED BY <2>1, <2>2
<1>7. ShadowTypes'
  <2>1. \A d \in Authors : \A i \in DOMAIN shadow'[d] : FromCall(shadow[d][i], d)'
    BY <1>5
  <2>2. QED BY <1>2, <1>6, <2>1 DEF ShadowTypes
<1>8. \A d \in Authors : NodesIn(shadow[d]) \subseteq NodesIn(shadow'[d])
  <2>1. Ops(shadow[a]) \subseteq Ops(shadow'[a])
    BY <1>3 DEF Ops
  <2>2. NodesIn(shadow[a]) \subseteq NodesIn(shadow'[a])
    BY <2>1 DEF NodesIn
  <2>3. QED BY <1>2, <2>2
<1>9. ~o.head => o.node \in NodesIn(shadow'[a])
  <2>1. o \in Ops(shadow'[a])
    BY <1>3 DEF Ops
  <2>2. QED BY <2>1 DEF NodesIn
<1>10. QED BY <1>2, <1>3, <1>7, <1>8, <1>9

LEMMA PushNodeOfFileKeeps ==
  ASSUME IInv, NEW p \in Procs, PushNode(p), call[p].kind = "file"
  PROVE  IInv'
<1> DEFINE c == [call[p] EXCEPT !.step = "head"]
<1>1. call[p] \in CallSet(Made) /\ Shaped(call[p]) /\ call[p].step = "node"
  BY CallFacts DEF IInv, Types, PushNode
<1>2. PICK n \in Made : n = call[p].node
  BY <1>1 DEF Shaped, Flying, CallSet
<1>3. /\ stored' = stored \cup {n} /\ shadow' = shadow /\ call' = [call EXCEPT ![p] = c]
      /\ UNCHANGED <<nodes, trees, heads, stash, reflog, caches, calls, history>>
  BY <1>2 DEF PushNode, Goto
<1>4. /\ UNCHANGED <<nodes, trees, heads, stash, reflog, refCache, cell, shadow, calls, acked,
                     lossy, excused, stale, raced, stashed>>
      /\ Made' = Made /\ LastNode' = LastNode /\ Named' = Named /\ Kept' = Kept \cup {n}
      /\ \A m : Anc(m)' = Anc(m) /\ Hier(m)' = Hier(m)
  BY <1>3 DEF caches, history, Made, LastNode, Named, Kept, Anc, Hier
<1>5. c \in CallSet(Made) /\ Shaped(c) /\ c.step = "head" /\ c.kind = "file" /\ c.node = n
      /\ c.branch = call[p].branch /\ c.author = call[p].author
  <2>1. c \in CallSet(Made) /\ c.step = "head" /\ c.kind = "file" /\ c.node = n
        /\ c.branch = call[p].branch /\ c.author = call[p].author
    BY <1>1, <1>2 DEF CallSet, Steps
  <2> HIDE DEF c
  <2>2. QED BY <1>2, <2>1, MadeFacts DEF Shaped, Flying, CommitKinds, IInv, Types
<1> HIDE DEF c
<1>6. CallTypes' /\ call'[p] = c /\ \A q \in Procs \ {p} : call'[q] = call[q]
  <2>1. calls' \in Nat
    BY <1>4 DEF IInv, Types, CallTypes
  <2>2. QED BY <1>3, <1>4, <1>5, <2>1, Moved DEF IInv, Types
<1>7. Types'
  <2>1. NodeTypes' /\ RowTypes' /\ HistoryTypes'
    BY <1>3, <1>4 DEF IInv, Types, NodeTypes, RowTypes, HistoryTypes
  <2>2. ShadowTypes'
    BY <1>1, <1>4, <1>6, OpsStay DEF IInv, Types
  <2>3. QED BY <1>6, <2>1, <2>2 DEF Types
<1>8. Mutex'
  BY <1>1, <1>5, <1>6, MutexStays DEF IInv, InSection
<1>9. Popping' /\ \A q \in Procs : Remembers(q)'
  <2>1. c.old = call[p].old
    BY <1>1 DEF c, CallSet
  <2>2. Kept \subseteq Kept' /\ excused \subseteq excused' /\ UNCHANGED <<stash, stashed>>
    BY <1>4 DEF Kept
  <2>3. QED BY <1>5, <1>4, <1>6, <2>1, <2>2, StepRests DEF Hidden
<1>10. Whole'
  BY <1>4 DEF IInv, Resolving, Whole
<1>11. Planted'
  <2>1. Flying(call[p])
    BY <1>1 DEF Flying
  <2>2. \A m \in Made : m \in stored' \/ (\E q \in Procs : Flying(call'[q]) /\ call'[q].node = m)
            => m \in stored \/ \E q \in Procs : Flying(call[q]) /\ call[q].node = m
    BY <1>2, <1>3, <1>5, <1>6, <2>1
  <2>3. QED BY <1>4, <2>2 DEF IInv, Resolving, Planted
<1>12. \A q \in Procs : InFlight(call[q])'
  <2>1. InFlight(call[p])'
    <3>1. Anc(n) \subseteq Kept \cup {n}
      BY <1>1, <1>2 DEF IInv, Resolving, InFlight, Buffered, Unpushed, Flying
    <3>2. QED BY <1>4, <1>5, <1>6, <3>1 DEF InFlight
  <2>2. ASSUME NEW q \in Procs \ {p} PROVE InFlight(call[q])'
    <3>1. InFlight(call[q])
      BY DEF IInv, Resolving
    <3>2. Buffered(call[q])' = Buffered(call[q])
      <4>1. shadow' = shadow /\ call'[q] = call[q]
        BY <1>4, <1>6
      <4>2. QED BY <4>1 DEF Buffered
    <3>3. QED BY <1>4, <1>6, <3>1, <3>2 DEF InFlight, Unpushed
  <2>3. QED BY <2>1, <2>2
<1>13. \A q \in Procs : Secret(q)'
  <2>1. Secret(p)'
    BY <1>5, <1>6 DEF Secret
  <2>2. ASSUME NEW q \in Procs \ {p} PROVE Secret(q)'
    <3>1. Secret(q)
      BY DEF IInv, Resolving
    <3>2. QED BY <1>2, <1>4, <1>5, <1>6, <3>1 DEF Secret
  <2>3. QED BY <2>1, <2>2
<1>14. \A q \in Procs : Marked(q)'
  BY <1>1, <1>4, <1>5, <1>6, MarkedStays
<1>15. \A d \in Branches : Warmed(d)'
  <2>1. \A q \in Procs : call[q].step = "land" /\ Pending(q) => Pending(q)'
    BY <1>1, <1>4, <1>6 DEF Pending, Op
  <2>2. QED BY <1>1, <1>4, <1>5, <1>6, <2>1, WarmStays
<1>16. QED BY <1>7, <1>8, <1>9, <1>10, <1>11, <1>12, <1>13, <1>14, <1>15 DEF IInv, Resolving

LEMMA PushNodeOfCommitKeeps ==
  ASSUME IInv, NEW p \in Procs, PushNode(p), call[p].kind # "file"
  PROVE  IInv'
<1> DEFINE c == [call[p] EXCEPT !.step = "head"]
<1>1. call[p] \in CallSet(Made) /\ Shaped(call[p]) /\ call[p].step = "node"
  BY CallFacts DEF IInv, Types, PushNode
<1>2. PICK n \in Made : n = call[p].node
  BY <1>1 DEF Shaped, Flying, CallSet
<1>3. PICK a \in Authors : a = call[p].author
  BY <1>1 DEF Shaped
<1>4. PICK o : o = Op(p, FALSE)
  OBVIOUS
<1>5. /\ shadow' = [shadow EXCEPT ![a] = Append(@, o)] /\ call' = [call EXCEPT ![p] = c]
      /\ UNCHANGED <<nodes, stored, trees, heads, stash, reflog, caches, calls, history>>
  BY <1>3, <1>4 DEF PushNode, Goto
<1>6. /\ UNCHANGED <<nodes, stored, trees, heads, stash, reflog, refCache, cell, calls, acked,
                     lossy, excused, stale, raced, stashed>>
      /\ Made' = Made /\ LastNode' = LastNode /\ Named' = Named /\ Kept' = Kept
      /\ \A m : Anc(m)' = Anc(m) /\ Hier(m)' = Hier(m)
  BY <1>5 DEF caches, history, Made, LastNode, Named, Kept, Anc, Hier
<1>7. /\ c \in CallSet(Made) /\ Shaped(c) /\ c.step = "head" /\ c.kind = call[p].kind
      /\ c.node = n /\ c.branch = call[p].branch /\ c.author = a /\ c.kind \in CommitKinds
  <2>1. call[p].kind \in CommitKinds
    BY <1>1 DEF Shaped
  <2>2. c \in CallSet(Made) /\ c.step = "head" /\ c.kind = call[p].kind /\ c.node = n
        /\ c.branch = call[p].branch /\ c.author = a
    BY <1>1, <1>2, <1>3 DEF CallSet, Steps
  <2> HIDE DEF c
  <2>3. QED BY <1>2, <2>1, <2>2, MadeFacts DEF Shaped, Flying, IInv, Types
<1> HIDE DEF c
<1>8. CallTypes' /\ call'[p] = c /\ \A q \in Procs \ {p} : call'[q] = call[q]
  <2>1. calls' \in Nat
    BY <1>6 DEF IInv, Types, CallTypes
  <2>2. QED BY <1>5, <1>6, <1>7, <2>1, Moved DEF IInv, Types
<1>9. /\ o \in OpSet(Made) /\ o.by = p /\ o.head = FALSE /\ o.node = n
      /\ o.branch = call[p].branch
  BY <1>1, <1>2, <1>4 DEF Op, OpSet, CallSet
<1>10. FromCall(o, a)'
  BY <1>7, <1>8, <1>9 DEF FromCall
<1>11. /\ ShadowTypes'
       /\ \A d \in Authors \ {a} : shadow'[d] = shadow[d]
       /\ \A i \in DOMAIN shadow[a] : i \in DOMAIN shadow'[a] /\ shadow'[a][i] = shadow[a][i]
       /\ \A d \in Authors : NodesIn(shadow[d]) \subseteq NodesIn(shadow'[d])
       /\ n \in NodesIn(shadow'[a])
  <2>1. /\ call[p].step \in {"node", "head"} /\ call'[p].step \in {"head", "land"}
        /\ call'[p].kind = call[p].kind /\ call'[p].author = call[p].author
        /\ call'[p].branch = call[p].branch /\ call'[p].node = call[p].node
        /\ \A q \in Procs \ {p} : call'[q] = call[q]
    BY <1>1, <1>2, <1>3, <1>7, <1>8
  <2>2. shadow' = [shadow EXCEPT ![a] = Append(@, o)] /\ Made' = Made
    BY <1>5, <1>6
  <2>3. QED BY <1>9, <1>10, <2>1, <2>2, Pushed
<1>12. Types'
  <2>1. NodeTypes' /\ RowTypes' /\ HistoryTypes'
    BY <1>6 DEF IInv, Types, NodeTypes, RowTypes, HistoryTypes
  <2>2. QED BY <1>8, <1>11, <2>1 DEF Types
<1>13. Mutex'
  BY <1>1, <1>7, <1>8, MutexStays DEF IInv, InSection
<1>14. Popping' /\ \A q \in Procs : Remembers(q)'
  <2>1. c.old = call[p].old
    BY <1>1 DEF c, CallSet
  <2>2. Kept \subseteq Kept' /\ excused \subseteq excused' /\ UNCHANGED <<stash, stashed>>
    BY <1>6 DEF Kept
  <2>3. QED BY <1>7, <1>6, <1>8, <2>1, <2>2, StepRests DEF Hidden
<1>15. Whole'
  BY <1>6 DEF IInv, Resolving, Whole
<1>16. Planted'
  <2>1. Flying(call[p])
    BY <1>1 DEF Flying
  <2>2. QED BY <1>2, <1>6, <1>7, <1>8, <2>1 DEF IInv, Resolving, Planted
<1>17. \A q \in Procs : InFlight(call[q])'
  <2>1. InFlight(call[p])'
    <3>1. Anc(n) \subseteq Kept \cup NodesIn(shadow[a]) \cup {n}
      BY <1>1, <1>2, <1>3 DEF IInv, Resolving, InFlight, Buffered, Unpushed, Flying
    <3>2. Buffered(call[p])' = NodesIn(shadow'[a])
      <4>1. call'[p].author = a /\ call'[p].kind # "file"
        BY <1>7, <1>8
      <4>2. QED BY <4>1 DEF Buffered
    <3>3. QED BY <1>6, <1>7, <1>8, <1>11, <3>1, <3>2 DEF InFlight
  <2>2. ASSUME NEW q \in Procs \ {p} PROVE InFlight(call[q])'
    <3>1. InFlight(call[q]) /\ Shaped(call[q])
      BY DEF IInv, Resolving, Types, CallTypes
    <3>2. Flying(call[q]) => Buffered(call[q]) \subseteq Buffered(call[q])'
      <4>1. CASE call[q].kind = "file"
        BY <4>1 DEF Buffered
      <4>2. ASSUME call[q].kind # "file", Flying(call[q])
            PROVE  Buffered(call[q]) \subseteq Buffered(call[q])'
        <5>1. call[q].author \in Authors
          BY <3>1, <4>2 DEF Shaped, Flying
        <5>2. Buffered(call[q])' = NodesIn(shadow'[call[q].author])
          <6>1. call'[q] = call[q]
            BY <1>8
          <6>2. QED BY <4>2, <6>1 DEF Buffered
        <5>3. Buffered(call[q]) = NodesIn(shadow[call[q].author])
          BY <4>2 DEF Buffered
        <5>4. QED BY <1>11, <5>1, <5>2, <5>3
      <4>3. QED BY <4>1, <4>2
    <3>3. QED BY <1>6, <1>8, <3>1, <3>2 DEF InFlight, Unpushed
  <2>3. QED BY <2>1, <2>2
<1>18. \A q \in Procs : Secret(q)'
  <2>1. Secret(p)'
    BY <1>7, <1>8 DEF Secret
  <2>2. ASSUME NEW q \in Procs \ {p} PROVE Secret(q)'
    <3>1. Secret(q)
      BY DEF IInv, Resolving
    <3>2. QED BY <1>2, <1>6, <1>7, <1>8, <3>1 DEF Secret
  <2>3. QED BY <2>1, <2>2
<1>19. \A q \in Procs : Marked(q)'
  BY <1>1, <1>6, <1>7, <1>8, MarkedStays
<1>20. \A d \in Branches : Warmed(d)'
  <2>1. ASSUME NEW q \in Procs, call[q].step = "land", Pending(q) PROVE Pending(q)'
    <3>1. q # p /\ call'[q] = call[q]
      BY <1>1, <1>8, <2>1
    <3>2. call[q].author \in Authors
      BY <2>1 DEF IInv, Types, CallTypes, Shaped
    <3>3. Op(q, TRUE)' = Op(q, TRUE)
      BY <3>1 DEF Op
    <3>4. QED BY <1>11, <2>1, <3>1, <3>2, <3>3 DEF Pending
  <2>2. QED BY <1>1, <1>6, <1>7, <1>8, <2>1, WarmStays
<1>21. QED BY <1>12, <1>13, <1>14, <1>15, <1>16, <1>17, <1>18, <1>19, <1>20 DEF IInv, Resolving

LEMMA PushNodeKeeps ==
  ASSUME IInv, NEW p \in Procs, PushNode(p)
  PROVE  IInv'
BY PushNodeOfFileKeeps, PushNodeOfCommitKeeps

LEMMA OverlapFacts ==
  ASSUME Types, NEW p \in Procs, NEW b \in Branches, Overlap(p, b)
  PROVE  /\ lossy' \in [Branches -> SUBSET Flaws] /\ \A d \in Branches : lossy[d] \subseteq lossy'[d]
         /\ Overlapping(p, b) => "overlap" \in lossy'[b]
<1>1. PICK more \in SUBSET Flaws :
        /\ lossy' = [lossy EXCEPT ![b] = @ \cup more]
        /\ Overlapping(p, b) => "overlap" \in more
  BY DEF Overlap, Flaws
<1>2. lossy \in [Branches -> SUBSET Flaws]
  BY DEF Types, HistoryTypes
<1>3. QED BY <1>1, <1>2

LEMMA PushHeadOfFileKeeps ==
  ASSUME IInv, NEW p \in Procs, PushHead(p), call[p].kind = "file"
  PROVE  IInv'
<1>1. call[p] \in CallSet(Made) /\ Shaped(call[p]) /\ call[p].step = "head"
  BY CallFacts DEF IInv, Types, PushHead
<1>2. PICK n \in Made : n = call[p].node
  BY <1>1 DEF Shaped, Flying, CallSet
<1>3. PICK b \in Branches : b = call[p].branch
  BY <1>1 DEF CallSet
<1>4. /\ refCache' = [refCache EXCEPT ![b] = n]
      /\ heads' = SetHead(heads, b, n)
      /\ acked' = acked \cup IF Exists(b) THEN {<<b, n>>} ELSE {}
      /\ Overlap(p, b)
      /\ call' = [call EXCEPT ![p] = Idle]
      /\ stale' = IF Exists(b) THEN stale ELSE stale \cup {b}
  BY <1>2, <1>3 DEF PushHead
<1>5. /\ UNCHANGED <<nodes, cell, stored, trees, stash, reflog, shadow, calls, excused, raced,
                     stashed>>
      /\ Made' = Made /\ LastNode' = LastNode /\ Kept' = Kept
      /\ \A m : Anc(m)' = Anc(m) /\ Hier(m)' = Hier(m)
  BY DEF PushHead, Made, LastNode, Kept, Anc, Hier
<1>6. CallTypes' /\ call'[p] = Idle /\ \A q \in Procs \ {p} : call'[q] = call[q]
  <2>1. calls' \in Nat
    BY <1>5 DEF IInv, Types, CallTypes
  <2>2. QED BY <1>4, <1>5, <2>1, IdleFacts, Moved DEF IInv, Types
<1>7. Idle.step = "idle" /\ Idle.node = None /\ ~Flying(Idle)
  BY IdleFacts DEF IInv
<1>8. /\ lossy' \in [Branches -> SUBSET Flaws] /\ \A d \in Branches : lossy[d] \subseteq lossy'[d]
      /\ Overlapping(p, b) => "overlap" \in lossy'[b]
  BY <1>4, OverlapFacts DEF IInv
<1>9. /\ heads' \in [Branches -> Made \cup {None, Absent}]
      /\ \A d \in Branches : d # b => heads'[d] = heads[d]
      /\ Exists(b) => heads'[b] = n
      /\ \A d \in Branches : heads'[d] \in {heads[d], n}
  BY <1>4 DEF SetHead, Exists, IInv, Types, RowTypes
<1>10. Types'
  <2>1. NodeTypes' /\ RowTypes'
    BY <1>4, <1>5, <1>9 DEF IInv, Types, NodeTypes, RowTypes
  <2>2. HistoryTypes'
    <3>1. acked' \subseteq Branches \X Made
      BY <1>4 DEF IInv, Types, HistoryTypes
    <3>2. QED BY <1>4, <1>5, <1>8, <3>1 DEF IInv, Types, HistoryTypes
  <2>3. ShadowTypes'
    <3>1. \A a \in Authors : \A i \in DOMAIN shadow[a] : shadow[a][i].by # p
      BY <1>1 DEF IInv, Types, ShadowTypes, FromCall, CommitKinds
    <3>2. ASSUME NEW a \in Authors, NEW i \in DOMAIN shadow[a]
          PROVE  FromCall(shadow[a][i], a)'
      <4>1. FromCall(shadow[a][i], a) /\ shadow[a][i].by \in Procs \ {p}
        BY <3>1, OpWhole DEF IInv, Types, ShadowTypes
      <4>2. QED BY <1>5, <1>6, <4>1 DEF FromCall
    <3>3. \A a \in Authors, d \in Branches : HeadOps(shadow[a], d)' = HeadOps(shadow[a], d)
      BY <1>5 DEF HeadOps
    <3>4. QED BY <1>5, <3>2, <3>3 DEF IInv, Types, ShadowTypes
  <2>4. QED BY <1>6, <2>1, <2>2, <2>3 DEF Types
<1>11. Mutex'
  BY <1>6, <1>7, MutexStays DEF IInv, InSection
<1>12. Popping' /\ \A q \in Procs : Remembers(q)'
  <2>1. Kept \subseteq Kept' /\ excused \subseteq excused' /\ UNCHANGED <<stash, stashed>>
    BY <1>5
  <2>2. QED BY <1>5, <1>7, <1>6, <2>1, StepRests DEF Hidden
<1>13. Named' \subseteq Named \cup {n}
  BY <1>5, <1>9 DEF Named
<1>14. Whole'
  <2>1. Anc(n) \subseteq Kept
    BY <1>1, <1>2 DEF IInv, Resolving, InFlight, Flying, Buffered, Unpushed
  <2>2. QED BY <1>5, <1>13, <2>1 DEF IInv, Resolving, Whole
<1>15. Planted'
  BY <1>5, <1>6, <1>7 DEF IInv, Resolving, Planted
<1>16. \A q \in Procs : InFlight(call[q])'
  <2>1. InFlight(call[p])'
    BY <1>6, <1>7 DEF InFlight
  <2>2. ASSUME NEW q \in Procs \ {p} PROVE InFlight(call[q])'
    <3>1. InFlight(call[q])
      BY DEF IInv, Resolving
    <3>2. Buffered(call[q])' = Buffered(call[q])
      <4>1. shadow' = shadow /\ call'[q] = call[q]
        BY <1>5, <1>6
      <4>2. QED BY <4>1 DEF Buffered
    <3>3. QED BY <1>5, <1>6, <3>1, <3>2 DEF InFlight, Unpushed
  <2>3. QED BY <2>1, <2>2
<1>17. \A q \in Procs : Secret(q)'
  <2>1. Secret(p)'
    BY <1>6, <1>7 DEF Secret
  <2>2. ASSUME NEW q \in Procs \ {p} PROVE Secret(q)'
    <3>1. \A d \in Branches : refCache'[d] \in {refCache[d], call[p].node}
      BY <1>2, <1>4 DEF IInv, Types, RowTypes
    <3>2. ASSUME call[q].kind = "file", call[q].step = "read"
          PROVE  call[q].node # None /\ call[q].node # n
      BY <1>2, <3>2 DEF IInv, Resolving, Secret, Types, CallTypes, Shaped, Flying
    <3>3. QED BY <1>6, <1>7, <1>13, <3>1, <3>2, SecretStays
  <2>3. QED BY <2>1, <2>2
<1>18. \A q \in Procs : Marked(q)'
  BY <1>1, <1>5, <1>6, <1>7, MarkedStays
<1>19. ASSUME NEW d \in Branches PROVE Warmed(d)'
  <2>1. CASE d # b
    <3>1. ~Landing(p, d) /\ ~Landing(p, d)'
      BY <1>1, <1>6, <1>7 DEF Landing
    <3>2. \A q \in Procs : Landing(q, d) /\ Pending(q) => Pending(q)'
      BY <1>1, <1>5, <1>6 DEF Landing, Pending, Op
    <3>3. heads'[d] = heads[d] /\ refCache'[d] = refCache[d] /\ (d \in stale => d \in stale')
      BY <1>4, <1>9, <2>1 DEF IInv, Types, RowTypes
    <3>4. QED BY <1>6, <1>8, <3>1, <3>2, <3>3, WarmStaysAt
  <2>2. CASE d = b /\ ~Exists(b)
    BY <1>4, <2>2 DEF Warmed
  <2>3. ASSUME d = b, Exists(b), NEW q \in Procs, Landing(q, b)' PROVE Warmed(d)'
    <3>1. q # p /\ Landing(q, b)
      BY <1>6, <1>7, <2>3 DEF Landing
    <3>2. InSection(q) /\ Family(q) # "file" /\ Family(p) = "file" /\ Busy(q) /\ call[q].branch = b
      <4>1. call[q].kind \in CommitKinds
        BY <3>1 DEF Landing, IInv, Types, CallTypes, Shaped
      <4>2. QED BY <3>1, <4>1 DEF Landing, InSection, Family, Busy, CommitKinds
    <3>3. Overlapping(p, b)
      BY <3>1, <3>2 DEF Overlapping
    <3>4. QED BY <1>8, <2>3, <3>3 DEF Warmed
  <2>4. CASE d = b /\ Exists(b) /\ \A q \in Procs : ~Landing(q, b)'
    <3>1. refCache'[d] = n /\ heads'[d] = n
      BY <1>4, <1>9, <2>4 DEF IInv, Types, RowTypes
    <3>2. QED BY <2>4, <3>1 DEF Warmed
  <2>5. QED BY <2>1, <2>2, <2>3, <2>4
<1>20. QED BY <1>10, <1>11, <1>12, <1>14, <1>15, <1>16, <1>17, <1>18, <1>19 DEF IInv, Resolving

LEMMA PushHeadOfCommitKeeps ==
  ASSUME IInv, NEW p \in Procs, PushHead(p), call[p].kind # "file"
  PROVE  IInv'
<1> DEFINE c == [call[p] EXCEPT !.step = "land"]
<1>1. call[p] \in CallSet(Made) /\ Shaped(call[p]) /\ call[p].step = "head"
  BY CallFacts DEF IInv, Types, PushHead
<1>2. PICK n \in Made : n = call[p].node
  BY <1>1 DEF Shaped, Flying, CallSet
<1>3. PICK b \in Branches : b = call[p].branch
  BY <1>1 DEF CallSet
<1>4. PICK a \in Authors : a = call[p].author
  BY <1>1 DEF Shaped
<1>5. PICK o : o = Op(p, TRUE)
  OBVIOUS
<1>6. /\ shadow' = [shadow EXCEPT ![a] = Append(@, o)] /\ call' = [call EXCEPT ![p] = c]
      /\ refCache' = [refCache EXCEPT ![b] = n]
      /\ stale' = IF Exists(b) THEN stale ELSE stale \cup {b}
  BY <1>2, <1>3, <1>4, <1>5 DEF PushHead, Goto
<1>7. /\ UNCHANGED <<nodes, stored, trees, heads, stash, reflog, cell, calls, acked,
                     lossy, excused, raced, stashed>>
      /\ Made' = Made /\ LastNode' = LastNode /\ Named' = Named /\ Kept' = Kept
      /\ \A m : Anc(m)' = Anc(m) /\ Hier(m)' = Hier(m)
  BY DEF PushHead, Made, LastNode, Named, Kept, Anc, Hier
<1>8. /\ c \in CallSet(Made) /\ Shaped(c) /\ c.step = "land" /\ c.kind = call[p].kind
      /\ c.node = n /\ c.branch = b /\ c.author = a /\ c.kind \in CommitKinds
  <2>1. call[p].kind \in CommitKinds
    BY <1>1 DEF Shaped
  <2>2. c \in CallSet(Made) /\ c.step = "land" /\ c.kind = call[p].kind /\ c.node = n
        /\ c.branch = b /\ c.author = a
    BY <1>1, <1>2, <1>3, <1>4 DEF CallSet, Steps
  <2> HIDE DEF c
  <2>3. QED BY <1>2, <2>1, <2>2, MadeFacts DEF Shaped, Flying, IInv, Types
<1> HIDE DEF c
<1>9. CallTypes' /\ call'[p] = c /\ \A q \in Procs \ {p} : call'[q] = call[q]
  <2>1. calls' \in Nat
    BY <1>7 DEF IInv, Types, CallTypes
  <2>2. QED BY <1>6, <1>7, <1>8, <2>1, Moved DEF IInv, Types
<1>10. o \in OpSet(Made) /\ o.by = p /\ o.head = TRUE /\ o.node = n /\ o.branch = b
  BY <1>1, <1>2, <1>3, <1>5 DEF Op, OpSet
<1>11. FromCall(o, a)'
  BY <1>8, <1>9, <1>10 DEF FromCall
<1>12. /\ ShadowTypes'
       /\ \A d \in Authors \ {a} : shadow'[d] = shadow[d]
       /\ \A i \in DOMAIN shadow[a] : i \in DOMAIN shadow'[a] /\ shadow'[a][i] = shadow[a][i]
       /\ \E i \in DOMAIN shadow'[a] : shadow'[a][i] = o
       /\ \A d \in Authors : NodesIn(shadow[d]) \subseteq NodesIn(shadow'[d])
  <2>1. /\ call[p].step \in {"node", "head"} /\ call'[p].step \in {"head", "land"}
        /\ call'[p].kind = call[p].kind /\ call'[p].author = call[p].author
        /\ call'[p].branch = call[p].branch /\ call'[p].node = call[p].node
        /\ \A q \in Procs \ {p} : call'[q] = call[q]
    BY <1>1, <1>2, <1>3, <1>4, <1>8, <1>9
  <2>2. shadow' = [shadow EXCEPT ![a] = Append(@, o)] /\ Made' = Made
    BY <1>6, <1>7
  <2>3. o \in OpSet(Made) /\ o.by = p
    BY <1>10
  <2>4. /\ ShadowTypes'
        /\ \A d \in Authors \ {a} : shadow'[d] = shadow[d]
        /\ \A i \in DOMAIN shadow[a] : i \in DOMAIN shadow'[a] /\ shadow'[a][i] = shadow[a][i]
        /\ \A d \in Authors : NodesIn(shadow[d]) \subseteq NodesIn(shadow'[d])
    BY <1>11, <2>1, <2>2, <2>3, Pushed
  <2>5. \E i \in DOMAIN shadow'[a] : shadow'[a][i] = o
    <3>1. shadow \in [Authors -> Seq(OpSet(Made))]
      BY DEF IInv, Types, ShadowTypes
    <3>2. shadow[a] \in Seq(OpSet(Made)) /\ shadow'[a] = Append(shadow[a], o)
      BY <2>2, <3>1
    <3>3. Len(shadow[a]) + 1 \in DOMAIN shadow'[a] /\ shadow'[a][Len(shadow[a]) + 1] = o
      BY <2>3, <3>2
    <3>4. QED BY <3>3
  <2>6. QED BY <2>4, <2>5
<1>13. Types'
  <2>1. NodeTypes' /\ RowTypes' /\ HistoryTypes'
    BY <1>6, <1>7 DEF IInv, Types, NodeTypes, RowTypes, HistoryTypes
  <2>2. QED BY <1>9, <1>12, <2>1 DEF Types
<1>14. Mutex'
  BY <1>1, <1>3, <1>8, <1>9, MutexStays DEF IInv, InSection
<1>15. Popping' /\ \A q \in Procs : Remembers(q)'
  <2>1. c.old = call[p].old
    BY <1>1 DEF c, CallSet
  <2>2. Kept \subseteq Kept' /\ excused \subseteq excused' /\ UNCHANGED <<stash, stashed>>
    BY <1>7 DEF Kept
  <2>3. QED BY <1>8, <1>7, <1>9, <2>1, <2>2, StepRests DEF Hidden
<1>16. Whole'
  BY <1>7 DEF IInv, Resolving, Whole
<1>17. Planted'
  <2>1. Flying(call[p])
    BY <1>1 DEF Flying
  <2>2. QED BY <1>2, <1>7, <1>8, <1>9, <2>1 DEF IInv, Resolving, Planted
<1>18. \A q \in Procs : InFlight(call[q])'
  <2>1. InFlight(call[p])'
    <3>1. Anc(n) \subseteq Kept \cup NodesIn(shadow[a])
      BY <1>1, <1>2, <1>4 DEF IInv, Resolving, InFlight, Buffered, Unpushed, Flying
    <3>2. Buffered(call[p])' = NodesIn(shadow'[a])
      <4>1. call'[p].author = a /\ call'[p].kind # "file"
        BY <1>8, <1>9
      <4>2. QED BY <4>1 DEF Buffered
    <3>3. QED BY <1>7, <1>8, <1>9, <1>12, <3>1, <3>2 DEF InFlight
  <2>2. ASSUME NEW q \in Procs \ {p} PROVE InFlight(call[q])'
    <3>1. InFlight(call[q]) /\ Shaped(call[q])
      BY DEF IInv, Resolving, Types, CallTypes
    <3>2. Flying(call[q]) => Buffered(call[q]) \subseteq Buffered(call[q])'
      <4>1. CASE call[q].kind = "file"
        BY <4>1 DEF Buffered
      <4>2. ASSUME call[q].kind # "file", Flying(call[q])
            PROVE  Buffered(call[q]) \subseteq Buffered(call[q])'
        <5>1. call[q].author \in Authors
          BY <3>1, <4>2 DEF Shaped, Flying
        <5>2. Buffered(call[q])' = NodesIn(shadow'[call[q].author])
          <6>1. call'[q] = call[q]
            BY <1>9
          <6>2. QED BY <4>2, <6>1 DEF Buffered
        <5>3. Buffered(call[q]) = NodesIn(shadow[call[q].author])
          BY <4>2 DEF Buffered
        <5>4. QED BY <1>12, <5>1, <5>2, <5>3
      <4>3. QED BY <4>1, <4>2
    <3>3. QED BY <1>7, <1>9, <3>1, <3>2 DEF InFlight, Unpushed
  <2>3. QED BY <2>1, <2>2
<1>19. \A q \in Procs : Secret(q)'
  <2>1. Secret(p)'
    BY <1>8, <1>9 DEF Secret
  <2>2. ASSUME NEW q \in Procs \ {p} PROVE Secret(q)'
    <3>1. \A d \in Branches : refCache'[d] \in {refCache[d], call[p].node}
      BY <1>2, <1>6 DEF IInv, Types, RowTypes
    <3>2. ASSUME call[q].kind = "file", call[q].step = "read"
          PROVE  call[q].node # n
      BY <1>2, <3>2 DEF IInv, Resolving, Secret
    <3>3. QED BY <1>7, <1>8, <1>9, <3>1, <3>2, SecretStays
  <2>3. QED BY <2>1, <2>2
<1>20. \A q \in Procs : Marked(q)'
  BY <1>1, <1>7, <1>8, <1>9, MarkedStays
<1>21. ASSUME NEW q \in Procs, call[q].step = "land", Pending(q) PROVE Pending(q)'
  <2>1. q # p /\ call'[q] = call[q]
    BY <1>1, <1>9, <1>21
  <2>2. call[q].author \in Authors
    BY <1>21 DEF IInv, Types, CallTypes, Shaped
  <2>3. Op(q, TRUE)' = Op(q, TRUE)
    BY <2>1 DEF Op
  <2>4. QED BY <1>12, <1>21, <2>1, <2>2, <2>3 DEF Pending
<1>22. ASSUME NEW d \in Branches PROVE Warmed(d)'
  <2>1. CASE d # b
    <3>1. ~Landing(p, d) /\ ~Landing(p, d)'
      BY <1>1, <1>8, <1>9, <2>1 DEF Landing
    <3>2. \A q \in Procs : Landing(q, d) /\ Pending(q) => Pending(q)'
      BY <1>21 DEF Landing
    <3>3. heads'[d] = heads[d] /\ refCache'[d] = refCache[d] /\ (d \in stale => d \in stale')
      BY <1>6, <1>7, <2>1 DEF IInv, Types, RowTypes
    <3>4. lossy'[d] = lossy[d]
      BY <1>7
    <3>5. QED BY <1>9, <3>1, <3>2, <3>3, <3>4, WarmStaysAt
  <2>2. CASE d = b /\ ~Exists(b)
    BY <1>6, <2>2 DEF Warmed
  <2>3. CASE d = b /\ Exists(b)
    <3>1. Landing(p, d)' /\ Exists(d)'
      BY <1>7, <1>8, <1>9, <2>3 DEF Landing, Exists
    <3>2. refCache'[d] = call'[p].node
      BY <1>6, <1>8, <1>9, <2>3 DEF IInv, Types, RowTypes
    <3>3. Pending(p)'
      <4>1. Op(p, TRUE)' = o
        BY <1>2, <1>3, <1>5, <1>8, <1>9 DEF Op
      <4>2. QED BY <1>8, <1>9, <1>12, <4>1 DEF Pending
    <3>4. QED BY <3>1, <3>2, <3>3 DEF Warmed
  <2>4. QED BY <2>1, <2>2, <2>3
<1>23. QED BY <1>13, <1>14, <1>15, <1>16, <1>17, <1>18, <1>19, <1>20, <1>22 DEF IInv, Resolving

LEMMA PushHeadKeeps ==
  ASSUME IInv, NEW p \in Procs, PushHead(p)
  PROVE  IInv'
BY PushHeadOfFileKeeps, PushHeadOfCommitKeeps

(* The shadow of an author is emptied by one of the calls at work in it.    *)
LEMMA Emptied ==
  ASSUME IInv, NEW p \in Procs, NEW a \in Authors, a = call[p].author, Made' = Made,
         \A q \in Procs \ {p} : call'[q] = call[q], shadow' = [shadow EXCEPT ![a] = <<>>]
  PROVE  /\ ShadowTypes'
         /\ NodesIn(shadow'[a]) = {} /\ \A d \in Authors \ {a} : shadow'[d] = shadow[d]
<1>1. /\ shadow'[a] = <<>> /\ \A d \in Authors \ {a} : shadow'[d] = shadow[d]
      /\ shadow' \in [Authors -> Seq(OpSet(Made))]
  BY DEF IInv, Types, ShadowTypes
<1>2. ASSUME NEW d \in Authors, NEW i \in DOMAIN shadow'[d], NEW e, e = shadow'[d][i]
      PROVE  FromCall(e, d)'
  <2>1. d # a
    BY <1>1, <1>2
  <2>2. i \in DOMAIN shadow[d] /\ e = shadow[d][i]
    BY <1>1, <1>2, <2>1
  <2>3. FromCall(e, d) /\ e.by \in Procs
    BY <2>2, OpWhole DEF IInv, Types, ShadowTypes
  <2>4. e.by # p
    BY <2>1, <2>3 DEF FromCall
  <2>5. QED BY <2>3, <2>4 DEF FromCall
<1>3. ASSUME NEW d \in Authors, NEW b \in Branches, HeadOps(shadow'[d], b) # {}
      PROVE  \E i \in HeadOps(shadow'[d], b) : \A j \in HeadOps(shadow'[d], b) : i >= j
  <2>1. d # a
    BY <1>1, <1>3 DEF HeadOps
  <2>2. HeadOps(shadow'[d], b) = HeadOps(shadow[d], b)
    BY <1>1, <2>1
  <2>3. QED BY <1>3, <2>2 DEF IInv, Types, ShadowTypes
<1>4. ShadowTypes'
  <2>1. \A d \in Authors : \A i \in DOMAIN shadow'[d] : FromCall(shadow[d][i], d)'
    BY <1>2
  <2>2. QED BY <1>1, <1>3, <2>1 DEF ShadowTypes
<1>5. NodesIn(shadow'[a]) = {}
  <2>1. Ops(shadow'[a]) = {}
    BY <1>1 DEF Ops
  <2>2. QED BY <2>1 DEF NodesIn
<1>6. QED BY <1>1, <1>4, <1>5

LEMMA LandKeeps ==
  ASSUME IInv, NEW p \in Procs, Land(p)
  PROVE  IInv'
<1> DEFINE c == [call[p] EXCEPT !.step = "log"]
<1>1. call[p] \in CallSet(Made) /\ Shaped(call[p]) /\ call[p].step = "land"
  BY CallFacts DEF IInv, Types, Land
<1>2. PICK n \in Made : n = call[p].node
  BY <1>1 DEF Shaped, Flying, CallSet
<1>3. PICK b \in Branches : b = call[p].branch
  BY <1>1 DEF CallSet
<1>4. PICK a \in Authors : a = call[p].author
  BY <1>1 DEF Shaped
<1>5. /\ stored' = stored \cup NodesIn(shadow[a])
      /\ heads' = Landed(heads, shadow[a])
      /\ shadow' = [shadow EXCEPT ![a] = <<>>]
      /\ acked' = acked \cup IF Exists(b) THEN {<<b, n>>} ELSE {}
      /\ Overlap(p, b)
      /\ stashed' = IF call[p].kind = "pop" /\ n \in stored' THEN "applied" ELSE stashed
      /\ call' = [call EXCEPT ![p] = c]
  BY <1>2, <1>3, <1>4 DEF Land, Goto
<1>6. /\ UNCHANGED <<nodes, cell, refCache, trees, stash, reflog, calls, excused, stale, raced>>
      /\ Made' = Made /\ LastNode' = LastNode /\ Kept' = Kept \cup NodesIn(shadow[a])
      /\ \A m : Anc(m)' = Anc(m) /\ Hier(m)' = Hier(m)
  BY <1>5 DEF Land, caches, Made, LastNode, Kept, Anc, Hier
<1>7. /\ c \in CallSet(Made) /\ Shaped(c) /\ c.step = "log" /\ c.kind = call[p].kind
      /\ c.node = n /\ c.branch = b /\ c.author = a /\ c.kind \in CommitKinds
  <2>1. call[p].kind \in CommitKinds
    BY <1>1 DEF Shaped
  <2>2. c \in CallSet(Made) /\ c.step = "log" /\ c.kind = call[p].kind /\ c.node = n
        /\ c.branch = b /\ c.author = a
    BY <1>1, <1>2, <1>3, <1>4 DEF CallSet, Steps
  <2> HIDE DEF c
  <2>3. QED BY <1>2, <2>1, <2>2, MadeFacts DEF Shaped, Flying, IInv, Types
<1> HIDE DEF c
<1>8. CallTypes' /\ call'[p] = c /\ \A q \in Procs \ {p} : call'[q] = call[q]
  <2>1. calls' \in Nat
    BY <1>6 DEF IInv, Types, CallTypes
  <2>2. QED BY <1>5, <1>6, <1>7, <2>1, Moved DEF IInv, Types
<1>9. /\ lossy' \in [Branches -> SUBSET Flaws] /\ \A d \in Branches : lossy[d] \subseteq lossy'[d]
      /\ Overlapping(p, b) => "overlap" \in lossy'[b]
  BY <1>5, OverlapFacts DEF IInv
<1>10. ShadowTypes' /\ NodesIn(shadow'[a]) = {} /\ \A d \in Authors \ {a} : shadow'[d] = shadow[d]
  <2>1. \A q \in Procs \ {p} : call'[q] = call[q]
    BY <1>8
  <2>2. shadow' = [shadow EXCEPT ![a] = <<>>] /\ Made' = Made
    BY <1>5, <1>6
  <2>3. QED BY <1>4, <2>1, <2>2, Emptied
<1>11. \A d \in Branches : \/ heads'[d] = heads[d] /\ (heads[d] = Absent \/ HeadOps(shadow[a], d) = {})
                           \/ \E i \in HeadOps(shadow[a], d) :
                                heads'[d] = shadow[a][i].node /\ heads[d] # Absent
  BY <1>5, LandedFacts DEF IInv
<1>12. ASSUME NEW d \in Branches, NEW i \in HeadOps(shadow[a], d)
       PROVE  /\ shadow[a][i].node \in Made
              /\ Anc(shadow[a][i].node) \subseteq Kept \cup NodesIn(shadow[a])
              /\ shadow[a][i].by \in Procs /\ Landing(shadow[a][i].by, d)
              /\ call[shadow[a][i].by].node = shadow[a][i].node
  <2>1. i \in DOMAIN shadow[a] /\ shadow[a][i].head /\ shadow[a][i].branch = d
    BY DEF HeadOps
  <2>2. FromCall(shadow[a][i], a)
    BY <2>1 DEF IInv, Types, ShadowTypes
  <2>3. QED BY <2>1, <2>2, OpWhole DEF FromCall, Landing
<1>13. heads' \in [Branches -> Made \cup {None, Absent}]
  <2>1. heads' = [d \in Branches |-> heads'[d]]
    BY <1>5 DEF Landed
  <2>2. \A d \in Branches : heads'[d] \in Made \cup {None, Absent}
    BY <1>11, <1>12 DEF IInv, Types, RowTypes
  <2>3. QED BY <2>1, <2>2
<1>14. Types'
  <2>1. NodeTypes'
    BY <1>6 DEF IInv, Types, NodeTypes
  <2>2. RowTypes'
    BY <1>5, <1>6, <1>13, NodesInFacts DEF IInv, Types, RowTypes
  <2>3. HistoryTypes'
    <3>1. acked' \subseteq Branches \X Made
      BY <1>5 DEF IInv, Types, HistoryTypes
    <3>2. QED BY <1>5, <1>6, <1>9, <3>1 DEF IInv, Types, HistoryTypes
  <2>4. QED BY <1>8, <1>10, <2>1, <2>2, <2>3 DEF Types
<1>15. Mutex'
  BY <1>7, <1>8, MutexStays DEF IInv, InSection
<1>16. Popping'
  <2>1. StashKept'
    BY <1>5, <1>6 DEF IInv, Popping, StashKept
  <2>2. stashed' \in {stashed, "applied"}
    BY <1>5
  <2>3. n \in stored' \cup excused
    <3>1. n \in Anc(n)
      BY DEF IInv, Types, NodeTypes
    <3>2. Anc(n) \subseteq Kept \cup NodesIn(shadow[a])
      BY <1>1, <1>2, <1>4, <1>7 DEF IInv, Resolving, InFlight, Buffered, Unpushed, Flying, CommitKinds
    <3>3. QED BY <1>5, <3>1, <3>2 DEF Kept
  <2>4. call[p].kind = "pop" /\ stashed' = "kept" => n \in excused
    BY <1>5, <2>3
  <2>5. stash' = stash /\ excused' = excused
    BY <1>6
  <2>6. QED BY <1>7, <1>8, <2>1, <2>2, <2>4, <2>5 DEF IInv, Popping, Popped
<1>17. \A m \in Named' : m \in Named \/ \E d \in Branches : \E i \in HeadOps(shadow[a], d) :
                                                              m = shadow[a][i].node
  <2>1. \A d \in Branches : heads'[d] \in Named \/ \E i \in HeadOps(shadow[a], d) :
                                                     heads'[d] = shadow[a][i].node
    BY <1>11 DEF Named
  <2>2. QED BY <1>6, <2>1 DEF Named
<1>18. Whole'
  BY <1>6, <1>12, <1>17 DEF IInv, Resolving, Whole
<1>19. Planted'
  <2>1. ASSUME NEW m \in NodesIn(shadow[a])
        PROVE  \E q \in Procs : Flying(call[q]) /\ call[q].node = m
    <3>1. PICK i \in DOMAIN shadow[a] : m = shadow[a][i].node
      BY DEF NodesIn, Ops
    <3>2. FromCall(shadow[a][i], a) /\ shadow[a][i].by \in Procs
      BY OpWhole DEF IInv, Types, ShadowTypes
    <3>3. QED BY <3>1, <3>2 DEF FromCall, Flying
  <2>2. \A m \in Made : m \in stored' \/ (\E q \in Procs : Flying(call'[q]) /\ call'[q].node = m)
            => m \in stored \/ \E q \in Procs : Flying(call[q]) /\ call[q].node = m
    <3>1. Flying(call[p])
      BY <1>1 DEF Flying
    <3>2. QED BY <1>2, <1>5, <1>7, <1>8, <2>1, <3>1
  <2>3. QED BY <1>6, <2>2 DEF IInv, Resolving, Planted
<1>20. \A q \in Procs : InFlight(call[q])'
  <2>1. InFlight(call[p])'
    <3>1. Anc(n) \subseteq Kept \cup NodesIn(shadow[a])
      BY <1>1, <1>2, <1>4, <1>7 DEF IInv, Resolving, InFlight, Buffered, Unpushed, Flying, CommitKinds
    <3>2. ~Flying(c)
      BY <1>7 DEF Flying, CommitKinds
    <3>3. QED BY <1>6, <1>7, <1>8, <3>1, <3>2 DEF InFlight
  <2>2. ASSUME NEW q \in Procs \ {p} PROVE InFlight(call[q])'
    <3>1. InFlight(call[q]) /\ Shaped(call[q])
      BY DEF IInv, Resolving, Types, CallTypes
    <3>2. Flying(call[q]) => Kept \cup Buffered(call[q]) \subseteq Kept' \cup Buffered(call[q])'
      <4>1. CASE call[q].kind = "file"
        BY <1>6, <4>1 DEF Buffered
      <4>2. ASSUME call[q].kind # "file", Flying(call[q])
            PROVE  Kept \cup Buffered(call[q]) \subseteq Kept' \cup Buffered(call[q])'
        <5>1. call[q].author \in Authors
          BY <3>1, <4>2 DEF Shaped, Flying
        <5>2. Buffered(call[q])' = NodesIn(shadow'[call[q].author])
          <6>1. call'[q] = call[q]
            BY <1>8
          <6>2. QED BY <4>2, <6>1 DEF Buffered
        <5>3. Buffered(call[q]) = NodesIn(shadow[call[q].author])
          BY <4>2 DEF Buffered
        <5>4. QED BY <1>6, <1>10, <5>1, <5>2, <5>3
      <4>3. QED BY <4>1, <4>2
    <3>3. Kept \subseteq Kept'
      BY <1>6
    <3>4. QED BY <1>6, <1>8, <3>1, <3>2, <3>3 DEF InFlight, Unpushed
  <2>3. QED BY <2>1, <2>2
<1>21. \A q \in Procs : Secret(q)'
  <2>1. Secret(p)'
    BY <1>7, <1>8 DEF Secret
  <2>2. ASSUME NEW q \in Procs \ {p} PROVE Secret(q)'
    <3>1. ASSUME call[q].kind = "file", call[q].step = "read"
          PROVE  call[q].node # n /\ call[q].node \notin Named' \ Named
      <4>1. Secret(q)
        BY DEF IInv, Resolving
      <4>2. \A d \in Branches : \A i \in HeadOps(shadow[a], d) : call[q].node # shadow[a][i].node
        BY <1>12, <3>1, <4>1 DEF Secret, Landing
      <4>3. QED BY <1>2, <1>17, <3>1, <4>1, <4>2 DEF Secret
    <3>2. QED BY <1>6, <1>7, <1>8, <3>1, SecretStays
  <2>3. QED BY <2>1, <2>2
<1>22. \A q \in Procs : Marked(q)'
  BY <1>1, <1>6, <1>7, <1>8, MarkedStays
<1>23. ASSUME NEW d \in Branches PROVE Warmed(d)'
  <2>1. Warmed(d)
    BY DEF IInv
  <2>2. Landing(p, b) /\ ~Landing(p, d)' /\ \A q \in Procs \ {p} : Landing(q, d)' = Landing(q, d)
    BY <1>1, <1>3, <1>7, <1>8 DEF Landing
  <2>3. CASE d \in stale \/ lossy[d] \cap {"overlap", "torn"} # {}
    BY <1>6, <1>9, <2>3 DEF Warmed
  <2>4. ASSUME d = b, NEW q \in Procs \ {p}, Landing(q, b) PROVE Warmed(d)'
    <3>1. InSection(q) /\ InSection(p) /\ Busy(q) /\ call[q].branch = b
      BY <1>1, <2>4 DEF Landing, InSection, Busy
    <3>2. Family(q) # Family(p) \/ Family(q) = "none"
      BY <1>3, <3>1 DEF IInv, Mutex
    <3>3. Overlapping(p, b)
      BY <3>1, <3>2 DEF Overlapping
    <3>4. QED BY <1>9, <2>4, <3>3 DEF Warmed
  <2>5. ASSUME d = b, \A q \in Procs \ {p} : ~Landing(q, b),
               d \notin stale, lossy[d] \cap {"overlap", "torn"} = {}
        PROVE  Warmed(d)'
    <3>1. refCache[b] = n /\ Exists(b) /\ (heads[b] = n \/ Pending(p))
      BY <1>2, <2>1, <2>2, <2>5 DEF Warmed
    <3>2. Pending(p) => HeadOps(shadow[a], b) # {}
      BY <1>3, <1>4 DEF Pending, HeadOps, Op
    <3>3. heads'[b] = n
      <4>1. \A i \in HeadOps(shadow[a], b) : shadow[a][i].node = n
        BY <1>2, <1>12, <2>5
      <4>2. QED BY <1>11, <3>1, <3>2, <4>1 DEF Exists
    <3>4. QED BY <1>6, <2>2, <2>5, <3>1, <3>3 DEF Warmed
  <2>6. ASSUME d # b, NEW q \in Procs, NEW r \in Procs, q # r, Landing(q, d), Landing(r, d)
        PROVE  Warmed(d)'
    <3>1. q # p /\ r # p
      BY <1>3, <2>6 DEF Landing
    <3>2. QED BY <2>2, <2>6, <3>1 DEF Warmed
  <2>7. ASSUME d # b, NEW q \in Procs, Landing(q, d), \A r \in Procs \ {q} : ~Landing(r, d),
               refCache[d] = call[q].node, Exists(d), heads[d] = call[q].node \/ Pending(q)
        PROVE  Warmed(d)'
    <3>1. q # p /\ call'[q] = call[q] /\ Landing(q, d)'
      BY <1>3, <1>8, <2>2, <2>7 DEF Landing
    <3>2. \A i \in HeadOps(shadow[a], d) : shadow[a][i].node = call[q].node
      BY <1>12, <2>7
    <3>3. heads'[d] = call[q].node \/ (heads'[d] = heads[d] /\ HeadOps(shadow[a], d) = {})
      BY <1>11, <2>7, <3>2 DEF Exists
    <3>4. Exists(d)'
      <4>1. \A i \in HeadOps(shadow[a], d) : shadow[a][i].node # Absent
        BY <1>12, MadeFacts DEF IInv, Types
      <4>2. QED BY <1>11, <2>7, <4>1 DEF Exists
    <3>5. ASSUME HeadOps(shadow[a], d) = {}, Pending(q) PROVE Pending(q)'
      <4>1. call[q].author # a
        BY <2>7, <3>5 DEF Pending, HeadOps, Op, Landing
      <4>2. call[q].author \in Authors
        BY <2>7 DEF Landing, IInv, Types, CallTypes, Shaped
      <4>3. Op(q, TRUE)' = Op(q, TRUE)
        BY <3>1 DEF Op
      <4>4. QED BY <1>10, <3>1, <3>5, <4>1, <4>2, <4>3 DEF Pending
    <3>6. heads'[d] = call[q].node \/ Pending(q)'
      BY <2>7, <3>3, <3>5
    <3>7. QED BY <1>6, <2>7, <3>1, <3>4, <3>6 DEF Warmed
  <2>8. ASSUME d # b, \A q \in Procs : ~Landing(q, d), refCache[d] \in {None, heads[d]}
        PROVE  Warmed(d)'
    <3>1. HeadOps(shadow[a], d) = {}
      BY <1>12, <2>8
    <3>2. heads'[d] = heads[d]
      BY <1>11, <3>1
    <3>3. QED BY <1>6, <2>2, <2>8, <3>2 DEF Warmed
  <2>9. QED BY <2>1, <2>3, <2>4, <2>5, <2>6, <2>7, <2>8 DEF Warmed
<1>24. \A q \in Procs : Remembers(q)'
  <2>1. c.old = call[p].old
    BY <1>1 DEF c, CallSet
  <2>2. QED BY <1>6, <1>7, <1>8, <2>1, RemembersStay DEF Hidden
<1>25. QED BY <1>14, <1>15, <1>16, <1>18, <1>19, <1>20, <1>21, <1>22, <1>23, <1>24 DEF IInv, Resolving

(* The end of a call, or its next commit: nothing is in flight for it.      *)
LEMMA SettledKeeps ==
  ASSUME IInv, NEW p \in Procs, call[p].step \in {"log", "drop"},
         NEW c \in CallSet(Made), Shaped(c), c.step \in {"idle", "wait", "drop"},
         c.node \in {call[p].node, None}, c.step = "drop" => call[p].kind = "pop" /\ call[p].step = "log",
         call' = [call EXCEPT ![p] = c], c.old \in {call[p].old, None},
         UNCHANGED <<nodes, cell, stored, trees, heads, shadow, refCache, calls, acked, lossy,
                     excused, stale, raced>>,
         reflog' \subseteq reflog \cup ({call[p].node, call[p].old} \ {None}),
         reflog' # reflog => call[p].step = "log",
         stash' \in {stash, None}, stash' # stash => call[p].step = "drop",
         stashed' \in {stashed, "torn"}, Popping'
  PROVE  IInv'
<1>1. Made' = Made /\ LastNode' = LastNode /\ Kept' = Kept
      /\ \A m : Anc(m)' = Anc(m) /\ Hier(m)' = Hier(m)
  BY DEF Made, LastNode, Kept, Anc, Hier
<1>2. CallTypes' /\ call'[p] = c /\ \A q \in Procs \ {p} : call'[q] = call[q]
  <2>1. calls' \in Nat
    BY DEF IInv, Types, CallTypes
  <2>2. QED BY <1>1, <2>1, Moved DEF IInv, Types
<1>3. ~Flying(c) /\ c.step \notin {"land", "log", "sweep"} /\ call[p].step \notin {"idle", "land"}
  BY DEF Shaped, Flying
<1>4. reflog' \subseteq Made
  <2>1. call[p] \in CallSet(Made) /\ reflog \subseteq Made
    BY DEF IInv, Types, RowTypes, CallTypes
  <2>2. QED BY <2>1 DEF CallSet
<1>5. Types'
  <2>1. NodeTypes' /\ RowTypes' /\ HistoryTypes'
    BY <1>1, <1>4 DEF IInv, Types, NodeTypes, RowTypes, HistoryTypes
  <2>2. ShadowTypes'
    BY <1>1, <1>2, OpsStay DEF IInv, Types
  <2>3. QED BY <1>2, <2>1, <2>2 DEF Types
<1>6. Mutex'
  <2>1. ~InSection(p)'
    BY <1>2 DEF InSection
  <2>2. QED BY <1>2, <2>1, MutexStays DEF IInv
<1>7. call[p].old # None =>
        /\ Anc(call[p].old) \subseteq Kept
        /\ \A q \in Procs : Hidden(call[q]) => call[q].node # call[p].old
  BY DEF IInv, Resolving, Remembers
<1>8. Named' \subseteq Named \cup {None, call[p].node, call[p].old}
      /\ (call[p].node \in Named' \ Named =>
            call[p].step = "log" \/ call[p].node \in {None, call[p].old})
  BY DEF Named
<1>9. Whole'
  <2>1. call[p].step = "log" => Anc(call[p].node) \subseteq Kept
    BY DEF IInv, Resolving, InFlight
  <2>2. \A m \in Named : Anc(m) \subseteq Kept
    BY DEF IInv, Resolving, Whole
  <2>3. Anc(None) = {}
    BY NoNode DEF IInv, Types
  <2>4. QED BY <1>1, <1>7, <1>8, <2>1, <2>2, <2>3 DEF Whole
<1>10. Planted'
  BY <1>1, <1>2, <1>3 DEF IInv, Resolving, Planted
<1>11. \A q \in Procs : InFlight(call[q])'
  <2>1. InFlight(call[p])'
    BY <1>2, <1>3 DEF InFlight
  <2>2. ASSUME NEW q \in Procs \ {p} PROVE InFlight(call[q])'
    <3>1. InFlight(call[q])
      BY DEF IInv, Resolving
    <3>2. Buffered(call[q])' = Buffered(call[q])
      <4>1. shadow' = shadow /\ call'[q] = call[q]
        BY <1>2
      <4>2. QED BY <4>1 DEF Buffered
    <3>3. QED BY <1>1, <1>2, <3>1, <3>2 DEF InFlight, Unpushed
  <2>3. QED BY <2>1, <2>2
<1>12. \A q \in Procs : Secret(q)'
  <2>1. Secret(p)'
    BY <1>2 DEF Secret
  <2>2. ASSUME NEW q \in Procs \ {p} PROVE Secret(q)'
    <3>1. ASSUME call[q].kind = "file", call[q].step = "read"
          PROVE  call[q].node # call[p].node /\ call[q].node # None
      BY <3>1 DEF IInv, Resolving, Secret, Types, CallTypes, Shaped, Flying
    <3>2. ASSUME call[q].kind = "file", call[q].step = "read"
          PROVE  call[q].node # call[p].old
      BY <1>7, <3>1, <3>2 DEF Hidden
    <3>3. ASSUME call[q].kind = "file", call[q].step = "read"
          PROVE  /\ call'[p].node # call[q].node /\ call[q].node \notin Named' \ Named
                 /\ \A d \in Branches : refCache'[d] \in {refCache[d], heads[d], None, call[p].node}
      BY <1>2, <1>8, <3>1, <3>2, <3>3
    <3>4. QED BY <1>2, <3>3, SecretStays
  <2>3. QED BY <2>1, <2>2
<1>13. \A q \in Procs : Marked(q)'
  BY <1>2, <1>3, MarkedStays
<1>14. \A d \in Branches : Warmed(d)'
  <2>1. \A q \in Procs : call[q].step = "land" /\ Pending(q) => Pending(q)'
    BY <1>2, <1>3 DEF Pending, Op
  <2>2. QED BY <1>2, <1>3, <2>1, WarmStays
<1>15. \A q \in Procs : Remembers(q)'
  BY <1>1, <1>2, <1>3, RemembersStay DEF Hidden, Flying
<1>16. QED BY <1>5, <1>6, <1>15, <1>9, <1>10, <1>11, <1>12, <1>13, <1>14 DEF IInv, Resolving

LEMMA LogKeeps ==
  ASSUME IInv, NEW p \in Procs, Log(p)
  PROVE  IInv'
<1> DEFINE rest == call[p].todo \ {Oldest(call[p].todo)}
<1> DEFINE tree == TreeOf(Oldest(rest))
<1>1. call[p] \in CallSet(Made) /\ Shaped(call[p]) /\ call[p].step = "log"
  BY CallFacts DEF IInv, Types, Log
<1>2. /\ UNCHANGED <<nodes, cell, stored, trees, heads, shadow, refCache, calls, acked, lossy,
                     excused, stale, raced, stashed, stash>>
      /\ reflog' \subseteq reflog \cup ({call[p].node, call[p].old} \ {None})
  <2>1. call[p].node # None
    BY <1>1 DEF Shaped
  <2>2. QED BY <2>1 DEF Log, caches, history
<1>3. \/ call[p].kind = "pop" /\ call' = [call EXCEPT ![p] = [call[p] EXCEPT !.step = "drop"]]
      \/ call' = [call EXCEPT ![p] = [call[p] EXCEPT !.todo = rest, !.step = "wait", !.tree = tree]]
      \/ call' = [call EXCEPT ![p] = Idle]
  BY DEF Log, Goto
<1>4. rest \in SUBSET Made /\ tree \in TreeSet(Made)
  BY <1>1, TreeOfType DEF CallSet, IInv
<1> HIDE DEF rest, tree
<1>5. ASSUME NEW c \in CallSet(Made), c.kind = call[p].kind, c.node = call[p].node,
             c.author = call[p].author, c.old = call[p].old, c.step \in {"wait", "drop"},
             c.step = "drop" => call[p].kind = "pop", call' = [call EXCEPT ![p] = c]
      PROVE  IInv'
  <2>1. Shaped(c)
    BY <1>1, <1>5 DEF Shaped, Flying, CommitKinds
  <2>2. Popping'
    <3>1. call'[p] = c /\ \A q \in Procs \ {p} : call'[q] = call[q]
      BY <1>5 DEF IInv, Types, CallTypes
    <3>2. QED BY <1>1, <1>2, <1>5, <3>1, PoppingStays DEF Popped
  <2>3. QED BY <1>1, <1>2, <1>5, <2>1, <2>2, SettledKeeps
<1>6. CASE call[p].kind = "pop" /\ call' = [call EXCEPT ![p] = [call[p] EXCEPT !.step = "drop"]]
  <2> DEFINE c == [call[p] EXCEPT !.step = "drop"]
  <2>1. c \in CallSet(Made) /\ c.kind = call[p].kind /\ c.node = call[p].node
        /\ c.author = call[p].author /\ c.old = call[p].old /\ c.step = "drop"
    BY <1>1 DEF CallSet, Steps
  <2>2. call' = [call EXCEPT ![p] = c]
    BY <1>6
  <2> HIDE DEF c
  <2>3. QED BY <1>5, <1>6, <2>1, <2>2
<1>7. CASE call' = [call EXCEPT ![p] = [call[p] EXCEPT !.todo = rest, !.step = "wait", !.tree = tree]]
  <2> DEFINE c == [call[p] EXCEPT !.todo = rest, !.step = "wait", !.tree = tree]
  <2>1. c \in CallSet(Made) /\ c.kind = call[p].kind /\ c.node = call[p].node
        /\ c.author = call[p].author /\ c.old = call[p].old /\ c.step = "wait"
    BY <1>1, <1>4 DEF CallSet, Steps
  <2>2. call' = [call EXCEPT ![p] = c]
    BY <1>7
  <2> HIDE DEF c
  <2>3. QED BY <1>5, <2>1, <2>2
<1>8. CASE call' = [call EXCEPT ![p] = Idle]
  <2>1. Popping'
    <3>1. call'[p] = Idle /\ \A q \in Procs \ {p} : call'[q] = call[q]
      BY <1>8 DEF IInv, Types, CallTypes
    <3>2. QED BY <1>2, <3>1, IdleFacts, PoppingStays DEF Popped, IInv
  <2>2. QED BY <1>1, <1>2, <1>8, <2>1, IdleFacts, SettledKeeps DEF IInv
<1>9. QED BY <1>3, <1>6, <1>7, <1>8

LEMMA DropStashKeeps ==
  ASSUME IInv, NEW p \in Procs, DropStash(p)
  PROVE  IInv'
<1>1. /\ UNCHANGED <<nodes, cell, stored, trees, heads, shadow, refCache, calls, acked, lossy,
                     excused, stale, raced, reflog>>
      /\ stash' = None /\ call' = [call EXCEPT ![p] = Idle] /\ call[p].step = "drop"
      /\ stashed' = IF stashed = "kept" /\ call[p].node \in excused THEN "torn" ELSE stashed
  BY DEF DropStash, caches
<1>2. Popped(call[p])
  BY <1>1 DEF Popped, IInv, Types, CallTypes, Shaped
<1>3. stashed' # "kept"
  BY <1>1, <1>2 DEF IInv, Popping
<1>4. Popping'
  <2>1. call'[p] = Idle /\ \A q \in Procs \ {p} : call'[q] = call[q]
    BY <1>1 DEF IInv, Types, CallTypes
  <2>2. \A q \in Procs : call'[q].kind = "pop" => stashed' # "no"
    BY <1>1, <2>1, IdleFacts DEF IInv, Popping
  <2>3. stash' = None
    BY <1>1
  <2>4. QED BY <1>3, <2>2, <2>3 DEF Popping, StashKept
<1>5. QED BY <1>1, <1>4, IdleFacts, SettledKeeps DEF IInv

LEMMA FailKeeps ==
  ASSUME IInv, NEW p \in Procs, Fail(p)
  PROVE  IInv'
<1>1. call[p] \in CallSet(Made) /\ Shaped(call[p]) /\ call[p].step \in {"wait", "read", "node", "land"}
  BY CallFacts DEF IInv, Types, Fail
<1>2. PICK a \in Authors : a = call[p].author
  BY <1>1 DEF Shaped, Fail
<1>3. PICK b \in Branches : b = call[p].branch
  BY <1>1 DEF CallSet
<1>4. /\ shadow' = [shadow EXCEPT ![a] = <<>>]
      /\ lossy' = [d \in Branches |-> lossy[d]
           \cup (IF \E o \in {x \in Ops(shadow[a]) : x.by # p} : o.branch = d THEN {"torn"} ELSE {})
           \cup IF d = b /\ call[p].step = "land" /\ heads[d] = call[p].node /\ Overlapping(p, d)
                THEN {"overlap"} ELSE {}]
      /\ excused' = excused \cup IF Shared(p) THEN NodesIn(shadow[a]) ELSE {}
      /\ stale' = IF call[p].step = "land" THEN stale \cup {b} ELSE stale
      /\ call' = [call EXCEPT ![p] = Idle]
  BY <1>2, <1>3 DEF Fail
<1>5. /\ UNCHANGED <<nodes, cell, refCache, stored, trees, heads, stash, reflog, calls, acked,
                     raced, stashed>>
      /\ Made' = Made /\ LastNode' = LastNode /\ Named' = Named /\ Kept \subseteq Kept'
      /\ \A m : Anc(m)' = Anc(m) /\ Hier(m)' = Hier(m)
  BY <1>4 DEF Fail, caches, Made, LastNode, Kept, Named, Anc, Hier
<1>6. CallTypes' /\ call'[p] = Idle /\ \A q \in Procs \ {p} : call'[q] = call[q]
  <2>1. calls' \in Nat
    BY <1>5 DEF IInv, Types, CallTypes
  <2>2. QED BY <1>4, <1>5, <2>1, IdleFacts, Moved DEF IInv, Types
<1>7. Idle.step = "idle" /\ Idle.node = None /\ ~Flying(Idle)
  BY IdleFacts DEF IInv
<1>8. ShadowTypes' /\ NodesIn(shadow'[a]) = {} /\ \A d \in Authors \ {a} : shadow'[d] = shadow[d]
  BY <1>2, <1>4, <1>5, <1>6, Emptied
<1>9. Types'
  <2>1. NodeTypes' /\ RowTypes'
    BY <1>5 DEF IInv, Types, NodeTypes, RowTypes
  <2>2. excused' \subseteq Made
    BY <1>4, NodesInFacts DEF IInv, Types, HistoryTypes
  <2>3. lossy' \in [Branches -> SUBSET Flaws]
    BY <1>4 DEF IInv, Types, HistoryTypes, Flaws
  <2>4. HistoryTypes'
    BY <1>4, <1>5, <2>2, <2>3 DEF IInv, Types, HistoryTypes
  <2>5. QED BY <1>6, <1>8, <2>1, <2>4 DEF Types
<1>10. Mutex'
  BY <1>6, <1>7, MutexStays DEF IInv, InSection
<1>11. Popping' /\ \A q \in Procs : Remembers(q)'
  <2>1. Kept \subseteq Kept' /\ excused \subseteq excused' /\ UNCHANGED <<stash, stashed>>
    BY <1>4, <1>5
  <2>2. QED BY <1>5, <1>7, <1>6, <2>1, StepRests DEF Hidden
<1>12. Whole'
  BY <1>5 DEF IInv, Resolving, Whole
<1>13. Planted'
  <2>1. trees' \cup excused' = trees \cup excused' /\ excused \subseteq excused'
    BY <1>4, <1>5
  <2>2. QED BY <1>5, <1>6, <1>7, <2>1 DEF IInv, Resolving, Planted
<1>14. \A q \in Procs : InFlight(call[q])'
  <2>1. InFlight(call[p])'
    BY <1>6, <1>7 DEF InFlight
  <2>2. ASSUME NEW q \in Procs \ {p} PROVE InFlight(call[q])'
    <3>1. InFlight(call[q]) /\ Shaped(call[q])
      BY DEF IInv, Resolving, Types, CallTypes
    <3>2. Flying(call[q]) => Kept \cup Buffered(call[q]) \subseteq Kept' \cup Buffered(call[q])'
      <4>1. CASE call[q].kind = "file"
        BY <1>5, <4>1 DEF Buffered
      <4>2. ASSUME call[q].kind # "file", Flying(call[q])
            PROVE  Kept \cup Buffered(call[q]) \subseteq Kept' \cup Buffered(call[q])'
        <5>1. call[q].author \in Authors /\ call[q].kind \in CommitKinds /\ InSection(q)
          BY <3>1, <4>2 DEF Shaped, Flying, InSection
        <5>2. Buffered(call[q])' = NodesIn(shadow'[call[q].author])
          <6>1. call'[q] = call[q]
            BY <1>6
          <6>2. QED BY <4>2, <6>1 DEF Buffered
        <5>3. Buffered(call[q]) = NodesIn(shadow[call[q].author])
          BY <4>2 DEF Buffered
        <5>4. CASE call[q].author = a
          <6>1. Shared(p)
            BY <1>2, <5>1, <5>4 DEF Shared
          <6>2. NodesIn(shadow[a]) \subseteq Kept'
            BY <1>4, <6>1 DEF Kept
          <6>3. QED BY <1>5, <5>3, <5>4, <6>2
        <5>5. CASE call[q].author # a
          BY <1>5, <1>8, <5>1, <5>2, <5>3, <5>5
        <5>6. QED BY <5>4, <5>5
      <4>3. QED BY <4>1, <4>2
    <3>3. QED BY <1>5, <1>6, <3>1, <3>2 DEF InFlight, Unpushed
  <2>3. QED BY <2>1, <2>2
<1>15. \A q \in Procs : Secret(q)'
  <2>1. Secret(p)'
    BY <1>6, <1>7 DEF Secret
  <2>2. ASSUME NEW q \in Procs \ {p} PROVE Secret(q)'
    <3>1. ASSUME call[q].kind = "file", call[q].step = "read"
          PROVE  call[q].node # None
      BY <3>1 DEF IInv, Types, CallTypes, Shaped, Flying
    <3>2. QED BY <1>5, <1>6, <1>7, <3>1, SecretStays
  <2>3. QED BY <2>1, <2>2
<1>16. \A q \in Procs : Marked(q)'
  BY <1>1, <1>5, <1>6, <1>7, MarkedStays
<1>17. ASSUME NEW d \in Branches PROVE Warmed(d)'
  <2>1. CASE Landing(p, d)
    BY <1>3, <1>4, <2>1 DEF Warmed, Landing
  <2>2. ASSUME NEW q \in Procs \ {p}, Landing(q, d), Pending(q), call[q].author = a
        PROVE  Warmed(d)'
    <3>1. \E o \in {x \in Ops(shadow[a]) : x.by # p} : o.branch = d
      BY <2>2 DEF Pending, Op, Ops, Landing
    <3>2. "torn" \in lossy'[d]
      BY <1>4, <3>1
    <3>3. QED BY <3>2 DEF Warmed
  <2>3. ASSUME ~Landing(p, d),
               \A q \in Procs \ {p} : Landing(q, d) /\ Pending(q) => call[q].author # a
        PROVE  Warmed(d)'
    <3>1. ASSUME NEW q \in Procs, Landing(q, d), Pending(q) PROVE Pending(q)'
      <4>1. q # p /\ call'[q] = call[q] /\ call[q].author # a
        BY <1>6, <2>3, <3>1
      <4>2. call[q].author \in Authors
        BY <3>1 DEF Landing, IInv, Types, CallTypes, Shaped
      <4>3. Op(q, TRUE)' = Op(q, TRUE)
        BY <4>1 DEF Op
      <4>4. QED BY <1>8, <3>1, <4>1, <4>2, <4>3 DEF Pending
    <3>2. ~Landing(p, d)'
      BY <1>6, <1>7 DEF Landing
    <3>3. lossy[d] \subseteq lossy'[d] /\ (d \in stale => d \in stale')
      BY <1>4
    <3>4. QED BY <1>5, <1>6, <2>3, <3>1, <3>2, <3>3, WarmStaysAt
  <2>4. QED BY <2>1, <2>2, <2>3
<1>18. QED BY <1>9, <1>10, <1>11, <1>12, <1>13, <1>14, <1>15, <1>16, <1>17 DEF IInv, Resolving
-----------------------------------------------------------------------------
(* Operations that move refs directly                                       *)

(* What the refs and the caches name already, and no file node is secret.   *)
Known == Named \cup {refCache[b] : b \in Branches} \cup {None, Absent}

(* An idle caller moves refs, and may add a flat node.                      *)
LEMMA RefsMoved ==
  ASSUME IInv, NEW p \in Procs, call[p].step = "idle", raced \in BOOLEAN, raced => raced',
         raced' \/ \A q \in Procs : call[q].kind # "gc",
         call' = call, calls' \in Nat, shadow' = shadow, trees' = trees,
         NodeTypes', RowTypes', HistoryTypes', Made \subseteq Made',
         \A m \in Made \cup {None, Absent} : Anc(m)' = Anc(m) /\ Hier(m)' = Hier(m),
         \A m \in Made' \ Made : ~Hier(m)',
         stored \subseteq stored', stored' \subseteq stored \cup (Made' \ Made),
         excused \subseteq excused',
         Named' \subseteq Known \cup (Made' \ Made),
         \A d \in Branches : refCache'[d] \in Known \cup (Made' \ Made),
         \A m \in Named' : Anc(m)' \subseteq Kept',
         Popping', \A d \in Branches : Warmed(d)'
  PROVE  IInv'
<1>1. CallTypes'
  <2>1. TreeSet(Made) \subseteq TreeSet(Made')
    BY DEF TreeSet
  <2>2. CallSet(Made) \subseteq CallSet(Made')
    BY <2>1 DEF CallSet
  <2>3. call \in [Procs -> CallSet(Made')] /\ \A q \in Procs : Shaped(call[q])
    BY <2>2 DEF IInv, Types, CallTypes
  <2>4. \A q \in Procs : Shaped(call[q])'
    BY <2>3 DEF Shaped, Flying
  <2>5. QED BY <2>3, <2>4 DEF CallTypes
<1>2. ShadowTypes'
  BY OpsStay DEF IInv, Types
<1>3. Types'
  BY <1>1, <1>2 DEF Types
<1>4. Mutex'
  BY DEF IInv, Mutex, InSection, Family
<1>5. Whole'
  BY DEF Whole
<1>6. Planted'
  <2>1. ASSUME NEW m \in Made', Hier(m)',
               m \in stored' \/ \E q \in Procs : Flying(call'[q]) /\ call'[q].node = m
        PROVE  m \in trees' \cup excused'
    <3>1. m \in Made /\ Hier(m)
      BY <2>1
    <3>2. m \in stored \/ \E q \in Procs : Flying(call[q]) /\ call[q].node = m
      BY <2>1, <3>1 DEF Flying
    <3>3. QED BY <3>1, <3>2 DEF IInv, Resolving, Planted
  <2>2. QED BY <2>1 DEF Planted
<1>7. \A q \in Procs : InFlight(call[q])'
  <2>1. ASSUME NEW q \in Procs PROVE InFlight(call[q])'
    <3>1. InFlight(call[q]) /\ Kept \subseteq Kept'
      BY DEF IInv, Resolving, Kept
    <3>2. call[q].node \in Made \cup {None}
      BY DEF IInv, Types, CallTypes, CallSet
    <3>3. Buffered(call[q])' = Buffered(call[q]) /\ Anc(call[q].node)' = Anc(call[q].node)
      BY <3>2 DEF Buffered
    <3>4. QED BY <3>1, <3>3 DEF InFlight, Flying, Unpushed
  <2>2. QED BY <2>1
<1>8. \A q \in Procs : Secret(q)'
  <2>1. ASSUME NEW q \in Procs, call[q].kind = "file", call[q].step = "read"
        PROVE  call[q].node \notin Known \cup (Made' \ Made)
    <3>1. call[q].node \in Made
      BY <2>1 DEF IInv, Types, CallTypes, CallSet, Shaped, Flying
    <3>2. Secret(q)
      BY DEF IInv, Resolving
    <3>3. QED BY <2>1, <3>1, <3>2, MadeFacts DEF Secret, Known, IInv, Types
  <2>2. ASSUME NEW q \in Procs PROVE Secret(q)'
    <3>1. Secret(q)
      BY DEF IInv, Resolving
    <3>2. QED BY <2>1, <3>1 DEF Secret
  <2>3. QED BY <2>2
<1>9. \A q \in Procs : Marked(q)'
  <2>1. ASSUME NEW q \in Procs, call[q].step = "sweep" PROVE raced'
    BY <2>1 DEF IInv, Types, CallTypes, Shaped
  <2>2. QED BY <2>1 DEF Marked
<1>10. \A q \in Procs : Remembers(q)'
  <2>1. Kept \subseteq Kept'
    BY DEF Kept
  <2>2. ASSUME NEW q \in Procs PROVE Remembers(q)'
    <3>1. Remembers(q) /\ call[q].old \in Made \cup {None}
      BY DEF IInv, Resolving, Types, CallTypes, CallSet
    <3>2. QED BY <2>1, <3>1 DEF Remembers, Hidden
  <2>3. QED BY <2>2
<1>11. QED BY <1>3, <1>4, <1>5, <1>6, <1>7, <1>8, <1>9, <1>10 DEF IInv, Resolving

(* The branch itself is written over: who is landing on it has overlapped.  *)
LEMMA WarmMoved ==
  ASSUME IInv, NEW p \in Procs, call[p].step = "idle", call' = call, shadow' = shadow,
         NEW b \in Branches, (IF Overlapping(p, b) THEN {"overlap"} ELSE {}) \subseteq lossy'[b],
         b \in stale' \/ refCache'[b] \in {None, heads'[b]}
  PROVE  Warmed(b)'
<1>1. Family(p) = "none"
  <2>1. call[p].kind = "none"
    BY IdleFacts DEF IInv, Types, CallTypes, Shaped
  <2>2. QED BY <2>1 DEF Family, CommitKinds
<1>2. ASSUME NEW q \in Procs, Landing(q, b) PROVE Overlapping(p, b)
  BY <1>1, <1>2 DEF Landing, Overlapping, InSection, Busy
<1>3. CASE \E q \in Procs : Landing(q, b)
  BY <1>2, <1>3 DEF Warmed
<1>4. CASE \A q \in Procs : ~Landing(q, b)
  <2>1. \A q \in Procs : ~Landing(q, b)'
    BY <1>4 DEF Landing
  <2>2. QED BY <2>1 DEF Warmed
<1>5. QED BY <1>3, <1>4

(* Every other branch keeps its head, and at most its cache is filled.      *)
LEMMA WarmElsewhere ==
  ASSUME IInv, NEW p \in Procs, call[p].step = "idle", call' = call, shadow' = shadow,
         NEW b \in Branches, heads'[b] = heads[b], b \in stale => b \in stale',
         lossy'[b] = lossy[b], refCache'[b] \in {refCache[b], Resolve(b)}
  PROVE  Warmed(b)'
<1>1. ~Landing(p, b) /\ ~Landing(p, b)'
  BY DEF Landing
<1>2. \A q \in Procs : Landing(q, b) /\ Pending(q) => Pending(q)'
  BY DEF Pending, Op
<1>3. QED BY <1>1, <1>2, WarmStaysAt

LEMMA PoppingRests ==
  ASSUME IInv, call' = call, stash' = stash, stashed' = stashed, excused \subseteq excused'
  PROVE  Popping'
BY PoppingStays

(* What a ref or a cache leads to is known.                                 *)
LEMMA ResolveKnown ==
  ASSUME Types, NEW b \in Branches
  PROVE  Resolve(b) \in Known
BY ResolveFacts DEF Known, Named

LEMMA ResetHardKeeps ==
  ASSUME IInv, NEW p \in Procs, Starts(p, "reset"), NEW b \in Branches, NEW to \in Branches,
         NEW m \in Made, NEW n \in Made, m = Resolve(b), n = Resolve(to),
         heads' = SetHead(heads, b, n), refCache' = [refCache EXCEPT ![to] = n, ![b] = n],
         reflog' = reflog \cup {m, n}, UNCHANGED <<nodes, stored, cell>>,
         Anew(p, b, lossy[to]), stale' = IF Exists(b) THEN stale ELSE stale \cup {b},
         excused' = excused \cup Ghosts(m) \cup Ghosts(n),
         UNCHANGED <<trees, stash, shadow, call, stashed>>
  PROVE  IInv'
<1>1. /\ call[p].step = "idle" /\ calls' \in Nat /\ raced \in BOOLEAN /\ raced' \in BOOLEAN
      /\ (raced => raced') /\ (raced' \/ \A q \in Procs : call[q].kind # "gc")
  BY BeginFacts DEF IInv, Types, HistoryTypes
<1>2. Made' = Made /\ LastNode' = LastNode
      /\ \A x : Anc(x)' = Anc(x) /\ Hier(x)' = Hier(x)
  BY DEF Made, LastNode, Anc, Hier
<1>3. NodeTypes'
  BY <1>2 DEF IInv, Types, NodeTypes
<1>4. Anc(m) \subseteq Made /\ Anc(n) \subseteq Made
  BY NodeFacts DEF IInv, Types
<1>5. heads' \in [Branches -> Made \cup {None, Absent}]
      /\ \A d \in Branches : heads'[d] \in {heads[d], n}
  BY DEF SetHead, IInv, Types, RowTypes
<1>6. refCache' \in [Branches -> Made \cup {None}]
      /\ \A d \in Branches : refCache'[d] \in {refCache[d], n}
  BY DEF IInv, Types, RowTypes
<1>7. RowTypes'
  BY <1>2, <1>5, <1>6 DEF IInv, Types, RowTypes
<1>8. HistoryTypes'
  <2>1. excused' \subseteq Made
    BY <1>4 DEF Ghosts, IInv, Types, HistoryTypes
  <2>2. lossy' \in [Branches -> SUBSET Flaws] /\ acked' \subseteq acked
    BY DEF Anew, Flaws, IInv, Types, HistoryTypes
  <2>3. stale' \subseteq Branches
    BY DEF IInv, Types, HistoryTypes
  <2>4. QED BY <1>1, <1>2, <2>1, <2>2, <2>3 DEF IInv, Types, HistoryTypes
<1>9. Named' \subseteq Named \cup {m, n} /\ m \in Known /\ n \in Known
  BY <1>5, ResolveKnown DEF Named, IInv
<1>10. Anc(m) \subseteq Kept' /\ Anc(n) \subseteq Kept' /\ Kept \subseteq Kept'
  BY DEF Ghosts, Kept
<1>11. \A x \in Named' : Anc(x)' \subseteq Kept'
  <2>1. \A x \in Named : Anc(x) \subseteq Kept
    BY DEF IInv, Resolving, Whole
  <2>2. QED BY <1>2, <1>9, <1>10, <2>1
<1>12. \A d \in Branches : Warmed(d)'
  <2>1. ASSUME NEW d \in Branches, d # b PROVE Warmed(d)'
    <3>1. heads'[d] = heads[d] /\ lossy'[d] = lossy[d] /\ (d \in stale => d \in stale')
      BY <2>1 DEF SetHead, Anew, IInv, Types, RowTypes, HistoryTypes
    <3>2. refCache'[d] \in {refCache[d], Resolve(d)}
      BY <2>1 DEF IInv, Types, RowTypes
    <3>3. QED BY <1>1, <3>1, <3>2, WarmElsewhere
  <2>2. Warmed(b)'
    <3>1. (IF Overlapping(p, b) THEN {"overlap"} ELSE {}) \subseteq lossy'[b]
      BY DEF Anew, IInv, Types, HistoryTypes
    <3>2. b \in stale' \/ refCache'[b] \in {None, heads'[b]}
      BY DEF Exists, SetHead, IInv, Types, RowTypes
    <3>3. QED BY <1>1, <3>1, <3>2, WarmMoved
  <2>3. QED BY <2>1, <2>2
<1>13. Popping'
  BY PoppingRests
<1>14. \A d \in Branches : refCache'[d] \in Known \cup (Made' \ Made)
  BY <1>6, <1>9 DEF Known
<1>15. Named' \subseteq Known \cup (Made' \ Made)
  BY <1>9 DEF Known
<1>16. stored \subseteq stored' /\ stored' \subseteq stored \cup (Made' \ Made) /\ excused \subseteq excused'
  OBVIOUS
<1>17. QED BY <1>1, <1>2, <1>3, <1>7, <1>8, <1>11, <1>12, <1>13, <1>14, <1>15, <1>16, RefsMoved

LEMMA ResetSoftKeeps ==
  ASSUME IInv, NEW p \in Procs, Starts(p, "reset"), NEW b \in Branches, NEW to \in Branches,
         NEW m \in Made, NEW n \in Made, m = Resolve(b), n = Resolve(to), LastNode < MaxNodes,
         NEW d \in Nat, d = LastNode + 1,
         nodes' = Append(nodes, [anc |-> Anc(m) \cup {d}, hier |-> FALSE, has |-> Shown(n)]),
         cell' = Append(cell, d), stored' = stored \cup {d}, heads' = SetHead(heads, b, d),
         refCache' = [refCache EXCEPT ![to] = n, ![b] = d], reflog' = reflog \cup {m, d},
         Anew(p, b, lossy[to]), stale' = IF Exists(b) THEN stale ELSE stale \cup {b},
         excused' = excused \cup Ghosts(m) \cup Ghosts(n),
         UNCHANGED <<trees, stash, shadow, call, stashed>>
  PROVE  IInv'
<1> DEFINE r == [anc |-> Anc(m) \cup {d}, hier |-> FALSE, has |-> Shown(n)]
<1>1. /\ call[p].step = "idle" /\ calls' \in Nat /\ raced \in BOOLEAN /\ raced' \in BOOLEAN
      /\ (raced => raced') /\ (raced' \/ \A q \in Procs : call[q].kind # "gc")
  BY BeginFacts DEF IInv, Types, HistoryTypes
<1>2. Anc(m) \subseteq Made /\ Anc(n) \subseteq Made /\ Shown(n) \subseteq Made
  BY NodeFacts DEF IInv, Types, Shown
<1>3. r \in NodeSet(Made \cup {d}) /\ d \in r.anc /\ ~r.hier /\ r.anc = Anc(m) \cup {d}
  BY <1>2 DEF NodeSet
<1>4. nodes' = Append(nodes, r)
  OBVIOUS
<1> HIDE DEF r
<1>5. /\ LastNode' = d /\ d \notin Made /\ Made' = Made \cup {d} /\ Made' = 1 .. d
      /\ \A x \in Made \cup {None, Absent} : Anc(x)' = Anc(x) /\ Hier(x)' = Hier(x)
      /\ Anc(d)' = Anc(m) \cup {d} /\ ~Hier(d)'
      /\ nodes' \in Seq(NodeSet(Made')) /\ LastNode' <= MaxNodes /\ 1 <= LastNode'
      /\ \A x \in Made' : x \in Anc(x)'
  BY <1>3, <1>4, Appended DEF IInv, Types
<1>6. NodeTypes'
  <2>1. cell \in Seq(Made') /\ Len(cell) = LastNode /\ LastNode \in Nat
    BY <1>5, MadeFacts DEF IInv, Types, NodeTypes
  <2>2. cell' \in Seq(Made') /\ Len(cell') = LastNode'
    BY <1>5, <2>1
  <2>3. QED BY <1>5, <2>2 DEF NodeTypes
<1>7. heads' \in [Branches -> Made' \cup {None, Absent}]
      /\ \A x \in Branches : heads'[x] \in {heads[x], d}
  BY <1>5 DEF SetHead, IInv, Types, RowTypes
<1>8. refCache' \in [Branches -> Made' \cup {None}]
      /\ \A x \in Branches : refCache'[x] \in {refCache[x], n, d}
  BY <1>5 DEF IInv, Types, RowTypes
<1>9. RowTypes'
  BY <1>5, <1>7, <1>8 DEF IInv, Types, RowTypes
<1>10. HistoryTypes'
  <2>1. excused' \subseteq Made'
    BY <1>2, <1>5 DEF Ghosts, IInv, Types, HistoryTypes
  <2>2. lossy' \in [Branches -> SUBSET Flaws] /\ acked' \subseteq Branches \X Made'
    BY <1>5 DEF Anew, Flaws, IInv, Types, HistoryTypes
  <2>3. stale' \subseteq Branches
    BY DEF IInv, Types, HistoryTypes
  <2>4. QED BY <1>1, <2>1, <2>2, <2>3 DEF IInv, Types, HistoryTypes
<1>11. Named' \subseteq Named \cup {m, d} /\ m \in Known /\ n \in Known
  BY <1>7, ResolveKnown DEF Named, IInv
<1>12. Anc(m) \subseteq Kept' /\ d \in Kept' /\ Kept \subseteq Kept'
  BY DEF Ghosts, Kept
<1>13. \A x \in Named' : Anc(x)' \subseteq Kept'
  <2>1. \A x \in Named : Anc(x) \subseteq Kept /\ Anc(x)' = Anc(x)
    BY <1>5, NamedMade DEF IInv, Resolving, Whole
  <2>2. Anc(m)' \subseteq Kept' /\ Anc(d)' \subseteq Kept'
    BY <1>5, <1>12
  <2>3. QED BY <1>11, <1>12, <2>1, <2>2
<1>14. \A x \in Branches : Warmed(x)'
  <2>1. ASSUME NEW x \in Branches, x # b PROVE Warmed(x)'
    <3>1. heads'[x] = heads[x] /\ lossy'[x] = lossy[x] /\ (x \in stale => x \in stale')
      BY <2>1 DEF SetHead, Anew, IInv, Types, RowTypes, HistoryTypes
    <3>2. refCache'[x] \in {refCache[x], Resolve(x)}
      BY <2>1 DEF IInv, Types, RowTypes
    <3>3. QED BY <1>1, <3>1, <3>2, WarmElsewhere
  <2>2. Warmed(b)'
    <3>1. (IF Overlapping(p, b) THEN {"overlap"} ELSE {}) \subseteq lossy'[b]
      BY DEF Anew, IInv, Types, HistoryTypes
    <3>2. b \in stale' \/ refCache'[b] \in {None, heads'[b]}
      BY DEF Exists, SetHead, IInv, Types, RowTypes
    <3>3. QED BY <1>1, <3>1, <3>2, WarmMoved
  <2>3. QED BY <2>1, <2>2
<1>15. Popping'
  BY PoppingRests
<1>16. \A x \in Branches : refCache'[x] \in Known \cup (Made' \ Made)
  BY <1>5, <1>8, <1>11 DEF Known
<1>17. Named' \subseteq Known \cup (Made' \ Made)
  BY <1>5, <1>11 DEF Known
<1>18. /\ stored \subseteq stored' /\ stored' \subseteq stored \cup (Made' \ Made)
       /\ excused \subseteq excused' /\ Made \subseteq Made' /\ \A x \in Made' \ Made : ~Hier(x)'
  BY <1>5
<1>19. QED BY <1>1, <1>5, <1>6, <1>9, <1>10, <1>13, <1>14, <1>15, <1>16, <1>17, <1>18, RefsMoved

LEMMA ResetKeeps ==
  ASSUME IInv, NEW p \in Procs, Reset(p)
  PROVE  IInv'
<1>1. PICK b \in Branches, to \in Branches :
        LET m == Resolve(b)  n == Resolve(to) IN
        /\ m # None /\ n # None
        /\ \/ /\ heads' = SetHead(heads, b, n)
              /\ refCache' = [refCache EXCEPT ![to] = n, ![b] = n]
              /\ reflog' = reflog \cup {m, n}
              /\ UNCHANGED <<nodes, stored, cell>>
           \/ /\ LastNode < MaxNodes
              /\ LET d == LastNode + 1 IN
                 /\ nodes' = Append(nodes, [anc |-> Anc(m) \cup {d}, hier |-> FALSE,
                                            has |-> Shown(n)])
                 /\ cell' = Append(cell, d)
                 /\ stored' = stored \cup {d}
                 /\ heads' = SetHead(heads, b, d)
                 /\ refCache' = [refCache EXCEPT ![to] = n, ![b] = d]
                 /\ reflog' = reflog \cup {m, d}
        /\ Anew(p, b, lossy[to])
        /\ stale' = IF Exists(b) THEN stale ELSE stale \cup {b}
        /\ excused' = excused \cup Ghosts(m) \cup Ghosts(n)
  BY DEF Reset
<1>2. Starts(p, "reset") /\ UNCHANGED <<trees, stash, shadow, call, stashed>>
  BY DEF Reset
<1>3. PICK m \in Made, n \in Made : m = Resolve(b) /\ n = Resolve(to)
  BY <1>1, ResolveFacts DEF IInv
<1>4. /\ Anew(p, b, lossy[to]) /\ stale' = IF Exists(b) THEN stale ELSE stale \cup {b}
      /\ excused' = excused \cup Ghosts(m) \cup Ghosts(n)
  BY <1>1, <1>3
<1>5. CASE /\ heads' = SetHead(heads, b, n)
           /\ refCache' = [refCache EXCEPT ![to] = n, ![b] = n]
           /\ reflog' = reflog \cup {m, n}
           /\ UNCHANGED <<nodes, stored, cell>>
  BY <1>2, <1>3, <1>4, <1>5, ResetHardKeeps
<1>6. PICK d \in Nat : d = LastNode + 1
  BY MadeFacts DEF IInv, Types
<1>7. CASE /\ LastNode < MaxNodes
           /\ nodes' = Append(nodes, [anc |-> Anc(m) \cup {d}, hier |-> FALSE,
                                      has |-> Shown(n)])
           /\ cell' = Append(cell, d)
           /\ stored' = stored \cup {d}
           /\ heads' = SetHead(heads, b, d)
           /\ refCache' = [refCache EXCEPT ![to] = n, ![b] = d]
           /\ reflog' = reflog \cup {m, d}
  BY <1>2, <1>3, <1>4, <1>6, <1>7, ResetSoftKeeps
<1>8. QED BY <1>1, <1>3, <1>5, <1>6, <1>7

(* A branch is created or deleted, or the stash taken: no node is made.     *)
LEMMA PointedKeeps ==
  ASSUME IInv, NEW p \in Procs, NEW kind, Starts(p, kind), NEW b \in Branches,
         UNCHANGED <<cell, nodes, stored, trees, reflog, shadow, call>>,
         heads' \in [Branches -> Made \cup {None, Absent}],
         \A d \in Branches \ {b} : heads'[d] = heads[d],
         refCache' \in [Branches -> Made \cup {None}],
         \A d \in Branches \ {b} : refCache'[d] \in {refCache[d], Resolve(d)},
         heads'[b] \in Known, refCache'[b] \in Known, stash' \in Known,
         stash' \in Made \cup {None}, stashed' \in {"no", "kept", "applied", "torn"},
         stale' \subseteq Branches, \A d \in stale \ {b} : d \in stale',
         lossy' \in [Branches -> SUBSET Flaws], \A d \in Branches \ {b} : lossy'[d] = lossy[d],
         acked' \subseteq acked, excused \subseteq excused', excused' \subseteq Made,
         Anc(heads'[b]) \subseteq stored \cup excused', Anc(stash') \subseteq stored \cup excused',
         Warmed(b)', Popping'
  PROVE  IInv'
<1>1. /\ call[p].step = "idle" /\ calls' \in Nat /\ raced \in BOOLEAN /\ raced' \in BOOLEAN
      /\ (raced => raced') /\ (raced' \/ \A q \in Procs : call[q].kind # "gc")
  BY BeginFacts DEF IInv, Types, HistoryTypes
<1>2. Made' = Made /\ LastNode' = LastNode
      /\ \A x : Anc(x)' = Anc(x) /\ Hier(x)' = Hier(x)
  BY DEF Made, LastNode, Anc, Hier
<1>3. NodeTypes'
  BY <1>2 DEF IInv, Types, NodeTypes
<1>4. RowTypes'
  BY <1>2 DEF IInv, Types, RowTypes
<1>5. HistoryTypes'
  BY <1>1, <1>2 DEF IInv, Types, HistoryTypes
<1>6. Named' \subseteq Named \cup {heads'[b], stash'}
  BY DEF Named
<1>7. \A x \in Named' : Anc(x)' \subseteq Kept'
  <2>1. \A x \in Named : Anc(x) \subseteq Kept
    BY DEF IInv, Resolving, Whole
  <2>2. Kept \subseteq Kept' /\ Kept' = stored \cup excused'
    BY DEF Kept
  <2>3. QED BY <1>2, <1>6, <2>1, <2>2
<1>8. \A d \in Branches : Warmed(d)'
  <2>1. ASSUME NEW d \in Branches, d # b PROVE Warmed(d)'
    <3>1. heads'[d] = heads[d] /\ lossy'[d] = lossy[d] /\ (d \in stale => d \in stale')
          /\ refCache'[d] \in {refCache[d], Resolve(d)}
      BY <2>1
    <3>2. QED BY <1>1, <3>1, WarmElsewhere
  <2>2. QED BY <2>1
<1>9. Named \subseteq Known /\ \A d \in Branches : refCache[d] \in Known /\ Resolve(d) \in Known
  BY ResolveKnown DEF Known, IInv
<1>10. Named' \subseteq Known \cup (Made' \ Made)
  BY <1>6, <1>9
<1>11. \A d \in Branches : refCache'[d] \in Known \cup (Made' \ Made)
  <2>1. \A d \in Branches \ {b} : refCache'[d] \in Known
    BY <1>9
  <2>2. QED BY <2>1
<1>12. /\ stored \subseteq stored' /\ stored' \subseteq stored \cup (Made' \ Made)
       /\ Made \subseteq Made' /\ \A x \in Made' \ Made : ~Hier(x)'
  BY <1>2
<1>13. QED BY <1>1, <1>2, <1>3, <1>4, <1>5, <1>7, <1>8, <1>10, <1>11, <1>12, RefsMoved

LEMMA CreateBranchKeeps ==
  ASSUME IInv, NEW p \in Procs, CreateBranch(p)
  PROVE  IInv'
<1>1. /\ Starts(p, "create")
      /\ UNCHANGED <<cell, nodes, stored, trees, stash, reflog, shadow, call, stashed>>
  BY DEF CreateBranch
<1>2. /\ call[p].step = "idle" /\ heads \in [Branches -> Made \cup {None, Absent}]
      /\ refCache \in [Branches -> Made \cup {None}] /\ stale \subseteq Branches
      /\ lossy \in [Branches -> SUBSET Flaws] /\ excused \subseteq Made
      /\ stash \in Made \cup {None} /\ stashed \in {"no", "kept", "applied", "torn"}
      /\ Anc(stash) \subseteq stored \cup excused /\ stash \in Known
  BY <1>1, BeginFacts DEF IInv, Types, RowTypes, HistoryTypes, Resolving, Whole, Named, Kept, Known
<1>3. Popping'
  <2>1. excused \subseteq excused'
    BY DEF CreateBranch
  <2>2. QED BY <1>1, <2>1, PoppingRests
<1>4. ASSUME NEW b \in Branches, heads' = [heads EXCEPT ![b] = None],
             Anew(p, b, IF refCache[b] = None THEN {} ELSE lossy[b]),
             stale' = stale \cup {b}, UNCHANGED <<refCache, excused>>
      PROVE  IInv'
  <2>1. lossy' \in [Branches -> SUBSET Flaws] /\ acked' \subseteq acked
        /\ (IF Overlapping(p, b) THEN {"overlap"} ELSE {}) \subseteq lossy'[b]
        /\ \A d \in Branches \ {b} : lossy'[d] = lossy[d]
    BY <1>2, <1>4 DEF Anew, Flaws
  <2>2. heads' \in [Branches -> Made \cup {None, Absent}] /\ heads'[b] = None
        /\ \A d \in Branches \ {b} : heads'[d] = heads[d]
    BY <1>2, <1>4
  <2>3. Anc(heads'[b]) = {} /\ heads'[b] \in Known /\ refCache'[b] \in Known
    BY <1>4, <2>2, NoNode DEF Known, IInv, Types
  <2>4. Warmed(b)'
    BY <1>1, <1>2, <1>4, <2>1, WarmMoved
  <2>5. QED BY <1>1, <1>2, <1>3, <1>4, <2>1, <2>2, <2>3, <2>4, PointedKeeps
<1>5. ASSUME NEW b \in Branches, NEW from \in Branches, NEW n \in Made, n = Resolve(from),
             heads' = [heads EXCEPT ![b] = n], Anew(p, b, lossy[from]),
             refCache' = [refCache EXCEPT ![from] = n, ![b] = n], stale' = stale \ {b},
             excused' = excused \cup Ghosts(n)
      PROVE  IInv'
  <2>1. lossy' \in [Branches -> SUBSET Flaws] /\ acked' \subseteq acked
        /\ (IF Overlapping(p, b) THEN {"overlap"} ELSE {}) \subseteq lossy'[b]
        /\ \A d \in Branches \ {b} : lossy'[d] = lossy[d]
    BY <1>2, <1>5 DEF Anew, Flaws
  <2>2. heads' \in [Branches -> Made \cup {None, Absent}] /\ heads'[b] = n
        /\ \A d \in Branches \ {b} : heads'[d] = heads[d]
    BY <1>2, <1>5
  <2>3. refCache' \in [Branches -> Made \cup {None}] /\ refCache'[b] = n
        /\ \A d \in Branches \ {b} : refCache'[d] \in {refCache[d], Resolve(d)}
    BY <1>2, <1>5
  <2>4. n \in Known
    BY <1>5, ResolveKnown DEF IInv
  <2>5. Anc(n) \subseteq stored \cup excused' /\ excused' \subseteq Made
        /\ Anc(stash) \subseteq stored \cup excused'
    BY <1>2, <1>5, NodeFacts DEF Ghosts, IInv, Types
  <2>6. Warmed(b)'
    BY <1>1, <1>2, <2>1, <2>2, <2>3, WarmMoved
  <2>7. QED BY <1>1, <1>2, <1>3, <1>5, <2>1, <2>2, <2>3, <2>4, <2>5, <2>6, PointedKeeps
<1>6. PICK b \in Branches :
       \/ /\ heads' = [heads EXCEPT ![b] = None]
          /\ Anew(p, b, IF refCache[b] = None THEN {} ELSE lossy[b])
          /\ stale' = stale \cup {b}
          /\ UNCHANGED <<refCache, excused>>
       \/ \E from \in Branches :
            LET n == Resolve(from) IN
            /\ n # None
            /\ heads' = [heads EXCEPT ![b] = n]
            /\ Anew(p, b, lossy[from])
            /\ refCache' = [refCache EXCEPT ![from] = n, ![b] = n]
            /\ stale' = stale \ {b}
            /\ excused' = excused \cup Ghosts(n)
  BY DEF CreateBranch
<1>7. \A from \in Branches : Resolve(from) # None => Resolve(from) \in Made
  BY ResolveFacts DEF IInv
<1>8. QED BY <1>4, <1>5, <1>6, <1>7

LEMMA DeleteBranchKeeps ==
  ASSUME IInv, NEW p \in Procs, DeleteBranch(p)
  PROVE  IInv'
<1>1. /\ Starts(p, "delete")
      /\ UNCHANGED <<cell, nodes, stored, trees, stash, reflog, shadow, call, excused, stashed>>
  BY DEF DeleteBranch
<1>2. PICK b \in Branches : ForgetBranch(b) /\ Anew(p, b, {}) /\ stale' = stale \ {b}
  BY DEF DeleteBranch
<1>3. /\ call[p].step = "idle" /\ heads \in [Branches -> Made \cup {None, Absent}]
      /\ refCache \in [Branches -> Made \cup {None}] /\ stale \subseteq Branches
      /\ lossy \in [Branches -> SUBSET Flaws] /\ excused \subseteq Made
      /\ stash \in Made \cup {None} /\ stashed \in {"no", "kept", "applied", "torn"}
      /\ Anc(stash) \subseteq stored \cup excused /\ stash \in Known
  BY <1>1, BeginFacts DEF IInv, Types, RowTypes, HistoryTypes, Resolving, Whole, Named, Kept, Known
<1>4. lossy' \in [Branches -> SUBSET Flaws] /\ acked' \subseteq acked
      /\ (IF Overlapping(p, b) THEN {"overlap"} ELSE {}) \subseteq lossy'[b]
      /\ \A d \in Branches \ {b} : lossy'[d] = lossy[d]
  BY <1>2, <1>3 DEF Anew, Flaws
<1>5. heads' \in [Branches -> Made \cup {None, Absent}] /\ heads'[b] = Absent
      /\ \A d \in Branches \ {b} : heads'[d] = heads[d]
  BY <1>2, <1>3 DEF ForgetBranch
<1>6. refCache' \in [Branches -> Made \cup {None}] /\ refCache'[b] = None
      /\ \A d \in Branches \ {b} : refCache'[d] = refCache[d]
  BY <1>2, <1>3 DEF ForgetBranch
<1>7. Anc(heads'[b]) = {} /\ heads'[b] \in Known /\ refCache'[b] \in Known
  BY <1>5, <1>6, NoNode DEF Known, IInv, Types
<1>8. Warmed(b)'
  BY <1>1, <1>3, <1>4, <1>6, WarmMoved
<1>9. Popping'
  <2>1. call' = call /\ stash' = stash /\ stashed' = stashed /\ excused \subseteq excused'
    BY <1>1
  <2>2. QED BY <2>1, PoppingRests
<1>10. QED BY <1>1, <1>2, <1>3, <1>4, <1>5, <1>6, <1>7, <1>8, <1>9, PointedKeeps

LEMMA StashKeeps ==
  ASSUME IInv, NEW p \in Procs, Stash(p)
  PROVE  IInv'
<1>1. /\ Starts(p, "stash") /\ stashed = "no" /\ stashed' = "kept"
      /\ UNCHANGED <<cell, nodes, stored, trees, heads, reflog, shadow, call, acked, lossy, stale>>
  BY DEF Stash
<1>2. PICK b \in Branches : /\ Resolve(b) # None /\ stash' = Resolve(b) /\ refCache' = Cached(b)
                            /\ excused' = excused \cup Ghosts(Resolve(b))
  BY DEF Stash
<1>3. /\ call[p].step = "idle" /\ heads \in [Branches -> Made \cup {None, Absent}]
      /\ refCache \in [Branches -> Made \cup {None}] /\ stale \subseteq Branches
      /\ lossy \in [Branches -> SUBSET Flaws] /\ excused \subseteq Made
      /\ Anc(heads[b]) \subseteq stored \cup excused /\ heads[b] \in Known
  BY <1>1, BeginFacts DEF IInv, Types, RowTypes, HistoryTypes, Resolving, Whole, Named, Kept, Known
<1>4. stash' \in Made /\ stash' \in Known
  BY <1>2, ResolveFacts, ResolveKnown DEF IInv
<1>5. refCache' \in [Branches -> Made \cup {None}]
      /\ \A d \in Branches : refCache'[d] \in {refCache[d], Resolve(d)}
  BY <1>2, CachedFacts DEF IInv
<1>6. Anc(stash') \subseteq stored \cup excused' /\ excused' \subseteq Made
      /\ Anc(heads'[b]) \subseteq stored \cup excused'
  BY <1>1, <1>2, <1>3, <1>4, NodeFacts DEF Ghosts, IInv, Types
<1>7. refCache'[b] \in Known
  BY <1>5, ResolveKnown DEF Known, IInv
<1>8. Warmed(b)'
  BY <1>1, <1>3, <1>5, WarmElsewhere
<1>9. Popping'
  <2>1. stash' # None
    BY <1>4, MadeFacts DEF IInv, Types
  <2>2. \A q \in Procs : call'[q].kind # "pop"
    BY <1>1 DEF IInv, Popping
  <2>3. stashed' # "no"
    BY <1>1
  <2>4. QED BY <2>1, <2>2, <2>3 DEF Popping, Popped, StashKept
<1>10. QED BY <1>1, <1>2, <1>3, <1>4, <1>5, <1>6, <1>7, <1>8, <1>9, PointedKeeps

-----------------------------------------------------------------------------
(* Garbage collection and restart                                           *)

LEMMA StartGcKeeps ==
  ASSUME IInv, NEW p \in Procs, StartGc(p)
  PROVE  IInv'
<1>1. PICK expired \in SUBSET {b \in Ephemeral : Exists(b)} :
        /\ heads' = [b \in Branches |-> IF b \in expired THEN Absent ELSE heads[b]]
        /\ stale' = stale \cup expired
        /\ acked' = {x \in acked : x[1] \notin expired}
        /\ lossy' = [b \in Branches |-> lossy[b] \cup
                       IF b \in expired /\ Overlapping(p, b) THEN {"overlap"} ELSE {}]
  BY DEF StartGc
<1>2. /\ Starts(p, "gc")
      /\ UNCHANGED <<nodes, cell, stored, trees, stash, reflog, shadow, refCache, excused, stashed>>
  BY DEF StartGc, Begin, caches
<1>3. PICK c : c = [Idle EXCEPT !.kind = "gc", !.branch = Main, !.step = "mark", !.author = None,
                             !.old = None]
  OBVIOUS
<1>4. call' = [call EXCEPT ![p] = c]
  BY <1>3 DEF StartGc, Begin, CommitKinds
<1>5. c \in CallSet(Made) /\ c.kind = "gc" /\ c.step = "mark" /\ c.node = None /\ c.old = None
  BY <1>3, IdleFacts, RepositoryAssumption DEF IInv, CallSet, Steps, Unlocked
<1>6. Shaped(c) /\ ~Flying(c) /\ c.step \notin {"log", "drop", "land", "sweep"}
  BY <1>5, NewCall DEF CommitKinds
<1>7. /\ call[p].step = "idle" /\ calls' \in Nat /\ raced \in BOOLEAN /\ raced' \in BOOLEAN
      /\ (raced => raced') /\ (raced' \/ \A q \in Procs : call[q].kind # "gc")
  BY <1>2, BeginFacts DEF IInv, Types, HistoryTypes
<1>8. Made' = Made /\ LastNode' = LastNode /\ Kept' = Kept
      /\ \A x : Anc(x)' = Anc(x) /\ Hier(x)' = Hier(x)
  BY <1>2 DEF Made, LastNode, Anc, Hier, Kept
<1>9. CallTypes' /\ call'[p] = c /\ \A q \in Procs \ {p} : call'[q] = call[q]
  BY <1>4, <1>5, <1>6, <1>7, <1>8, Moved DEF IInv, Types
<1>10. Types'
  <2>1. NodeTypes'
    BY <1>2, <1>8 DEF IInv, Types, NodeTypes
  <2>2. RowTypes'
    BY <1>1, <1>2, <1>8 DEF IInv, Types, RowTypes
  <2>3. expired \subseteq Branches /\ acked' \subseteq acked
    BY <1>1, RepositoryAssumption
  <2>4. lossy' \in [Branches -> SUBSET Flaws]
    BY <1>1 DEF Flaws, IInv, Types, HistoryTypes
  <2>5. HistoryTypes'
    BY <1>1, <1>2, <1>7, <1>8, <2>3, <2>4 DEF IInv, Types, HistoryTypes
  <2>6. ShadowTypes'
    BY <1>2, <1>7, <1>8, <1>9, OpsStay DEF IInv, Types
  <2>7. QED BY <1>9, <2>1, <2>2, <2>5, <2>6 DEF Types
<1>11. Mutex'
  <2>1. ~InSection(p)'
    BY <1>5, <1>9 DEF InSection
  <2>2. QED BY <1>9, <2>1, MutexStays DEF IInv
<1>12. Popping' /\ \A q \in Procs : Remembers(q)'
  <2>1. Popping'
    BY <1>2, <1>5, <1>9, PoppingStays
  <2>2. ~Hidden(call'[p])
    BY <1>5, <1>9 DEF Hidden
  <2>3. QED BY <1>5, <1>8, <1>9, <2>1, <2>2, RemembersStay
<1>13. Named' \subseteq Named \cup {Absent}
  BY <1>1, <1>2 DEF Named
<1>14. Whole'
  BY <1>8, <1>13, NoNode DEF IInv, Types, Resolving, Whole
<1>15. Planted'
  BY <1>2, <1>6, <1>8, <1>9 DEF IInv, Resolving, Planted
<1>16. \A q \in Procs : InFlight(call[q])'
  <2>1. InFlight(call[p])'
    BY <1>6, <1>9 DEF InFlight
  <2>2. ASSUME NEW q \in Procs \ {p} PROVE InFlight(call[q])'
    <3>1. InFlight(call[q])
      BY DEF IInv, Resolving
    <3>2. Buffered(call[q])' = Buffered(call[q])
      BY <1>2, <1>9 DEF Buffered
    <3>3. QED BY <1>8, <1>9, <3>1, <3>2 DEF InFlight, Unpushed
  <2>3. QED BY <2>1, <2>2
<1>17. \A q \in Procs : Secret(q)'
  <2>1. Secret(p)'
    BY <1>5, <1>9 DEF Secret
  <2>2. ASSUME NEW q \in Procs \ {p} PROVE Secret(q)'
    <3>1. ASSUME call[q].kind = "file", call[q].step = "read"
          PROVE  call[q].node \notin {None, Absent}
      BY <3>1, MadeFacts DEF IInv, Types, CallTypes, CallSet, Shaped, Flying
    <3>2. QED BY <1>2, <1>5, <1>9, <1>13, <3>1, SecretStays
  <2>3. QED BY <2>1, <2>2
<1>18. \A q \in Procs : Marked(q)'
  <2>1. ASSUME NEW q \in Procs \ {p}, call[q].step = "sweep" PROVE raced'
    BY <1>7, <2>1 DEF IInv, Types, CallTypes, Shaped
  <2>2. QED BY <1>6, <1>9, <2>1 DEF Marked
<1>19. ASSUME NEW d \in Branches PROVE Warmed(d)'
  <2>1. CASE d \in expired
    BY <1>1, <2>1 DEF Warmed
  <2>2. ASSUME d \notin expired PROVE Warmed(d)'
    <3>1. ~Landing(p, d) /\ ~Landing(p, d)'
      BY <1>6, <1>7, <1>9 DEF Landing
    <3>2. \A q \in Procs : Landing(q, d) /\ Pending(q) => Pending(q)'
      BY <1>2, <1>7, <1>9 DEF Landing, Pending, Op
    <3>3. heads'[d] = heads[d] /\ (d \in stale => d \in stale') /\ lossy[d] \subseteq lossy'[d]
      BY <1>1, <2>2
    <3>4. refCache'[d] \in {refCache[d], Resolve(d)}
      BY <1>2
    <3>5. QED BY <1>9, <3>1, <3>2, <3>3, <3>4, WarmStaysAt
  <2>3. QED BY <2>1, <2>2
<1>20. QED BY <1>10, <1>11, <1>12, <1>14, <1>15, <1>16, <1>17, <1>18, <1>19 DEF IInv, Resolving

(* What a mark finds is what the refs lead to.                              *)
LEMMA Marking ==
  ASSUME Types
  PROVE  /\ UNION {Anc(n) : n \in RefRoots} \subseteq Made
         /\ RefRoots = Named \ {None, Absent}
<1>1. Roots = Named
  BY DEF Roots, Named
<1>2. RefRoots = Named \ {None, Absent}
  BY <1>1 DEF RefRoots
<1>3. RefRoots \subseteq Made
  BY <1>2, NamedMade
<1>4. QED BY <1>2, <1>3, NodeFacts DEF Types

LEMMA MarkKeeps ==
  ASSUME IInv, NEW p \in Procs, Mark(p)
  PROVE  IInv'
<1>1. PICK found : found = UNION {Anc(n) : n \in RefRoots}
  OBVIOUS
<1> DEFINE c == [call[p] EXCEPT !.step = "sweep", !.seen = found]
<1>2. /\ call[p].step = "mark" /\ call' = [call EXCEPT ![p] = c]
      /\ raced' = (raced \/ \E q \in Procs \ {p} : Busy(q))
      /\ UNCHANGED <<rows, caches, calls, acked, lossy, excused, stale, stashed>>
  BY <1>1 DEF Mark
<1>3. /\ UNCHANGED <<nodes, cell, stored, trees, heads, stash, reflog, shadow, refCache, calls,
                     acked, lossy, excused, stale, stashed>>
      /\ Made' = Made /\ LastNode' = LastNode /\ Kept' = Kept /\ Named' = Named
      /\ \A x : Anc(x)' = Anc(x) /\ Hier(x)' = Hier(x)
  BY <1>2 DEF rows, caches, Made, LastNode, Anc, Hier, Kept, Named
<1>4. call[p] \in CallSet(Made) /\ Shaped(call[p]) /\ call[p].kind = "gc" /\ found \subseteq Made
  BY <1>1, <1>2, Marking, CallFacts DEF IInv, Types, Shaped
<1>5. c \in CallSet(Made) /\ c.kind = "gc" /\ c.step = "sweep" /\ c.seen = found
      /\ c.node = call[p].node
  BY <1>4 DEF CallSet, Steps
<1> HIDE DEF c
<1>6. Shaped(c) /\ ~Flying(c)
  BY <1>5 DEF Shaped, Flying, CommitKinds
<1>7. CallTypes' /\ call'[p] = c /\ \A q \in Procs \ {p} : call'[q] = call[q]
  <2>1. calls' \in Nat
    BY <1>3 DEF IInv, Types, CallTypes
  <2>2. QED BY <1>2, <1>3, <1>5, <1>6, <2>1, Moved DEF IInv, Types
<1>8. raced' \in BOOLEAN /\ (raced => raced') /\ (raced' \/ \A q \in Procs \ {p} : ~Busy(q))
  <2>1. raced \in BOOLEAN
    BY DEF IInv, Types, HistoryTypes
  <2>2. raced' = (raced \/ \E q \in Procs \ {p} : Busy(q))
    BY <1>2
  <2>3. QED BY <2>1, <2>2, Zenon
<1>9. Types'
  <2>1. NodeTypes' /\ RowTypes' /\ HistoryTypes'
    BY <1>3, <1>8 DEF IInv, Types, NodeTypes, RowTypes, HistoryTypes
  <2>2. ShadowTypes'
    BY <1>2, <1>3, <1>7, OpsStay DEF IInv, Types
  <2>3. QED BY <1>7, <2>1, <2>2 DEF Types
<1>10. Mutex'
  <2>1. ~InSection(p)'
    BY <1>5, <1>7 DEF InSection
  <2>2. QED BY <1>7, <2>1, MutexStays DEF IInv
<1>11. Popping' /\ \A q \in Procs : Remembers(q)'
  <2>1. c.old = call[p].old
    BY <1>4 DEF c, CallSet
  <2>2. Kept \subseteq Kept' /\ excused \subseteq excused' /\ UNCHANGED <<stash, stashed>>
    BY <1>3
  <2>3. QED BY <1>3, <1>4, <1>5, <1>7, <2>1, <2>2, StepRests DEF Hidden
<1>12. Whole'
  BY <1>3 DEF IInv, Resolving, Whole
<1>13. Planted'
  BY <1>3, <1>6, <1>7 DEF IInv, Resolving, Planted
<1>14. \A q \in Procs : InFlight(call[q])'
  <2>1. InFlight(call[p])'
    BY <1>5, <1>6, <1>7 DEF InFlight
  <2>2. ASSUME NEW q \in Procs \ {p} PROVE InFlight(call[q])'
    <3>1. InFlight(call[q])
      BY DEF IInv, Resolving
    <3>2. Buffered(call[q])' = Buffered(call[q])
      BY <1>3, <1>7 DEF Buffered
    <3>3. QED BY <1>3, <1>7, <3>1, <3>2 DEF InFlight, Unpushed
  <2>3. QED BY <2>1, <2>2
<1>15. \A q \in Procs : Secret(q)'
  <2>1. Secret(p)'
    BY <1>5, <1>7 DEF Secret
  <2>2. ASSUME NEW q \in Procs \ {p} PROVE Secret(q)'
    <3>1. Secret(q)
      BY DEF IInv, Resolving
    <3>2. QED BY <1>3, <1>5, <1>7, <3>1 DEF Secret
  <2>3. QED BY <2>1, <2>2
<1>16. \A q \in Procs : Marked(q)'
  <2>1. Marked(p)'
    <3>1. ~raced' => \A q \in Procs \ {p} : call'[q].step = "idle"
      BY <1>7, <1>8 DEF Busy
    <3>2. (UNION {Anc(n) : n \in RefRoots})' = UNION {Anc(n) : n \in RefRoots}
      BY <1>3 DEF RefRoots, Roots, Anc
    <3>3. QED BY <1>1, <1>5, <1>7, <3>1, <3>2 DEF Marked
  <2>2. ASSUME NEW q \in Procs \ {p}, call[q].step = "sweep" PROVE raced'
    BY <1>8, <2>2 DEF Busy
  <2>3. ASSUME NEW q \in Procs \ {p} PROVE Marked(q)'
    BY <1>7, <2>2 DEF Marked
  <2>4. QED BY <2>1, <2>3
<1>17. \A d \in Branches : Warmed(d)'
  <2>1. \A q \in Procs : call[q].step = "land" /\ Pending(q) => Pending(q)'
    BY <1>2, <1>3, <1>7 DEF Pending, Op
  <2>2. QED BY <1>2, <1>3, <1>5, <1>7, <2>1, WarmStays
<1>18. QED BY <1>9, <1>10, <1>11, <1>12, <1>13, <1>14, <1>15, <1>16, <1>17 DEF IInv, Resolving

LEMMA MarkFailsKeeps ==
  ASSUME IInv, NEW p \in Procs, MarkFails(p)
  PROVE  IInv'
<1>1. /\ call[p].step = "mark" /\ call' = [call EXCEPT ![p] = Idle]
      /\ raced' = \E q \in Procs \ {p} : call[q].kind = "gc"
  BY DEF MarkFails
<1>2. /\ UNCHANGED <<nodes, cell, stored, trees, heads, stash, reflog, shadow, refCache, calls,
                     acked, lossy, excused, stale, stashed>>
      /\ Made' = Made /\ LastNode' = LastNode /\ Kept' = Kept /\ Named' = Named
      /\ \A x : Anc(x)' = Anc(x) /\ Hier(x)' = Hier(x)
  BY DEF MarkFails, rows, caches, Made, LastNode, Anc, Hier, Kept, Named
<1>3. CallTypes' /\ call'[p] = Idle /\ \A q \in Procs \ {p} : call'[q] = call[q]
  <2>1. calls' \in Nat
    BY <1>2 DEF IInv, Types, CallTypes
  <2>2. QED BY <1>1, <1>2, <2>1, IdleFacts, Moved DEF IInv, Types
<1>4. Idle.step = "idle" /\ Idle.node = None /\ ~Flying(Idle)
  BY IdleFacts DEF IInv
<1>5. Types'
  <2>1. raced' \in BOOLEAN
    BY <1>1, Zenon
  <2>2. NodeTypes' /\ RowTypes' /\ HistoryTypes'
    BY <1>2, <2>1 DEF IInv, Types, NodeTypes, RowTypes, HistoryTypes
  <2>3. ShadowTypes'
    BY <1>1, <1>2, <1>3, OpsStay DEF IInv, Types
  <2>4. QED BY <1>3, <2>2, <2>3 DEF Types
<1>6. Mutex'
  BY <1>3, <1>4, MutexStays DEF IInv, InSection
<1>7. Popping' /\ \A q \in Procs : Remembers(q)'
  <2>1. Kept \subseteq Kept' /\ excused \subseteq excused' /\ UNCHANGED <<stash, stashed>>
    BY <1>2
  <2>2. QED BY <1>2, <1>3, <1>4, <2>1, StepRests DEF Hidden
<1>8. Whole'
  BY <1>2 DEF IInv, Resolving, Whole
<1>9. Planted'
  BY <1>2, <1>3, <1>4 DEF IInv, Resolving, Planted
<1>10. \A q \in Procs : InFlight(call[q])'
  <2>1. InFlight(call[p])'
    BY <1>3, <1>4 DEF InFlight
  <2>2. ASSUME NEW q \in Procs \ {p} PROVE InFlight(call[q])'
    <3>1. InFlight(call[q])
      BY DEF IInv, Resolving
    <3>2. Buffered(call[q])' = Buffered(call[q])
      BY <1>2, <1>3 DEF Buffered
    <3>3. QED BY <1>2, <1>3, <3>1, <3>2 DEF InFlight, Unpushed
  <2>3. QED BY <2>1, <2>2
<1>11. \A q \in Procs : Secret(q)'
  <2>1. Secret(p)'
    BY <1>3, <1>4 DEF Secret
  <2>2. ASSUME NEW q \in Procs \ {p} PROVE Secret(q)'
    <3>1. ASSUME call[q].kind = "file", call[q].step = "read"
          PROVE  call[q].node # None
      BY <3>1 DEF IInv, Types, CallTypes, Shaped, Flying
    <3>2. QED BY <1>2, <1>3, <1>4, <3>1, SecretStays
  <2>3. QED BY <2>1, <2>2
<1>12. \A q \in Procs : Marked(q)'
  <2>1. ASSUME NEW q \in Procs \ {p}, call[q].step = "sweep" PROVE raced'
    BY <1>1, <2>1 DEF IInv, Types, CallTypes, Shaped
  <2>2. QED BY <1>3, <1>4, <2>1 DEF Marked
<1>13. \A d \in Branches : Warmed(d)'
  <2>1. \A q \in Procs : call[q].step = "land" /\ Pending(q) => Pending(q)'
    BY <1>1, <1>2, <1>3 DEF Pending, Op
  <2>2. QED BY <1>1, <1>2, <1>3, <1>4, <2>1, WarmStays
<1>14. QED BY <1>5, <1>6, <1>7, <1>8, <1>9, <1>10, <1>11, <1>12, <1>13 DEF IInv, Resolving

LEMMA SweepKeeps ==
  ASSUME IInv, NEW p \in Procs, Sweep(p)
  PROVE  IInv'
<1>1. PICK gone : gone = (stored \cup trees) \ call[p].seen
  OBVIOUS
<1>2. /\ call[p].step = "sweep" /\ stored' = stored \ gone /\ trees' = trees \ gone
      /\ excused' = (IF raced THEN excused \cup gone ELSE excused)
      /\ call' = [call EXCEPT ![p] = Idle]
      /\ raced' = \E q \in Procs \ {p} : call[q].kind = "gc"
      /\ UNCHANGED <<nodes, cell, heads, stash, reflog, shadow, refCache, calls, acked, lossy,
                     stale, stashed>>
  BY <1>1 DEF Sweep, caches
<1>3. /\ Made' = Made /\ LastNode' = LastNode /\ Named' = Named
      /\ \A x : Anc(x)' = Anc(x) /\ Hier(x)' = Hier(x)
  BY <1>2 DEF Made, LastNode, Anc, Hier, Named
<1>4. gone \subseteq Made /\ stored \subseteq Made /\ trees \subseteq Made /\ excused \subseteq Made
  BY <1>1 DEF IInv, Types, RowTypes, HistoryTypes
<1>5. CallTypes' /\ call'[p] = Idle /\ \A q \in Procs \ {p} : call'[q] = call[q]
  <2>1. calls' \in Nat
    BY <1>2 DEF IInv, Types, CallTypes
  <2>2. QED BY <1>2, <1>3, <2>1, IdleFacts, Moved DEF IInv, Types
<1>6. Idle.step = "idle" /\ Idle.node = None /\ ~Flying(Idle)
  BY IdleFacts DEF IInv
<1>7. raced' \in BOOLEAN
  BY <1>2, Zenon
<1>8. Types'
  <2>1. NodeTypes' /\ RowTypes' /\ HistoryTypes'
    BY <1>2, <1>3, <1>4, <1>7 DEF IInv, Types, NodeTypes, RowTypes, HistoryTypes
  <2>2. ShadowTypes'
    BY <1>2, <1>3, <1>5, OpsStay DEF IInv, Types
  <2>3. QED BY <1>5, <2>1, <2>2 DEF Types
<1>9. Mutex'
  BY <1>5, <1>6, MutexStays DEF IInv, InSection
<1>10. Popping'
  <2>1. excused \subseteq excused' /\ UNCHANGED <<stash, stashed>>
    BY <1>2
  <2>2. QED BY <1>5, <2>1, IdleFacts, PoppingStays DEF IInv
<1>11. ASSUME ~raced
       PROVE  /\ \A q \in Procs : call'[q].step = "idle" /\ ~Flying(call'[q])
              /\ \A n \in Named : Anc(n) \subseteq call[p].seen
              /\ \A x \in call[p].seen : x \notin gone
  <2>1. (\A q \in Procs \ {p} : call[q].step = "idle")
        /\ call[p].seen = UNION {Anc(n) : n \in RefRoots}
    BY <1>2, <1>11 DEF IInv, Resolving, Marked
  <2>2. \A q \in Procs : call'[q].step = "idle"
    BY <1>5, <1>6, <2>1
  <2>3. \A q \in Procs : ~Flying(call'[q])
    BY <2>2 DEF Flying
  <2>4. \A n \in Named : Anc(n) = {} \/ n \in RefRoots
    BY Marking, NoNode DEF IInv, Types
  <2>5. \A n \in Named : Anc(n) \subseteq call[p].seen
    BY <2>1, <2>4
  <2>6. QED BY <1>1, <2>2, <2>3, <2>5
<1>12. raced => Kept \subseteq Kept' /\ trees \cup excused \subseteq trees' \cup excused'
  BY <1>2 DEF Kept
<1>13. ~raced => \A x \in Kept : x \in call[p].seen => x \in Kept'
  BY <1>2, <1>11 DEF Kept
<1>14. Whole'
  <2>1. \A n \in Named : Anc(n) \subseteq Kept
    BY DEF IInv, Resolving, Whole
  <2>2. \A n \in Named : Anc(n) \subseteq Kept'
    BY <1>11, <1>12, <1>13, <2>1
  <2>3. QED BY <1>3, <2>2 DEF Whole
<1>15. Planted'
  <2>1. ASSUME NEW n \in Made, Hier(n),
               n \in stored' \/ \E q \in Procs : Flying(call'[q]) /\ call'[q].node = n
        PROVE  n \in trees' \cup excused'
    <3>1. n \in stored \/ \E q \in Procs : Flying(call[q]) /\ call[q].node = n
      BY <1>2, <1>5, <1>6, <2>1
    <3>2. n \in trees \cup excused
      BY <2>1, <3>1 DEF IInv, Resolving, Planted
    <3>3. CASE raced
      BY <1>12, <3>2, <3>3
    <3>4. CASE ~raced
      <4>1. n \notin gone
        BY <1>2, <1>11, <2>1, <3>4
      <4>2. QED BY <1>2, <3>2, <3>4, <4>1
    <3>5. QED BY <3>3, <3>4
  <2>2. QED BY <1>3, <2>1 DEF Planted
<1>16. \A q \in Procs : InFlight(call[q])'
  <2>1. InFlight(call[p])'
    BY <1>5, <1>6 DEF InFlight
  <2>2. ASSUME NEW q \in Procs \ {p} PROVE InFlight(call[q])'
    <3>1. InFlight(call[q])
      BY DEF IInv, Resolving
    <3>2. CASE ~raced
      BY <1>11, <3>2 DEF InFlight, Flying
    <3>3. CASE raced
      <4>1. Buffered(call[q])' = Buffered(call[q])
        BY <1>2, <1>5 DEF Buffered
      <4>2. QED BY <1>3, <1>5, <1>12, <3>1, <3>3, <4>1 DEF InFlight, Unpushed
    <3>4. QED BY <3>2, <3>3
  <2>3. QED BY <2>1, <2>2
<1>17. \A q \in Procs : Secret(q)'
  <2>1. Secret(p)'
    BY <1>5, <1>6 DEF Secret
  <2>2. ASSUME NEW q \in Procs \ {p} PROVE Secret(q)'
    <3>1. ASSUME call[q].kind = "file", call[q].step = "read"
          PROVE  call[q].node # None
      BY <3>1 DEF IInv, Types, CallTypes, Shaped, Flying
    <3>2. QED BY <1>2, <1>3, <1>5, <1>6, <3>1, SecretStays
  <2>3. QED BY <2>1, <2>2
<1>18. \A q \in Procs : Marked(q)'
  <2>1. ASSUME NEW q \in Procs \ {p}, call[q].step = "sweep" PROVE raced'
    BY <1>2, <2>1 DEF IInv, Types, CallTypes, Shaped
  <2>2. QED BY <1>5, <1>6, <2>1 DEF Marked
<1>19. \A d \in Branches : Warmed(d)'
  <2>1. \A q \in Procs : call[q].step = "land" /\ Pending(q) => Pending(q)'
    BY <1>2, <1>5 DEF Pending, Op
  <2>2. QED BY <1>2, <1>5, <1>6, <2>1, WarmStays
<1>20. \A q \in Procs : Remembers(q)'
  <2>1. Idle.old = None /\ Idle.kind = "none"
    BY IdleFacts DEF IInv
  <2>2. CASE raced
    BY <1>3, <1>5, <1>12, <2>1, <2>2, RemembersStay DEF Hidden
  <2>3. CASE ~raced
    <3>1. \A q \in Procs : call'[q] = Idle
      BY <1>5, <1>11, <2>3 DEF IInv, Types, CallTypes, Shaped
    <3>2. QED BY <2>1, <3>1 DEF Remembers
  <2>4. QED BY <2>2, <2>3
<1>21. QED BY <1>8, <1>9, <1>10, <1>14, <1>15, <1>16, <1>17, <1>18, <1>19, <1>20 DEF IInv, Resolving

LEMMA RestartKeeps ==
  ASSUME IInv, Restart
  PROVE  IInv'
<1>1. /\ refCache' = [b \in Branches |-> None] /\ cell' = [n \in 1 .. LastNode |-> n]
      /\ shadow' = [a \in Authors |-> <<>>] /\ call' = [p \in Procs |-> Idle]
      /\ stale' = {} /\ raced' = FALSE /\ calls' = calls + 1
      /\ UNCHANGED <<nodes, stored, trees, heads, stash, reflog, acked, lossy, excused, stashed>>
  BY DEF Restart
<1>2. /\ Made' = Made /\ LastNode' = LastNode /\ Named' = Named /\ Kept' = Kept
      /\ \A x : Anc(x)' = Anc(x) /\ Hier(x)' = Hier(x)
  BY <1>1 DEF Made, LastNode, Anc, Hier, Named, Kept
<1>3. \A p \in Procs : call'[p] = Idle
  BY <1>1
<1>4. /\ Idle \in CallSet(Made) /\ Shaped(Idle) /\ ~Flying(Idle) /\ Idle.step = "idle"
      /\ Idle.kind = "none" /\ Idle.old = None
  BY IdleFacts DEF IInv
<1>5. NodeTypes'
  <2>1. LastNode \in Nat
    BY MadeFacts DEF IInv, Types
  <2>2. cell' \in Seq(Made) /\ Len(cell') = LastNode
    BY <1>1, <2>1 DEF Made
  <2>3. QED BY <1>1, <1>2, <2>2 DEF IInv, Types, NodeTypes
<1>6. RowTypes' /\ HistoryTypes'
  BY <1>1, <1>2 DEF IInv, Types, RowTypes, HistoryTypes
<1>7. CallTypes'
  <2>1. calls' \in Nat
    BY <1>1 DEF IInv, Types, CallTypes
  <2>2. call' \in [Procs -> CallSet(Made')]
    BY <1>1, <1>2, <1>4
  <2>3. \A p \in Procs : Shaped(call[p])'
    BY <1>3, <1>4 DEF Shaped, Flying, Idle
  <2>4. QED BY <2>1, <2>2, <2>3 DEF CallTypes
<1>8. ShadowTypes'
  <2>1. \A a \in Authors : shadow'[a] = <<>> /\ DOMAIN shadow'[a] = {}
    BY <1>1
  <2>2. \A a \in Authors, b \in Branches : HeadOps(shadow'[a], b) = {}
    BY <2>1 DEF HeadOps
  <2>3. QED BY <1>1, <2>1, <2>2 DEF ShadowTypes
<1>9. Types'
  BY <1>5, <1>6, <1>7, <1>8 DEF Types
<1>10. Mutex'
  BY <1>3, <1>4 DEF Mutex, InSection
<1>11. Popping'
  <2>1. excused \subseteq excused' /\ UNCHANGED <<stash, stashed>>
    BY <1>1
  <2>2. QED BY <1>3, <1>4, <2>1, PoppingStays
<1>12. Whole'
  BY <1>2 DEF IInv, Resolving, Whole
<1>13. Planted'
  BY <1>1, <1>2, <1>3, <1>4 DEF IInv, Resolving, Planted
<1>14. \A p \in Procs : InFlight(call[p])' /\ Remembers(p)' /\ Secret(p)' /\ Marked(p)'
  BY <1>3, <1>4 DEF InFlight, Remembers, Secret, Marked
<1>15. \A b \in Branches : Warmed(b)'
  BY <1>1, <1>3, <1>4 DEF Warmed, Landing
<1>16. QED BY <1>9, <1>10, <1>11, <1>12, <1>13, <1>14, <1>15 DEF IInv, Resolving

-----------------------------------------------------------------------------
(* The invariant holds                                                      *)

LEMMA InitHolds ==
  ASSUME Init
  PROVE  IInv
<1>1. /\ nodes = <<[anc |-> {1}, hier |-> TRUE, has |-> {1}]>> /\ stored = {1} /\ trees = {1}
      /\ heads = [b \in Branches |-> 1] /\ stash = None /\ reflog = {}
      /\ refCache = [b \in Branches |-> None] /\ cell = <<1>>
      /\ shadow = [a \in Authors |-> <<>>] /\ call = [p \in Procs |-> Idle] /\ calls = 0
      /\ acked = Branches \X {1} /\ lossy = [b \in Branches |-> {}]
      /\ excused = {} /\ stale = {} /\ raced = FALSE /\ stashed = "no"
  BY DEF Init
<1>2. LastNode = 1 /\ Made = {1} /\ DOMAIN nodes = {1} /\ nodes[1].anc = {1}
  BY <1>1 DEF LastNode, Made
<1>3. Anc(1) = {1}
  BY <1>2 DEF Anc
<1>4. NodeTypes
  <2>1. [anc |-> {1}, hier |-> TRUE, has |-> {1}] \in NodeSet(Made)
    BY <1>2 DEF NodeSet
  <2>2. nodes \in Seq(NodeSet(Made)) /\ cell \in Seq(Made) /\ Len(cell) = LastNode
    BY <1>1, <1>2, <2>1
  <2>3. QED BY <1>2, <1>3, <2>2, RepositoryAssumption DEF NodeTypes
<1>5. RowTypes /\ HistoryTypes
  BY <1>1, <1>2 DEF RowTypes, HistoryTypes, None
<1>6. \A p \in Procs : call[p] = Idle
  BY <1>1
<1>7. Idle.step = "idle" /\ Idle.kind = "none" /\ Idle.old = None /\ Idle \in CallSet(Made)
  BY RepositoryAssumption DEF Idle, CallSet, TreeSet, Plain, Steps
<1>8. CallTypes
  <2>1. \A p \in Procs : Shaped(call[p])
    BY <1>6, <1>7 DEF Shaped, Flying
  <2>2. QED BY <1>1, <1>7, <2>1 DEF CallTypes
<1>9. ShadowTypes
  <2>1. \A a \in Authors : shadow[a] = <<>> /\ DOMAIN shadow[a] = {}
    BY <1>1
  <2>2. \A a \in Authors, b \in Branches : HeadOps(shadow[a], b) = {}
    BY <2>1 DEF HeadOps
  <2>3. QED BY <1>1, <2>1, <2>2 DEF ShadowTypes
<1>10. Types
  BY <1>4, <1>5, <1>8, <1>9 DEF Types
<1>11. Mutex
  BY <1>6, <1>7 DEF Mutex, InSection
<1>12. Popping
  BY <1>1, <1>6, <1>7 DEF Popping, Popped, StashKept
<1>13. Whole
  <2>1. Named \subseteq {1, None}
    BY <1>1 DEF Named
  <2>2. QED BY <1>1, <1>3, <1>4, <2>1, NoNode DEF Whole, Kept
<1>14. Planted
  BY <1>1, <1>2 DEF Planted
<1>15. \A p \in Procs : InFlight(call[p]) /\ Remembers(p) /\ Secret(p) /\ Marked(p)
  BY <1>6, <1>7 DEF InFlight, Remembers, Secret, Marked, Flying
<1>16. \A b \in Branches : Warmed(b)
  BY <1>1, <1>6, <1>7 DEF Warmed, Landing
<1>17. QED BY <1>10, <1>11, <1>12, <1>13, <1>14, <1>15, <1>16 DEF IInv, Resolving

LEMMA StutterKeeps ==
  ASSUME IInv, UNCHANGED vars
  PROVE  IInv'
<1>1. UNCHANGED <<nodes, stored, trees, heads, stash, reflog, shadow, refCache, cell, call, calls,
                  acked, lossy, excused, stale, raced, stashed>>
  BY DEF vars, rows, caches, history
<1>2. /\ Types' = Types /\ Mutex' = Mutex /\ Popping' = Popping
  BY <1>1 DEF Types, NodeTypes, RowTypes, HistoryTypes, CallTypes, ShadowTypes, Mutex, Popping,
     Popped, StashKept, Made, LastNode, Anc, Shaped, Flying, FromCall, HeadOps, InSection, Family
<1>3. Whole' = Whole /\ Planted' = Planted
  BY <1>1 DEF Whole, Planted, Named, Kept, Anc, Hier, Made, LastNode, Flying
<1>4. \A p \in Procs : InFlight(call[p])' = InFlight(call[p]) /\ Secret(p)' = Secret(p)
                       /\ Marked(p)' = Marked(p) /\ Remembers(p)' = Remembers(p)
  BY <1>1 DEF InFlight, Remembers, Hidden, Secret, Marked, Flying, Kept, Buffered, Unpushed, NodesIn, Ops, Anc, Named,
     RefRoots, Roots
<1>5. \A b \in Branches : Warmed(b)' = Warmed(b)
  BY <1>1 DEF Warmed, Landing, Pending, Op, Exists
<1>6. QED BY <1>2, <1>3, <1>4, <1>5 DEF IInv, Resolving

LEMMA NextKeeps ==
  ASSUME IInv, [Next]_vars
  PROVE  IInv'
<1>1. CASE UNCHANGED vars
  BY <1>1, StutterKeeps
<1>2. CASE Restart
  BY <1>2, RestartKeeps
<1>3. ASSUME NEW p \in Procs,
             \/ StartCommit(p) \/ StartPick(p) \/ StartMerge(p) \/ StartRebase(p) \/ StartPop(p)
             \/ BuildTree(p) \/ ReadHead(p) \/ PushNode(p) \/ PushHead(p) \/ Land(p) \/ Log(p)
             \/ DropStash(p) \/ Fail(p) \/ GiveUp(p)
             \/ Reset(p) \/ CreateBranch(p) \/ DeleteBranch(p) \/ Stash(p)
             \/ StartGc(p) \/ Mark(p) \/ MarkFails(p) \/ Sweep(p)
      PROVE  IInv'
  <2>1. CASE StartCommit(p) \/ StartPick(p) \/ StartMerge(p) \/ StartRebase(p) \/ StartPop(p)
    BY <2>1, StartCommitKeeps, StartPickKeeps, StartMergeKeeps, StartRebaseKeeps, StartPopKeeps
  <2>2. CASE BuildTree(p) \/ ReadHead(p) \/ PushNode(p) \/ PushHead(p) \/ Land(p) \/ Log(p)
    BY <2>2, BuildTreeKeeps, ReadHeadKeeps, PushNodeKeeps, PushHeadKeeps, LandKeeps, LogKeeps
  <2>3. CASE DropStash(p) \/ Fail(p) \/ GiveUp(p)
    BY <2>3, DropStashKeeps, FailKeeps, GiveUpKeeps
  <2>4. CASE Reset(p) \/ CreateBranch(p) \/ DeleteBranch(p) \/ Stash(p)
    BY <2>4, ResetKeeps, CreateBranchKeeps, DeleteBranchKeeps, StashKeeps
  <2>5. CASE StartGc(p) \/ Mark(p) \/ MarkFails(p) \/ Sweep(p)
    BY <2>5, StartGcKeeps, MarkKeeps, MarkFailsKeeps, SweepKeeps
  <2>6. QED BY <1>3, <2>1, <2>2, <2>3, <2>4, <2>5
<1>4. QED BY <1>1, <1>2, <1>3 DEF Next

LEMMA InvHolds == Spec => []IInv
<1>1. Init => IInv
  BY InitHolds
<1>2. IInv /\ [Next]_vars => IInv'
  BY NextKeeps
<1>3. QED BY <1>1, <1>2, PTL DEF Spec

(* stashPop() deletes the entry only after a commit with its data has       *)
(* landed, or a rollback by the same author has taken that commit down.     *)
THEOREM StashIsKept == Spec => []StashKept
<1>1. IInv => StashKept
  BY DEF IInv, Popping
<1>2. QED BY <1>1, InvHolds, PTL

(* Types, as the run checks them.                                           *)
LEMMA TypesFromInv ==
  ASSUME IInv
  PROVE  TypeOK
<1>1. Made \subseteq Node /\ Made = 1 .. LastNode /\ LastNode \in Nat
  BY MadeFacts DEF Made, IInv, Types
<1>2. nodes \in Seq(NodeRec) /\ LastNode <= MaxNodes
  <2>1. NodeSet(Made) \subseteq NodeRec
    BY <1>1 DEF NodeSet, NodeRec
  <2>2. nodes \in Seq(NodeSet(Made))
    BY DEF IInv, Types, NodeTypes
  <2>3. QED BY <2>1, <2>2 DEF IInv, Types, NodeTypes
<1>3. 0 .. LastNode = Made \cup {None}
  BY <1>1 DEF None
<1>4. \A p \in Procs : call[p].step = "idle" <=> call[p] = Idle
  BY IdleFacts DEF IInv, Types, CallTypes, Shaped
<1>5. QED BY <1>1, <1>2, <1>3, <1>4 DEF TypeOK, IInv, Types, RowTypes, HistoryTypes

(* What is cached is the head, but for the exceptions that are counted.     *)
THEOREM CacheIsTrue == Spec => []CacheTruth
<1>1. ASSUME IInv PROVE CacheTruth
  <2>1. ASSUME NEW b \in Branches
        PROVE  \/ b \in stale \/ lossy[b] \cap {"overlap", "torn"} # {}
               \/ \E p \in Procs : InSection(p) /\ call[p].branch = b
               \/ refCache[b] \in {None, heads[b]}
    <3>1. Warmed(b)
      BY <1>1 DEF IInv
    <3>2. \A p \in Procs : Landing(p, b) => InSection(p) /\ call[p].branch = b
      BY DEF Landing, InSection
    <3>3. QED BY <3>1, <3>2 DEF Warmed
  <2>2. QED BY <1>1, <2>1, TypesFromInv DEF CacheTruth
<1>2. QED BY <1>1, InvHolds, PTL

(* What refs, stash and reflog lead to is stored, with its trees.           *)
THEOREM RefsAlwaysResolve == Spec => []RefsResolve
<1>1. ASSUME IInv PROVE RefsResolve
  <2>1. ASSUME NEW n \in Named
        PROVE  Anc(n) \subseteq stored \cup excused /\ (Hier(n) => n \in trees \cup excused)
    <3>1. Anc(n) \subseteq Kept
      BY <1>1, <2>1 DEF IInv, Resolving, Whole
    <3>2. ASSUME Hier(n) PROVE n \in trees \cup excused
      <4>1. n \in Made /\ n \in Anc(n)
        BY <1>1, <3>2, MadeFacts, NodeFacts DEF Hier, IInv, Types
      <4>2. n \in stored \/ n \in excused
        BY <3>1, <4>1 DEF Kept
      <4>3. QED BY <1>1, <3>2, <4>1, <4>2 DEF IInv, Resolving, Planted
    <3>3. QED BY <3>1, <3>2 DEF Kept
  <2>2. QED BY <2>1 DEF RefsResolve, Named
<1>2. QED BY <1>1, InvHolds, PTL
-----------------------------------------------------------------------------
(* No change is lost                                                        *)

(* What a tree shows, against what was done.                                *)
Past(b) == {n \in Made : <<b, n>> \in acked}
Under(h, T) == \A l \in Anc(h) : Has(l) \subseteq T
Grown(h) == Hier(h) => Under(h, Has(h))
Carries(b, h) == \A n \in Past(b) : n \in Anc(h) /\ (n \in Has(n) => n \in Has(h))

(* The head of the branch is already the node of a commit still at it.      *)
Intruded(b) == \E r \in Procs : Landing(r, b) /\ heads[b] = call[r].node

(* The head carries everything, and the cached head all that the head does. *)
Tip(b) ==
  /\ Grown(heads[b]) /\ Carries(b, heads[b])
  /\ refCache[b] # None => Grown(refCache[b]) /\ Anc(heads[b]) \subseteq Anc(refCache[b])

(* So does what a call is about to make the head of its branch.             *)
Writing(c) == c.kind \in CommitKinds /\ c.step \in {"node", "head", "land"}
Carried(p) ==
  LET c == call[p]  h == heads[call[p].branch] IN
  /\ Writing(c) => /\ c.kind # "squash" /\ Grown(c.node) /\ Anc(h) \subseteq Anc(c.node)
                   /\ Carries(c.branch, c.node)
  /\ c.step = "land" => /\ refCache[c.branch] = c.node
                        /\ Exists(c.branch) => h = c.node \/ Pending(p)
  /\ \/ Intruded(c.branch)
     \/ /\ c.kind = "file" /\ c.step = "read" => Grown(c.node) /\ Under(h, Has(c.node))
        /\ c.kind = "file" /\ c.step \in {"node", "head"} =>
             Grown(c.node) /\ Anc(h) \subseteq Anc(c.node)
        /\ c.kind = "merge" /\ c.step = "wait" /\ c.tree.hier => Under(h, c.tree.has)
Safe(b) == lossy[b] = {} => Tip(b) /\ \A p \in Procs : call[p].branch = b => Carried(p)

(* A tree of a call is its node's, a cached tree object only ever grows.    *)
Treed(c) ==
  /\ c.tree.of # None => c.tree.hier /\ c.tree.has = Has(c.tree.of)
  /\ c.tree.hier => c.kind \in {"merge", "pick", "rebase"}
  /\ c.kind = "file" /\ Flying(c) => Hier(c.node)
Cells == \A m \in Made : Has(m) \subseteq Has(cell[m])
LInv == /\ Cells /\ \A p \in Procs : Treed(call[p])
        /\ \A b \in Branches : Safe(b)

(* Nodes stay as they are, or only their history grows.                     *)
Faithful == /\ Made \subseteq Made'
            /\ \A m \in Made \cup {None, Absent} : Has(m)' = Has(m) /\ Hier(m)' = Hier(m)

LEMMA AncMade ==
  ASSUME NodeTypes, NEW h \in Made \cup {None, Absent}
  PROVE  Anc(h) \subseteq Made
BY NodeFacts, NoNode

LEMMA UnderStays ==
  ASSUME NodeTypes, Faithful, NEW h \in Made \cup {None, Absent}, Anc(h)' = Anc(h), NEW T,
         Under(h, T)
  PROVE  Under(h, T)'
BY AncMade DEF Under, Faithful

LEMMA GrownStays ==
  ASSUME NodeTypes, Faithful, NEW h \in Made \cup {None, Absent}, Anc(h)' = Anc(h), Grown(h)
  PROVE  Grown(h)'
BY AncMade DEF Grown, Under, Faithful

LEMMA CarriesStays ==
  ASSUME NodeTypes, Faithful, NEW h \in Made \cup {None, Absent}, Anc(h)' = Anc(h),
         NEW b \in Branches, Past(b)' \subseteq Past(b), Carries(b, h)
  PROVE  Carries(b, h)'
<1>1. Past(b) \subseteq Made
  BY DEF Past
<1>2. QED BY <1>1 DEF Carries, Faithful

LEMMA TreedStays ==
  ASSUME Types, Faithful, NEW q \in Procs, call'[q] = call[q], Treed(call[q])
  PROVE  Treed(call[q])'
<1>1. call[q].tree.of \in Made \cup {None} /\ call[q].node \in Made \cup {None}
  BY DEF Types, CallTypes, CallSet, TreeSet
<1>2. QED BY <1>1 DEF Treed, Faithful, Flying

LEMMA TipStays ==
  ASSUME IInv, Faithful, NEW b \in Branches, Tip(b), heads'[b] = heads[b],
         refCache'[b] \in {refCache[b], Resolve(b)}, Past(b)' \subseteq Past(b),
         \A m \in {heads[b], refCache[b]} : Anc(m)' = Anc(m)
  PROVE  Tip(b)'
<1>1. PICK h : h = heads[b]
  OBVIOUS
<1>2. PICK k : k = refCache[b]
  OBVIOUS
<1>3. h \in Made \cup {None, Absent} /\ k \in Made \cup {None} /\ NodeTypes
  BY <1>1, <1>2 DEF IInv, Types, RowTypes
<1>4. refCache'[b] = k \/ (k = None /\ refCache'[b] \in {h, None})
  BY <1>1, <1>2, ResolveFacts DEF IInv
<1>5. Anc(h)' = Anc(h) /\ Anc(k)' = Anc(k)
  BY <1>1, <1>2
<1>6. Grown(h)' /\ Carries(b, h)'
  BY <1>1, <1>3, <1>5, GrownStays, CarriesStays DEF Tip
<1>7. k # None => Grown(k)' /\ Anc(h)' \subseteq Anc(k)'
  BY <1>1, <1>2, <1>3, <1>5, GrownStays DEF Tip
<1>8. QED BY <1>1, <1>4, <1>6, <1>7 DEF Tip

(* A call that stays where it is, or pushes its node, keeps what it has.    *)
LEMMA CarriedStays ==
  ASSUME IInv, Faithful, NEW q \in Procs, NEW b \in Branches, b = call[q].branch, Carried(q),
         call'[q].branch = b, call'[q].kind = call[q].kind, call'[q].node = call[q].node,
         call'[q].tree = call[q].tree,
         call'[q].step = call[q].step \/ (call[q].step = "node" /\ call'[q].step = "head"),
         heads'[b] = heads[b], refCache'[b] \in {refCache[b], Resolve(b)}, Past(b)' \subseteq Past(b),
         \A m \in {heads[b], call[q].node} : Anc(m)' = Anc(m),
         Exists(b) /\ call[q].step = "land" /\ Pending(q) => Pending(q)',
         Intruded(b) => Intruded(b)'
  PROVE  Carried(q)'
<1>1. PICK h : h = heads[b]
  OBVIOUS
<1>2. PICK n : n = call[q].node
  OBVIOUS
<1>3. PICK T : T = call[q].tree.has
  OBVIOUS
<1>4. /\ h \in Made \cup {None, Absent} /\ n \in Made \cup {None} /\ NodeTypes
      /\ Shaped(call[q])
  BY <1>1, <1>2 DEF IInv, Types, RowTypes, CallTypes, CallSet
<1>5. Anc(h)' = Anc(h) /\ Anc(n)' = Anc(n) /\ Has(n)' = Has(n)
  BY <1>1, <1>2, <1>4 DEF Faithful
<1>6. Grown(n) => Grown(n)'
  BY <1>4, <1>5, GrownStays
<1>7. Carries(b, n) => Carries(b, n)'
  BY <1>4, <1>5, CarriesStays
<1>8. (Under(h, Has(n)) => Under(h, Has(n))') /\ (Under(h, T) => Under(h, T)')
  <2>1. PICK H : H = Has(n)
    OBVIOUS
  <2>2. Under(h, H) => Under(h, H)'
    BY <1>4, <1>5, UnderStays
  <2>3. QED BY <1>4, <1>5, <2>1, <2>2, UnderStays
<1>9. Writing(call'[q]) => /\ call'[q].kind # "squash" /\ Grown(n)' /\ Anc(h)' \subseteq Anc(n)'
                           /\ Carries(b, n)'
  BY <1>1, <1>2, <1>5, <1>6, <1>7 DEF Carried, Writing
<1>10. call'[q].step = "land" => /\ refCache'[b] = n
                                 /\ Exists(b)' => h = n \/ Pending(q)'
  <2>1. call'[q].step = "land" => call[q].step = "land" /\ refCache[b] = n /\ n # None
    BY <1>2, <1>4 DEF Carried, Shaped, Flying
  <2>2. call'[q].step = "land" => refCache'[b] = n
    BY <2>1, ResolveFacts DEF IInv
  <2>3. QED BY <1>1, <1>2, <2>1, <2>2 DEF Carried, Exists
<1>11. \/ Intruded(b)'
       \/ /\ call'[q].kind = "file" /\ call'[q].step = "read" => Grown(n)' /\ Under(h, Has(n))'
          /\ call'[q].kind = "file" /\ call'[q].step \in {"node", "head"} =>
               Grown(n)' /\ Anc(h)' \subseteq Anc(n)'
          /\ call'[q].kind = "merge" /\ call'[q].step = "wait" /\ call'[q].tree.hier => Under(h, T)'
  BY <1>1, <1>2, <1>3, <1>5, <1>6, <1>8 DEF Carried
<1>12. /\ heads'[call'[q].branch] = h /\ call'[q].node = n /\ call'[q].tree.has = T
       /\ call'[q].branch = b
  BY <1>1, <1>2, <1>3
<1>13. QED BY <1>9, <1>10, <1>11, <1>12 DEF Carried

(* A call with nothing in its hands has nothing to carry.                   *)
AtRest(c) ==
  /\ c.step \notin {"node", "head", "land"} /\ (c.kind = "file" => c.step # "read")
  /\ c.kind = "merge" /\ c.step = "wait" => ~c.tree.hier

LEMMA RestCarried ==
  ASSUME NEW p \in Procs, AtRest(call[p])'
  PROVE  Carried(p)'
BY DEF AtRest, Carried, Writing

LEMMA IntrudedStays ==
  ASSUME NEW b \in Branches, NEW p \in Procs, ~(Landing(p, b) /\ heads[b] = call[p].node),
         \A q \in Procs \ {p} : call'[q] = call[q], heads'[b] = heads[b], Intruded(b)
  PROVE  Intruded(b)'
<1>1. PICK r \in Procs : Landing(r, b) /\ heads[b] = call[r].node
  BY DEF Intruded
<1>2. r # p /\ call'[r] = call[r]
  BY <1>1
<1>3. Landing(r, b)'
  BY <1>1, <1>2 DEF Landing
<1>4. QED BY <1>1, <1>2, <1>3 DEF Intruded

(* A branch whose head does not move is as safe as the call that moved is;  *)
(* x is the one node whose history grows.                                   *)
LEMMA SafeStays ==
  ASSUME IInv, LInv, Faithful, NEW b \in Branches, NEW p \in Procs, NEW x,
         \A q \in Procs \ {p} : call'[q] = call[q],
         ~(Landing(p, b) /\ heads[b] = call[p].node), heads'[b] = heads[b],
         refCache'[b] \in {refCache[b], Resolve(b)}, Past(b)' \subseteq Past(b),
         lossy[b] \subseteq lossy'[b],
         \A m \in (Made \cup {None, Absent}) \ {x} : Anc(m)' = Anc(m),
         x \notin {heads[b], refCache[b]}, \A q \in Procs \ {p} : call[q].node # x,
         \A q \in Procs \ {p} :
           call[q].branch = b /\ Exists(b) /\ call[q].step = "land" /\ Pending(q) => Pending(q)',
         lossy'[b] = {} /\ call'[p].branch = b => Carried(p)'
  PROVE  Safe(b)'
<1> SUFFICES ASSUME lossy'[b] = {} PROVE Tip(b)' /\ \A q \in Procs : call'[q].branch = b => Carried(q)'
  BY DEF Safe
<1>1. Tip(b) /\ \A q \in Procs : call[q].branch = b => Carried(q)
  <2>1. lossy[b] = {} /\ Safe(b)
    BY DEF LInv
  <2>2. QED BY <2>1 DEF Safe
<1>2. heads[b] \in Made \cup {None, Absent} /\ refCache[b] \in Made \cup {None}
  BY DEF IInv, Types, RowTypes
<1>3. \A m \in {heads[b], refCache[b]} : Anc(m)' = Anc(m)
  BY <1>2
<1>4. Tip(b)'
  BY <1>1, <1>3, TipStays
<1>5. ASSUME NEW q \in Procs \ {p}, call'[q].branch = b PROVE Carried(q)'
  <2>1. call'[q] = call[q] /\ call[q].branch = b /\ call[q].node \in Made \cup {None} /\ Carried(q)
    BY <1>1, <1>5 DEF IInv, Types, CallTypes, CallSet
  <2>2. \A m \in {heads[b], call[q].node} : Anc(m)' = Anc(m)
    BY <1>2, <2>1
  <2>3. /\ call'[q].branch = b /\ call'[q].kind = call[q].kind /\ call'[q].node = call[q].node
        /\ call'[q].tree = call[q].tree /\ call'[q].step = call[q].step
        /\ (Exists(b) /\ call[q].step = "land" /\ Pending(q) => Pending(q)')
    BY <2>1
  <2>4. Intruded(b) => Intruded(b)'
    BY IntrudedStays
  <2>5. QED BY <2>1, <2>2, <2>3, <2>4, CarriedStays
<1>6. QED BY <1>4, <1>5

(* What a step that adds no node and moves no head has to show.             *)
LEMMA QuietKeeps ==
  ASSUME IInv, LInv, NEW p \in Procs, UNCHANGED <<nodes, cell, heads, acked>>,
         \A q \in Procs \ {p} : call'[q] = call[q], call[p].step # "land",
         \A b \in Branches : refCache'[b] \in {refCache[b], Resolve(b)} /\ lossy[b] \subseteq lossy'[b],
         \A q \in Procs \ {p} : call[q].step = "land" /\ Pending(q) => Pending(q)',
         Treed(call'[p]),
         \A b \in Branches : lossy'[b] = {} /\ call'[p].branch = b => Carried(p)'
  PROVE  LInv'
<1>1. Made' = Made /\ \A m : Anc(m)' = Anc(m) /\ Has(m)' = Has(m) /\ Hier(m)' = Hier(m)
  BY DEF Made, LastNode, Anc, Has, Hier
<1>2. Faithful
  BY <1>1 DEF Faithful
<1>3. Cells'
  BY <1>1 DEF LInv, Cells
<1>4. \A q \in Procs : Treed(call[q])'
  <2>1. Treed(call[p])'
    BY <1>1 DEF Treed
  <2>2. \A q \in Procs \ {p} : Treed(call[q])'
    BY <1>2, TreedStays DEF LInv, IInv
  <2>3. QED BY <2>1, <2>2
<1>5. \A b \in Branches : Safe(b)'
  <2>1. PICK x : x \notin Made \cup {None, Absent}
    BY MadeFacts DEF IInv, Types
  <2>2. ASSUME NEW b \in Branches PROVE Safe(b)'
    <3>1. heads[b] # x /\ refCache[b] # x /\ \A q \in Procs : call[q].node # x
      BY <2>1 DEF IInv, Types, RowTypes, CallTypes, CallSet
    <3>2. ~Landing(p, b)
      BY DEF Landing
    <3>3. Past(b)' = Past(b)
      BY <1>1 DEF Past
    <3>4. \A m \in (Made \cup {None, Absent}) \ {x} : Anc(m)' = Anc(m)
      BY <1>1
    <3>5. QED BY <1>2, <3>1, <3>2, <3>3, <3>4, SafeStays
  <2>3. QED BY <2>2
<1>6. QED BY <1>3, <1>4, <1>5 DEF LInv

(* What is pending of others stays in a shadow nobody touches.              *)
LEMMA PendingStays ==
  ASSUME NEW p \in Procs, \A q \in Procs \ {p} : call'[q] = call[q], shadow' = shadow
  PROVE  \A q \in Procs \ {p} : call[q].step = "land" /\ Pending(q) => Pending(q)'
BY DEF Pending, Op

(* Calls that start, end, or log.                                           *)
LEMMA RestKeeps ==
  ASSUME IInv, LInv, NEW p \in Procs, UNCHANGED <<nodes, cell, heads, acked, shadow>>,
         call[p].step # "land",
         \A b \in Branches : refCache'[b] \in {refCache[b], Resolve(b)} /\ lossy[b] \subseteq lossy'[b],
         NEW c, call' = [call EXCEPT ![p] = c], Treed(c), AtRest(c)
  PROVE  LInv'
<1>1. call'[p] = c /\ \A q \in Procs \ {p} : call'[q] = call[q]
  BY DEF IInv, Types, CallTypes
<1>2. Carried(p)'
  <2>1. AtRest(call[p])'
    BY <1>1 DEF AtRest
  <2>2. QED BY <2>1, RestCarried
<1>3. QED BY <1>1, <1>2, PendingStays, QuietKeeps

LEMMA IdleRests ==
  ASSUME IInv
  PROVE  AtRest(Idle) /\ Treed(Idle) /\ Idle.tree = Plain /\ ~Plain.hier /\ Plain.of = None
BY IdleFacts DEF Idle, AtRest, Treed, Plain, Flying

LEMMA TreeOfTreed ==
  ASSUME Types, NEW n
  PROVE  LET t == TreeOf(n) IN t.of # None => t.hier /\ t.has = Has(t.of)
BY DEF TreeOf, Plain

LEMMA StartCommitCarries ==
  ASSUME IInv, LInv, NEW p \in Procs, StartCommit(p)
  PROVE  LInv'
<1>1. PICK b \in Branches, kind \in {"commit", "file", "squash"}, step \in {"wait", "read"} :
        /\ Begin(p, kind, b, step) /\ (step = "read" => kind = "squash")
  BY DEF StartCommit
<1>2. PICK a \in IF kind \in CommitKinds THEN Authors ELSE {None} :
        call' = [call EXCEPT ![p] = [Idle EXCEPT !.kind = kind, !.branch = b, !.step = step,
                                                 !.author = a,
                                                 !.old = IF kind = "squash" THEN Resolve(b)
                                                         ELSE None]]
  BY <1>1 DEF Begin
<1>3. PICK c : c = [Idle EXCEPT !.kind = kind, !.branch = b, !.step = step, !.author = a,
                                !.old = IF kind = "squash" THEN Resolve(b) ELSE None]
  OBVIOUS
<1>4. c.kind = kind /\ c.step = step /\ c.tree = Plain
  BY <1>3, IdleFacts, IdleRests DEF IInv, CallSet
<1>5. AtRest(c) /\ Treed(c)
  BY <1>1, <1>4, IdleRests DEF AtRest, Treed, Flying
<1>6. /\ UNCHANGED <<nodes, cell, heads, acked, shadow, refCache, lossy>> /\ call[p].step = "idle"
  BY <1>1 DEF StartCommit, rows, caches, Begin, Starts, Busy
<1>7. QED BY <1>2, <1>3, <1>5, <1>6, RestKeeps

LEMMA StartPickCarries ==
  ASSUME IInv, LInv, NEW p \in Procs, StartPick(p)
  PROVE  LInv'
<1>1. PICK b \in Branches, n \in stored, a \in Authors :
        /\ Starts(p, "pick")
        /\ call' = [call EXCEPT ![p] =
             [Idle EXCEPT !.kind = "pick", !.branch = b, !.step = "wait", !.author = a,
                          !.tree = TreeOf(n)]]
  BY DEF StartPick
<1>2. PICK t : t = TreeOf(n)
  OBVIOUS
<1>3. PICK c : c = [Idle EXCEPT !.kind = "pick", !.branch = b, !.step = "wait", !.author = a,
                                !.tree = t]
  OBVIOUS
<1>4. c.kind = "pick" /\ c.step = "wait" /\ c.tree = t
  BY <1>3, IdleFacts DEF IInv, CallSet
<1>5. AtRest(c) /\ Treed(c)
  BY <1>2, <1>4, TreeOfTreed DEF AtRest, Treed, Flying, IInv
<1>6. /\ UNCHANGED <<nodes, cell, heads, acked, shadow, refCache, lossy>> /\ call[p].step = "idle"
  BY <1>1 DEF StartPick, rows, caches, Starts, Busy
<1>7. QED BY <1>1, <1>2, <1>3, <1>5, <1>6, RestKeeps

LEMMA StartRebaseCarries ==
  ASSUME IInv, LInv, NEW p \in Procs, StartRebase(p)
  PROVE  LInv'
<1>1. PICK b \in Branches, onto \in Branches, a \in Authors :
        /\ Starts(p, "rebase")
        /\ call' = [call EXCEPT ![p] =
             [Idle EXCEPT !.kind = "rebase", !.branch = b, !.step = "wait", !.author = a,
                          !.todo = Anc(Resolve(b)) \ Anc(Resolve(onto)), !.old = Resolve(b),
                          !.tree = TreeOf(Oldest(Anc(Resolve(b)) \ Anc(Resolve(onto))))]]
        /\ refCache' = [refCache EXCEPT ![b] = Resolve(b), ![onto] = Resolve(onto)]
  BY DEF StartRebase
<1>2. PICK todo : todo = Anc(Resolve(b)) \ Anc(Resolve(onto))
  OBVIOUS
<1>3. PICK t : t = TreeOf(Oldest(todo))
  OBVIOUS
<1>4. PICK c : c = [Idle EXCEPT !.kind = "rebase", !.branch = b, !.step = "wait", !.author = a,
                                !.todo = todo, !.old = Resolve(b), !.tree = t]
  OBVIOUS
<1>5. c.kind = "rebase" /\ c.step = "wait" /\ c.tree = t
  BY <1>4, IdleFacts DEF IInv, CallSet
<1>6. AtRest(c) /\ Treed(c)
  BY <1>3, <1>5, TreeOfTreed DEF AtRest, Treed, Flying, IInv
<1>7. call' = [call EXCEPT ![p] = c]
  BY <1>1, <1>2, <1>3, <1>4
<1>8. \A d \in Branches : refCache'[d] \in {refCache[d], Resolve(d)}
  BY <1>1 DEF IInv, Types, RowTypes
<1>9. /\ UNCHANGED <<nodes, cell, heads, acked, shadow, lossy>> /\ call[p].step = "idle"
  BY <1>1 DEF StartRebase, rows, Starts, Busy
<1>10. QED BY <1>6, <1>7, <1>8, <1>9, RestKeeps

LEMMA StartPopCarries ==
  ASSUME IInv, LInv, NEW p \in Procs, StartPop(p)
  PROVE  LInv'
<1>1. PICK b \in Branches : Begin(p, "pop", b, "wait")
  BY DEF StartPop
<1>2. PICK a \in Authors :
        call' = [call EXCEPT ![p] = [Idle EXCEPT !.kind = "pop", !.branch = b, !.step = "wait",
                                                 !.author = a, !.old = None]]
  BY <1>1 DEF Begin, CommitKinds
<1>3. PICK c : c = [Idle EXCEPT !.kind = "pop", !.branch = b, !.step = "wait", !.author = a,
                                !.old = None]
  OBVIOUS
<1>4. c.kind = "pop" /\ c.step = "wait" /\ c.tree = Plain
  BY <1>3, IdleFacts, IdleRests DEF IInv, CallSet
<1>5. AtRest(c) /\ Treed(c)
  BY <1>4, IdleRests DEF AtRest, Treed, Flying
<1>6. /\ UNCHANGED <<nodes, cell, heads, acked, shadow, refCache, lossy>> /\ call[p].step = "idle"
  BY <1>1 DEF StartPop, rows, caches, Begin, Starts, Busy
<1>7. QED BY <1>2, <1>3, <1>5, <1>6, RestKeeps

LEMMA GiveUpCarries ==
  ASSUME IInv, LInv, NEW p \in Procs, GiveUp(p)
  PROVE  LInv'
<1>1. /\ call' = [call EXCEPT ![p] = Idle] /\ call[p].step # "land"
      /\ UNCHANGED <<nodes, cell, heads, acked, shadow, refCache, lossy>>
  BY DEF GiveUp, rows, caches, history
<1>2. QED BY <1>1, IdleRests, RestKeeps

LEMMA DropStashCarries ==
  ASSUME IInv, LInv, NEW p \in Procs, DropStash(p)
  PROVE  LInv'
<1>1. /\ call' = [call EXCEPT ![p] = Idle] /\ call[p].step # "land"
      /\ UNCHANGED <<nodes, cell, heads, acked, shadow, refCache, lossy>>
  BY DEF DropStash, caches
<1>2. QED BY <1>1, IdleRests, RestKeeps

LEMMA SweepCarries ==
  ASSUME IInv, LInv, NEW p \in Procs, Sweep(p)
  PROVE  LInv'
<1>1. /\ call' = [call EXCEPT ![p] = Idle] /\ call[p].step # "land"
      /\ UNCHANGED <<nodes, cell, heads, acked, shadow, refCache, lossy>>
  BY DEF Sweep, caches
<1>2. QED BY <1>1, IdleRests, RestKeeps

LEMMA MarkCarries ==
  ASSUME IInv, LInv, NEW p \in Procs, Mark(p)
  PROVE  LInv'
<1>1. PICK seen : seen = UNION {Anc(n) : n \in RefRoots}
  OBVIOUS
<1>2. PICK c : c = [call[p] EXCEPT !.step = "sweep", !.seen = seen]
  OBVIOUS
<1>3. /\ call' = [call EXCEPT ![p] = c] /\ call[p].step = "mark"
      /\ UNCHANGED <<nodes, cell, heads, acked, shadow, refCache, lossy>>
  BY <1>1, <1>2 DEF Mark, rows, caches
<1>4. call[p] \in CallSet(Made) /\ call[p].kind = "gc" /\ Treed(call[p])
  BY <1>3 DEF IInv, LInv, Types, CallTypes, Shaped
<1>5. c.kind = "gc" /\ c.step = "sweep" /\ c.tree = call[p].tree
  BY <1>2, <1>4 DEF CallSet
<1>6. AtRest(c) /\ Treed(c)
  BY <1>4, <1>5 DEF AtRest, Treed
<1>7. QED BY <1>3, <1>6, RestKeeps

LEMMA MarkFailsCarries ==
  ASSUME IInv, LInv, NEW p \in Procs, MarkFails(p)
  PROVE  LInv'
<1>1. /\ call' = [call EXCEPT ![p] = Idle] /\ call[p].step # "land"
      /\ UNCHANGED <<nodes, cell, heads, acked, shadow, refCache, lossy>>
  BY DEF MarkFails, rows, caches
<1>2. QED BY <1>1, IdleRests, RestKeeps

LEMMA LogCarries ==
  ASSUME IInv, LInv, NEW p \in Procs, Log(p)
  PROVE  LInv'
<1>1. PICK rest : rest = call[p].todo \ {Oldest(call[p].todo)}
  OBVIOUS
<1>2. PICK t : t = TreeOf(Oldest(rest))
  OBVIOUS
<1>3. /\ call[p] \in CallSet(Made) /\ Shaped(call[p]) /\ call[p].step = "log" /\ Treed(call[p])
      /\ call[p].kind \in CommitKinds
  BY CallFacts DEF IInv, LInv, Types, Log, Shaped
<1>4. UNCHANGED <<nodes, cell, heads, acked, shadow, refCache, lossy>>
  BY DEF Log, caches, history
<1>5. ASSUME call[p].kind = "pop", call' = [call EXCEPT ![p] = [call[p] EXCEPT !.step = "drop"]]
      PROVE  LInv'
  <2>1. PICK c : c = [call[p] EXCEPT !.step = "drop"]
    OBVIOUS
  <2>2. c.kind = "pop" /\ c.step = "drop" /\ c.tree = call[p].tree
    BY <1>3, <1>5, <2>1 DEF CallSet
  <2>3. AtRest(c) /\ Treed(c)
    BY <1>3, <1>5, <2>2 DEF AtRest, Treed
  <2>4. QED BY <1>3, <1>4, <1>5, <2>1, <2>3, RestKeeps
<1>6. ASSUME call[p].kind = "rebase",
             call' = [call EXCEPT ![p] = [call[p] EXCEPT !.todo = rest, !.step = "wait", !.tree = t]]
      PROVE  LInv'
  <2>1. PICK c : c = [call[p] EXCEPT !.todo = rest, !.step = "wait", !.tree = t]
    OBVIOUS
  <2>2. c.kind = "rebase" /\ c.step = "wait" /\ c.tree = t
    BY <1>3, <1>6, <2>1 DEF CallSet
  <2>3. AtRest(c) /\ Treed(c)
    BY <1>2, <2>2, TreeOfTreed DEF AtRest, Treed, IInv
  <2>4. QED BY <1>3, <1>4, <1>6, <2>1, <2>3, RestKeeps
<1>7. CASE call' = [call EXCEPT ![p] = Idle]
  BY <1>3, <1>4, <1>7, IdleRests, RestKeeps
<1>8. QED BY <1>1, <1>2, <1>5, <1>6, <1>7 DEF Log, Goto

LEMMA StashCarries ==
  ASSUME IInv, LInv, NEW p \in Procs, Stash(p)
  PROVE  LInv'
<1>1. PICK b \in Branches : refCache' = Cached(b)
  BY DEF Stash
<1>2. UNCHANGED <<nodes, cell, heads, acked, shadow, lossy, call>> /\ call[p].step = "idle"
  BY DEF Stash, Starts, Busy
<1>3. \A d \in Branches : refCache'[d] \in {refCache[d], Resolve(d)}
  BY <1>1, CachedFacts DEF IInv
<1>4. call[p] = Idle /\ call' = [call EXCEPT ![p] = Idle]
  BY <1>2 DEF IInv, Types, CallTypes, Shaped
<1>5. QED BY <1>2, <1>3, <1>4, IdleRests, RestKeeps

(* An operation pushed by one call leaves those of others.                  *)
LEMMA PushedPending ==
  ASSUME IInv, NEW p \in Procs, \A q \in Procs \ {p} : call'[q] = call[q],
         NEW a \in Authors, NEW o \in OpSet(Made), shadow' = [shadow EXCEPT ![a] = Append(@, o)]
  PROVE  \A q \in Procs \ {p} : call[q].step = "land" /\ Pending(q) => Pending(q)'
<1> SUFFICES ASSUME NEW q \in Procs \ {p}, call[q].step = "land", Pending(q) PROVE Pending(q)'
  OBVIOUS
<1>1. call[q].author \in Authors /\ Op(q, TRUE)' = Op(q, TRUE) /\ call'[q] = call[q]
  BY DEF IInv, Types, CallTypes, Shaped, Op
<1>2. shadow \in [Authors -> Seq(OpSet(Made))] /\ shadow[a] \in Seq(OpSet(Made))
  BY DEF IInv, Types, ShadowTypes
<1>3. \A i \in DOMAIN shadow[a] : i \in DOMAIN Append(shadow[a], o)
                                  /\ Append(shadow[a], o)[i] = shadow[a][i]
  BY <1>2
<1>4. \A d \in Authors : \A i \in DOMAIN shadow[d] : i \in DOMAIN shadow'[d]
                                                     /\ shadow'[d][i] = shadow[d][i]
  BY <1>2, <1>3
<1>5. PICK d \in Authors : d = call[q].author
  BY <1>1
<1>6. PICK i \in DOMAIN shadow[d] : shadow[d][i] = Op(q, TRUE)
  BY <1>5 DEF Pending
<1>7. i \in DOMAIN shadow'[d] /\ shadow'[d][i] = Op(q, TRUE)
  BY <1>4, <1>6
<1>8. QED BY <1>1, <1>5, <1>7 DEF Pending

LEMMA PushNodeCarries ==
  ASSUME IInv, LInv, NEW p \in Procs, PushNode(p)
  PROVE  LInv'
<1>1. PICK c : c = [call[p] EXCEPT !.step = "head"]
  OBVIOUS
<1>2. /\ call[p] \in CallSet(Made) /\ Shaped(call[p]) /\ call[p].step = "node" /\ Treed(call[p])
      /\ call' = [call EXCEPT ![p] = c]
      /\ UNCHANGED <<nodes, cell, heads, acked, refCache, lossy>>
  BY <1>1, CallFacts DEF IInv, LInv, Types, PushNode, Goto, caches, history
<1>3. /\ c.step = "head" /\ c.kind = call[p].kind /\ c.node = call[p].node
      /\ c.branch = call[p].branch /\ c.tree = call[p].tree
  BY <1>1, <1>2 DEF CallSet
<1>4. call'[p] = c /\ \A q \in Procs \ {p} : call'[q] = call[q]
  BY <1>2 DEF IInv, Types, CallTypes
<1>5. \A q \in Procs \ {p} : call[q].step = "land" /\ Pending(q) => Pending(q)'
  <2>1. CASE call[p].kind = "file"
    BY <1>4, <2>1, PendingStays DEF PushNode
  <2>2. CASE call[p].kind # "file"
    <3>1. PICK a \in Authors : a = call[p].author
      BY <1>2, <2>2 DEF Shaped
    <3>2. PICK o : o = Op(p, FALSE)
      OBVIOUS
    <3>3. o \in OpSet(Made)
      BY <1>2, <3>2, MadeFacts DEF Op, OpSet, CallSet, Shaped, Flying
    <3>4. shadow' = [shadow EXCEPT ![a] = Append(@, o)]
      BY <2>2, <3>1, <3>2 DEF PushNode
    <3>5. QED BY <1>4, <3>3, <3>4, PushedPending
  <2>3. QED BY <2>1, <2>2
<1>6. Treed(c)
  BY <1>2, <1>3 DEF Treed, Flying
<1>7. ASSUME NEW b \in Branches, lossy'[b] = {}, call'[p].branch = b PROVE Carried(p)'
  <2>1. b = call[p].branch /\ Carried(p)
    BY <1>2, <1>3, <1>4, <1>7 DEF LInv, Safe
  <2>2. Faithful /\ \A m : Anc(m)' = Anc(m)
    BY <1>2 DEF Faithful, Made, LastNode, Has, Hier, Anc
  <2>3. Past(b)' = Past(b)
    BY <1>2 DEF Past, Made, LastNode
  <2>4. Intruded(b) => Intruded(b)'
    <3>1. ~Landing(p, b)
      BY <1>2 DEF Landing
    <3>2. QED BY <1>2, <1>4, <3>1, IntrudedStays
  <2>5. QED BY <1>2, <1>3, <1>4, <2>1, <2>2, <2>3, <2>4, CarriedStays
<1>8. call[p].step # "land"
  BY <1>2
<1>9. QED BY <1>2, <1>4, <1>5, <1>6, <1>7, <1>8, QuietKeeps

(* What the cache answers is no less than the head.                         *)
LEMMA ResolveTip ==
  ASSUME IInv, NEW b \in Branches, Tip(b)
  PROVE  /\ Grown(Resolve(b)) /\ Anc(heads[b]) \subseteq Anc(Resolve(b))
         /\ Resolve(b) \in Made \cup {None}
<1>1. heads[b] \in Made \cup {None, Absent} /\ Made \subseteq Node /\ NodeTypes
  BY MadeFacts DEF IInv, Types, RowTypes
<1>2. CASE refCache[b] # None
  BY <1>2, ResolveFacts DEF Tip, IInv
<1>3. CASE refCache[b] = None /\ heads[b] \in Made
  BY <1>3, ResolveFacts DEF Tip, IInv
<1>4. CASE refCache[b] = None /\ heads[b] \in {None, Absent}
  <2>1. Anc(heads[b]) = {} /\ ~Hier(None) /\ ~Hier(Absent)
    BY <1>1, <1>4, NoNode
  <2>2. Resolve(b) = None
    BY <1>1, <1>4, MadeFacts DEF Resolve
  <2>3. QED BY <2>1, <2>2 DEF Grown
<1>5. QED BY <1>1, <1>2, <1>3, <1>4

(* A merged tree shows all that the target's does.                          *)
LEMMA MergedCovers ==
  ASSUME IInv, LInv, NEW m \in Made, NEW n \in Made, NEW base \in LCA(m, n),
         Hier(m), Hier(n), Hier(base), Grown(m), Grown(n)
  PROVE  LET t == Merged(m, n, base) IN
         /\ Has(n) \subseteq t.has
         /\ t.of # None => t.hier /\ t.has = Has(t.of)
<1>1. base \in Anc(m) /\ base # None
  <2>1. base # None
    BY NoNode DEF IInv, Types
  <2>2. QED BY <2>1 DEF LCA, CommonAncestors
<1>2. CASE Has(m) \in {Has(n), Has(base)}
  BY <1>2 DEF Merged, TreeOf
<1>3. CASE Has(m) \notin {Has(n), Has(base)} /\ Has(n) = Has(base)
  <2>1. Has(base) \subseteq Has(m)
    BY <1>1 DEF Grown, Under
  <2>2. QED BY <1>3, <2>1 DEF Merged, TreeOf
<1>4. CASE Has(m) \notin {Has(n), Has(base)} /\ Has(n) # Has(base)
  <2>1. Has(n) \subseteq Shown(n)
    BY DEF Shown, LInv, Cells
  <2>2. QED BY <1>4, <2>1 DEF Merged
<1>5. QED BY <1>2, <1>3, <1>4

LEMMA StartMergeCarries ==
  ASSUME IInv, LInv, NEW p \in Procs, StartMerge(p)
  PROVE  LInv'
<1>1. PICK s \in Branches, t \in Branches, a \in Authors :
        /\ Resolve(s) # None /\ Resolve(t) # None
        /\ Starts(p, "merge")
        /\ \E base \in LCA(Resolve(s), Resolve(t)) :
             call' = [call EXCEPT ![p] =
               [Idle EXCEPT !.kind = "merge", !.branch = t, !.step = "wait", !.author = a,
                            !.old = Resolve(t),
                            !.tree = IF Hier(Resolve(s)) /\ Hier(Resolve(t)) /\ Hier(base)
                                     THEN Merged(Resolve(s), Resolve(t), base) ELSE Plain]]
        /\ refCache' = [refCache EXCEPT ![s] = Resolve(s), ![t] = Resolve(t)]
        /\ lossy' = [lossy EXCEPT ![t] = @ \cup lossy[s]]
  BY DEF StartMerge
<1>2. PICK m, n : m = Resolve(s) /\ n = Resolve(t)
  OBVIOUS
<1>3. m \in Made /\ n \in Made
  BY <1>1, <1>2, ResolveFacts DEF IInv
<1>4. PICK base \in LCA(m, n) :
        call' = [call EXCEPT ![p] =
          [Idle EXCEPT !.kind = "merge", !.branch = t, !.step = "wait", !.author = a,
                       !.old = n,
                       !.tree = IF Hier(m) /\ Hier(n) /\ Hier(base)
                                THEN Merged(m, n, base) ELSE Plain]]
  BY <1>1, <1>2
<1>5. PICK T : T = IF Hier(m) /\ Hier(n) /\ Hier(base) THEN Merged(m, n, base) ELSE Plain
  OBVIOUS
<1>6. PICK c : c = [Idle EXCEPT !.kind = "merge", !.branch = t, !.step = "wait", !.author = a,
                                !.old = n, !.tree = T]
  OBVIOUS
<1>7. c.kind = "merge" /\ c.step = "wait" /\ c.tree = T /\ c.branch = t /\ c.node = None
  BY <1>6, IdleFacts DEF IInv, CallSet
<1>8. call'[p] = c /\ \A q \in Procs \ {p} : call'[q] = call[q]
  BY <1>4, <1>5, <1>6 DEF IInv, Types, CallTypes
<1>9. UNCHANGED <<nodes, cell, heads, acked, shadow>> /\ call[p].step = "idle"
  BY <1>1 DEF StartMerge, rows, Starts, Busy
<1>10. \A b \in Branches : refCache'[b] \in {refCache[b], Resolve(b)} /\ lossy[b] \subseteq lossy'[b]
  BY <1>1 DEF IInv, Types, RowTypes, HistoryTypes
<1>11. T.of # None => T.hier /\ T.has = Has(T.of)
  <2>1. CASE Hier(m) /\ Hier(n) /\ Hier(base)
    <3>1. T = Merged(m, n, base)
      BY <1>5, <2>1
    <3>2. QED BY <3>1, TreeOfTreed DEF Merged, IInv
  <2>2. CASE ~(Hier(m) /\ Hier(n) /\ Hier(base))
    BY <1>5, <2>2, IdleRests
  <2>3. QED BY <2>1, <2>2
<1>12. Treed(c)
  BY <1>7, <1>11 DEF Treed, Flying
<1>13. ASSUME NEW b \in Branches, lossy'[b] = {}, call'[p].branch = b PROVE Carried(p)'
  <2>1. b = t /\ lossy[t] = {} /\ lossy[s] = {}
    BY <1>1, <1>7, <1>8, <1>13 DEF IInv, Types, HistoryTypes
  <2>2. Tip(s) /\ Tip(t)
    BY <2>1 DEF LInv, Safe
  <2>3. Grown(m) /\ Grown(n) /\ Anc(heads[t]) \subseteq Anc(n)
    BY <1>2, <2>2, ResolveTip
  <2>4. T.hier => Hier(m) /\ Hier(n) /\ Hier(base) /\ T = Merged(m, n, base)
    BY <1>5, IdleRests
  <2>5. T.hier => Under(heads[t], T.has)
    BY <1>3, <2>3, <2>4, MergedCovers DEF Grown, Under
  <2>6. PICK h : h = heads[t]
    OBVIOUS
  <2>7. T.hier => Under(h, T.has)'
    BY <1>9, <2>5, <2>6 DEF Under, Anc, Has
  <2>8. heads'[call'[p].branch] = h /\ call'[p] = c
    BY <1>7, <1>8, <1>9, <2>6
  <2>9. QED BY <1>7, <2>7, <2>8 DEF Carried, Writing
<1>14. \A q \in Procs \ {p} : call[q].step = "land" /\ Pending(q) => Pending(q)'
  BY <1>8, <1>9, PendingStays
<1>15. Treed(call'[p]) /\ call[p].step # "land"
  BY <1>8, <1>9, <1>12
<1>16. QED BY <1>8, <1>9, <1>10, <1>13, <1>14, <1>15, QuietKeeps

LEMMA BuildTreeCarries ==
  ASSUME IInv, LInv, NEW p \in Procs, BuildTree(p)
  PROVE  LInv'
<1>1. PICK b \in Branches : b = call[p].branch
  BY DEF IInv, Types, CallTypes, CallSet
<1>2. PICK root \in Made \cup {None} : root = Resolve(b)
  BY ResolveFacts DEF IInv
<1>3. PICK n \in Nat : n = LastNode + 1
  BY MadeFacts DEF IInv, Types
<1>4. PICK has : has = (IF Hier(root) THEN Shown(root) ELSE {}) \cup {n}
  OBVIOUS
<1>5. PICK r : r = [anc |-> {n}, hier |-> TRUE, has |-> has]
  OBVIOUS
<1>6. PICK c : c = [call[p] EXCEPT !.node = n, !.step = "read"]
  OBVIOUS
<1>7. /\ call[p].kind = "file" /\ call[p].step = "wait" /\ LastNode < MaxNodes
      /\ cell' = [m \in 1 .. n |-> IF m = n \/ (Hier(root) /\ cell[m] = cell[root])
                                   THEN n ELSE cell[m]]
      /\ nodes' = Append(nodes, r)
      /\ lossy' = [lossy EXCEPT ![b] = @ \cup IF root # None /\ ~ Hier(root) THEN {"mixed"} ELSE {}]
      /\ call' = [call EXCEPT ![p] = c] /\ refCache' = Cached(b)
      /\ UNCHANGED <<heads, shadow, acked>>
  BY <1>1, <1>2, <1>3, <1>4, <1>5, <1>6 DEF BuildTree
<1>8. Hier(root) => root \in Made /\ cell[root] \in Made /\ Shown(root) = Has(cell[root])
                    /\ Has(root) \subseteq Shown(root)
  BY NodeFacts, NoNode DEF Shown, LInv, Cells, IInv, Types
<1>9. r \in NodeSet(Made \cup {n}) /\ n \in r.anc
  <2>1. Hier(root) => Shown(root) \subseteq Made
    BY <1>8, NodeFacts DEF IInv, Types
  <2>2. has \subseteq Made \cup {n}
    BY <1>4, <2>1
  <2>3. QED BY <1>5, <2>2 DEF NodeSet
<1>10. /\ n \notin Made /\ Made' = Made \cup {n} /\ Made' = 1 .. n
       /\ \A m \in Made \cup {None, Absent} :
            Anc(m)' = Anc(m) /\ Has(m)' = Has(m) /\ Hier(m)' = Hier(m)
       /\ Has(n)' = has /\ Hier(n)' /\ Anc(n)' = {n}
  <2>1. r.has = has /\ r.hier = TRUE
    BY <1>5
  <2>2. QED BY <1>3, <1>5, <1>7, <1>9, <2>1, Appended DEF IInv, Types
<1>11. Faithful
  BY <1>10 DEF Faithful
<1>12. /\ call[p] \in CallSet(Made) /\ Treed(call[p])
       /\ c.step = "read" /\ c.kind = "file" /\ c.node = n /\ c.branch = b /\ c.tree = call[p].tree
  <2>1. call[p] \in CallSet(Made) /\ Treed(call[p])
    BY DEF IInv, LInv, Types, CallTypes
  <2>2. QED BY <1>1, <1>6, <1>7, <2>1 DEF CallSet
<1>13. call'[p] = c /\ \A q \in Procs \ {p} : call'[q] = call[q]
  BY <1>7 DEF IInv, Types, CallTypes
<1>14. Cells'
  <2>1. ASSUME NEW m \in Made PROVE Has(m)' \subseteq Has(cell[m])'
    <3>1. PICK k \in Made : k = cell[m]
      BY NodeFacts DEF IInv, Types
    <3>2. Has(m)' = Has(m) /\ Has(k)' = Has(k) /\ Has(m) \subseteq Has(k)
      BY <1>10, <3>1 DEF LInv, Cells
    <3>3. CASE Hier(root) /\ cell[m] = cell[root]
      <4>1. cell'[m] = n
        BY <1>7, <1>10, <3>3
      <4>2. Has(m) \subseteq has
        BY <1>4, <1>8, <3>1, <3>2, <3>3
      <4>3. QED BY <1>10, <3>2, <4>1, <4>2
    <3>4. CASE ~(Hier(root) /\ cell[m] = cell[root])
      <4>1. cell'[m] = k
        BY <1>7, <1>10, <3>1, <3>4
      <4>2. QED BY <3>2, <4>1
    <3>5. QED BY <3>3, <3>4
  <2>2. cell'[n] = n
    BY <1>7, <1>10
  <2>3. QED BY <1>10, <2>1, <2>2 DEF Cells
<1>15. \A q \in Procs : Treed(call[q])'
  <2>1. Treed(call[p])'
    <3>1. ~c.tree.hier /\ c.tree.of = None
      BY <1>7, <1>12 DEF Treed
    <3>2. QED BY <1>10, <1>12, <1>13, <3>1 DEF Treed
  <2>2. \A q \in Procs \ {p} : Treed(call[q])'
    BY <1>11, <1>13, TreedStays DEF IInv, LInv
  <2>3. QED BY <2>1, <2>2
<1>16. ASSUME lossy'[b] = {} PROVE Carried(p)'
  <2>1. lossy[b] = {} /\ (root = None \/ Hier(root))
    BY <1>7, <1>16 DEF IInv, Types, HistoryTypes
  <2>2. Tip(b)
    BY <2>1 DEF LInv, Safe
  <2>3. Grown(root) /\ Anc(heads[b]) \subseteq Anc(root)
    BY <1>2, <2>2, ResolveTip
  <2>4. Under(heads[b], has)
    <3>1. CASE root = None
      BY <2>3, <3>1, NoNode DEF Under, IInv, Types
    <3>2. CASE Hier(root)
      BY <1>4, <1>8, <2>3, <3>2 DEF Under, Grown
    <3>3. QED BY <2>1, <3>1, <3>2
  <2>5. PICK h \in Made \cup {None, Absent} : h = heads[b]
    BY DEF IInv, Types, RowTypes
  <2>6. Under(h, has)'
    BY <1>10, <1>11, <2>4, <2>5, UnderStays DEF IInv, Types
  <2>7. call'[p] = c /\ heads'[c.branch] = h /\ Has(c.node)' = has
    BY <1>7, <1>10, <1>12, <1>13, <2>5
  <2>8. Grown(n)'
    BY <1>10 DEF Grown, Under
  <2>9. QED BY <1>12, <2>6, <2>7, <2>8 DEF Carried, Writing, CommitKinds
<1>17. ASSUME NEW d \in Branches PROVE Safe(d)'
  <2>1. heads[d] \in Made \cup {None, Absent} /\ refCache[d] \in Made \cup {None}
        /\ \A q \in Procs : call[q].node \in Made \cup {None}
    BY DEF IInv, Types, RowTypes, CallTypes, CallSet
  <2>2. n # None /\ n # Absent
    BY <1>3, MadeFacts DEF None, Absent, IInv, Types
  <2>3. n \notin {heads[d], refCache[d]} /\ \A q \in Procs : call[q].node # n
    BY <1>10, <2>1, <2>2
  <2>4. ~Landing(p, d) /\ heads'[d] = heads[d] /\ refCache'[d] \in {refCache[d], Resolve(d)}
    BY <1>7, CachedFacts DEF Landing, IInv
  <2>5. Past(d)' \subseteq Past(d)
    BY <1>7, <1>10 DEF Past, IInv, Types, HistoryTypes
  <2>6. lossy[d] \subseteq lossy'[d]
    BY <1>7 DEF IInv, Types, HistoryTypes
  <2>7. \A q \in Procs \ {p} : call[q].step = "land" /\ Pending(q) => Pending(q)'
    BY <1>7, <1>13, PendingStays
  <2>8. lossy'[d] = {} /\ call'[p].branch = d => Carried(p)'
    BY <1>12, <1>13, <1>16
  <2>9. QED BY <1>10, <1>11, <1>13, <2>3, <2>4, <2>5, <2>6, <2>7, <2>8, SafeStays
<1>18. QED BY <1>14, <1>15, <1>17 DEF LInv

LEMMA ReadHeadOfFileCarries ==
  ASSUME IInv, LInv, NEW p \in Procs, ReadHead(p), call[p].kind = "file"
  PROVE  LInv'
<1>1. call[p] \in CallSet(Made) /\ Shaped(call[p]) /\ Treed(call[p]) /\ call[p].step = "read"
      /\ Secret(p)
  BY CallFacts DEF IInv, LInv, Types, Resolving, ReadHead, CommitKinds
<1>2. PICK n \in Made : n = call[p].node
  BY <1>1 DEF Shaped, Flying, CallSet
<1>3. PICK b \in Branches : b = call[p].branch
  BY <1>1 DEF CallSet
<1>4. PICK h \in Made \cup {None, Absent} : h = heads[b]
  BY DEF IInv, Types, RowTypes
<1>5. PICK c : c = [call[p] EXCEPT !.step = "node"]
  OBVIOUS
<1>6. /\ nodes' = [nodes EXCEPT ![n].anc = @ \cup Anc(h)]
      /\ lossy' = [lossy EXCEPT ![b] = @ \cup {}]
      /\ call' = [call EXCEPT ![p] = c]
      /\ UNCHANGED <<cell, heads, shadow, refCache, acked>>
  BY <1>2, <1>3, <1>4, <1>5 DEF ReadHead, VisibleHead, CommitKinds, Goto
<1>7. Anc(h) \subseteq Made
  BY AncMade DEF IInv, Types
<1>8. /\ Made' = Made /\ Anc(n)' = Anc(n) \cup Anc(h)
      /\ \A m \in Made \cup {None, Absent} : m # n => Anc(m)' = Anc(m)
      /\ \A m \in Made \cup {None, Absent} : Hier(m)' = Hier(m) /\ Has(m)' = Has(m)
  BY <1>6, <1>7, Parented DEF IInv, Types
<1>9. Faithful /\ lossy' = lossy
  BY <1>6, <1>8 DEF Faithful, IInv, Types, HistoryTypes
<1>10. /\ c.step = "node" /\ c.kind = "file" /\ c.node = n /\ c.branch = b /\ c.tree = call[p].tree
  BY <1>1, <1>2, <1>3, <1>5 DEF CallSet
<1>11. call'[p] = c /\ \A q \in Procs \ {p} : call'[q] = call[q]
  BY <1>6 DEF IInv, Types, CallTypes
<1>12. Cells'
  BY <1>6, <1>8, NodeFacts DEF IInv, LInv, Types, Cells
<1>13. \A q \in Procs : Treed(call[q])'
  <2>1. ~c.tree.hier /\ c.tree.of = None /\ Hier(n)
    BY <1>1, <1>2, <1>10 DEF Treed, Flying
  <2>2. Treed(call[p])'
    BY <1>8, <1>10, <1>11, <2>1 DEF Treed
  <2>3. \A q \in Procs \ {p} : Treed(call[q])'
    BY <1>9, <1>11, TreedStays DEF IInv, LInv
  <2>4. QED BY <2>2, <2>3
<1>14. ~Landing(p, b)
  BY <1>1 DEF Landing
<1>15. n # h /\ \A d \in Branches : n # heads[d] /\ n # refCache[d]
  BY <1>1, <1>2, <1>4 DEF Secret, Named
<1>16. ASSUME lossy'[b] = {} PROVE Carried(p)'
  <2>1. Carried(p)
    BY <1>3, <1>9, <1>16 DEF LInv, Safe
  <2>2. CASE Intruded(b)
    <3>1. Intruded(b)'
      BY <1>6, <1>11, <1>14, <2>2, IntrudedStays
    <3>2. QED BY <1>10, <1>11, <3>1 DEF Carried, Writing, CommitKinds
  <2>3. CASE ~Intruded(b)
    <3>1. Grown(n) /\ Under(h, Has(n))
      BY <1>1, <1>2, <1>3, <1>4, <2>1, <2>3 DEF Carried
    <3>2. Grown(n)'
      <4>1. ASSUME Hier(n)', NEW l \in Anc(n)' PROVE Has(l)' \subseteq Has(n)'
        <5>1. l \in Made
          BY <1>7, <1>8, <4>1, AncMade DEF IInv, Types
        <5>2. Has(l) \subseteq Has(n)
          BY <1>8, <3>1, <4>1 DEF Grown, Under
        <5>3. QED BY <1>8, <5>1, <5>2
      <4>2. QED BY <4>1 DEF Grown, Under
    <3>3. Anc(h)' \subseteq Anc(n)'
      BY <1>8, <1>15
    <3>4. heads'[c.branch] = h
      BY <1>4, <1>6, <1>10
    <3>5. QED BY <1>10, <1>11, <3>2, <3>3, <3>4 DEF Carried, Writing, CommitKinds
  <2>4. QED BY <2>2, <2>3
<1>17. ASSUME NEW d \in Branches PROVE Safe(d)'
  <2>1. \A q \in Procs \ {p} : call[q].node # n
    BY <1>1, <1>2 DEF Secret
  <2>2. ~Landing(p, d) /\ heads'[d] = heads[d] /\ refCache'[d] \in {refCache[d], Resolve(d)}
    BY <1>1, <1>6 DEF Landing
  <2>3. Past(d)' \subseteq Past(d) /\ lossy[d] \subseteq lossy'[d]
    BY <1>6, <1>8, <1>9 DEF Past
  <2>4. \A q \in Procs \ {p} : call[q].step = "land" /\ Pending(q) => Pending(q)'
    BY <1>6, <1>11, PendingStays
  <2>5. lossy'[d] = {} /\ call'[p].branch = d => Carried(p)'
    BY <1>10, <1>11, <1>16
  <2>6. n \notin {heads[d], refCache[d]}
    BY <1>15
  <2>7. \A m \in (Made \cup {None, Absent}) \ {n} : Anc(m)' = Anc(m)
    BY <1>8
  <2>8. QED BY <1>9, <1>11, <2>1, <2>2, <2>3, <2>4, <2>5, <2>6, <2>7, SafeStays
<1>18. QED BY <1>12, <1>13, <1>17 DEF LInv

(* Where nothing is lost, what is at the head of a branch holds its mutex.  *)
LEMMA Holding ==
  ASSUME IInv, LInv, NEW b \in Branches, lossy[b] = {}, NEW r \in Procs,
         call[r].branch = b, Writing(call[r])
  PROVE  InSection(r) /\ Family(r) = "commit" /\ Carried(r)
<1>1. Carried(r)
  BY DEF LInv, Safe
<1>2. call[r].kind # "squash" /\ call[r].kind \in CommitKinds
  BY <1>1 DEF Carried, Writing
<1>3. QED BY <1>1, <1>2 DEF Writing, InSection, Family

LEMMA LandingWrites ==
  ASSUME IInv, NEW b \in Branches, NEW r \in Procs, Landing(r, b)
  PROVE  call[r].branch = b /\ Writing(call[r]) /\ call[r].step = "land"
BY CallFacts DEF IInv, Types, Landing, Shaped, Writing

LEMMA Unlanded ==
  ASSUME IInv, NEW a \in Authors, NEW b \in Branches, \A r \in Procs : ~Landing(r, b)
  PROVE  Landed(heads, shadow[a])[b] = heads[b] /\ HeadOps(shadow[a], b) = {}
<1>1. HeadOps(shadow[a], b) = {}
  <2>1. ASSUME NEW i \in HeadOps(shadow[a], b) PROVE FALSE
    <3>1. i \in DOMAIN shadow[a] /\ shadow[a][i].head /\ shadow[a][i].branch = b
      BY DEF HeadOps
    <3>2. FromCall(shadow[a][i], a) /\ shadow[a][i].by \in Procs
      BY <3>1, OpWhole DEF IInv, Types, ShadowTypes
    <3>3. Landing(shadow[a][i].by, b)
      BY <3>1, <3>2 DEF FromCall, Landing
    <3>4. QED BY <3>2, <3>3
  <2>2. QED BY <2>1
<1>2. QED BY <1>1 DEF Landed

LEMMA ShownCovers ==
  ASSUME IInv, LInv, NEW h \in Made \cup {None, Absent}
  PROVE  Has(h) \subseteq Shown(h)
BY MadeFacts DEF Shown, LInv, Cells, IInv, Types, Hier

(* The commit whose parent is the head carries what the head does.          *)
LEMMA ReadCarries ==
  ASSUME IInv, LInv, NEW b \in Branches, NEW h \in Made \cup {None, Absent}, h = heads[b],
         Tip(b), NEW n, NEW hier \in BOOLEAN, NEW has, Faithful,
         \A m \in Made \cup {None, Absent} : Anc(m)' = Anc(m),
         Anc(n)' = Anc(h) \cup {n}, Has(n)' = has, Hier(n)' = hier, Past(b)' \subseteq Past(b),
         hier => Under(h, has), ~hier => has = Shown(h)
  PROVE  Grown(n)' /\ Anc(h)' \subseteq Anc(n)' /\ Carries(b, n)'
<1>1. Anc(h) \subseteq Made /\ Anc(h)' = Anc(h)
  BY AncMade DEF IInv, Types
<1>2. \A l \in Anc(h) : Has(l)' = Has(l)
  BY <1>1 DEF Faithful
<1>3. ASSUME hier, NEW l \in Anc(n)' PROVE Has(l)' \subseteq Has(n)'
  <2>1. CASE l = n
    BY <2>1
  <2>2. CASE l \in Anc(h)
    BY <1>2, <1>3, <2>2 DEF Under
  <2>3. QED BY <2>1, <2>2
<1>4. Grown(n)'
  BY <1>3 DEF Grown, Under
<1>5. ASSUME NEW m \in Past(b) PROVE m \in Anc(n)' /\ (m \in Has(m)' => m \in Has(n)')
  <2>1. m \in Anc(h) /\ (m \in Has(m) => m \in Has(h)) /\ Has(m)' = Has(m)
    BY <1>2, <1>5 DEF Tip, Carries
  <2>2. m \in Has(m) => m \in has
    BY <2>1, ShownCovers DEF Under
  <2>3. QED BY <2>1, <2>2
<1>6. QED BY <1>1, <1>4, <1>5 DEF Carries

LEMMA ReadHeadOfCommitCarries ==
  ASSUME IInv, LInv, NEW p \in Procs, ReadHead(p), call[p].kind # "file"
  PROVE  LInv'
<1>1. /\ call[p] \in CallSet(Made) /\ Shaped(call[p]) /\ Treed(call[p])
      /\ call[p].kind \in CommitKinds /\ call[p].step \in {"wait", "read"}
      /\ call[p].step = "read" => call[p].kind = "squash"
      /\ call[p].step = "wait" => Free(p)
      /\ call[p].author \in Authors /\ call[p].tree \in TreeSet(Made)
  BY CallFacts DEF IInv, LInv, Types, ReadHead, Shaped, CommitKinds, CallSet
<1>2. PICK a \in Authors : a = call[p].author
  BY <1>1
<1>3. PICK b \in Branches : b = call[p].branch
  BY <1>1 DEF CallSet
<1>4. PICK h \in Made \cup {None, Absent} : h = VisibleHead(p)
  BY <1>1, VisibleHeadFacts DEF IInv
<1>5. PICK t \in TreeSet(Made) : t = call[p].tree
  BY <1>1
<1>6. PICK n \in Nat : n = LastNode + 1
  BY MadeFacts DEF IInv, Types
<1>7. PICK has : has = IF t.hier THEN t.has ELSE IF call[p].kind = "squash" THEN {} ELSE Shown(h)
  OBVIOUS
<1>8. PICK r : r = [anc |-> Anc(h) \cup {n}, hier |-> t.hier, has |-> has]
  OBVIOUS
<1>9. PICK k : k = IF t.of = None THEN n ELSE cell[t.of]
  OBVIOUS
<1>10. PICK c : c = [call[p] EXCEPT !.node = n, !.step = "node"]
  OBVIOUS
<1>11. /\ LastNode < MaxNodes
       /\ nodes' = Append(nodes, r) /\ cell' = Append(cell, k)
       /\ call' = [call EXCEPT ![p] = c]
       /\ UNCHANGED <<heads, shadow, refCache, acked>>
  BY <1>1, <1>4, <1>5, <1>6, <1>7, <1>8, <1>9, <1>10 DEF ReadHead
<1>12. /\ lossy[b] \subseteq lossy'[b] /\ \A d \in Branches \ {b} : lossy'[d] = lossy[d]
       /\ lossy'[b] = {} => call[p].kind # "squash" /\ (t.hier => call[p].kind \notin {"pick", "rebase"})
  BY <1>3, <1>5 DEF ReadHead, IInv, Types, HistoryTypes
<1>13. Shown(h) \subseteq Made /\ Anc(h) \subseteq Made
  <2>1. Hier(h) => h \in Made /\ cell[h] \in Made
    BY NodeFacts, NoNode DEF IInv, Types
  <2>2. \A m \in Made \cup {None, Absent} : Has(m) \subseteq Made
    BY NodeFacts, NoNode DEF IInv, Types
  <2>3. QED BY <2>1, <2>2, AncMade DEF Shown, IInv, Types
<1>14. r \in NodeSet(Made \cup {n}) /\ n \in r.anc
  BY <1>7, <1>8, <1>13 DEF NodeSet, TreeSet
<1>15. /\ n \notin Made /\ Made' = Made \cup {n}
       /\ \A m \in Made \cup {None, Absent} :
            Anc(m)' = Anc(m) /\ Has(m)' = Has(m) /\ Hier(m)' = Hier(m)
       /\ Has(n)' = has /\ Hier(n)' = t.hier /\ Anc(n)' = Anc(h) \cup {n}
  <2>1. r.has = has /\ r.hier = t.hier /\ r.anc = Anc(h) \cup {n}
    BY <1>8
  <2>2. QED BY <1>6, <1>11, <1>14, <2>1, Appended DEF IInv, Types
<1>16. Faithful
  BY <1>15 DEF Faithful
<1>17. /\ c.step = "node" /\ c.kind = call[p].kind /\ c.node = n /\ c.branch = b /\ c.tree = t
  BY <1>1, <1>3, <1>5, <1>10 DEF CallSet
<1>18. call'[p] = c /\ \A q \in Procs \ {p} : call'[q] = call[q]
  BY <1>11 DEF IInv, Types, CallTypes
<1>19. t.of # None => t.of \in Made /\ t.hier /\ t.has = Has(t.of)
  BY <1>1, <1>5 DEF Treed, TreeSet
<1>20. Cells'
  <2>1. \A m \in Made : cell'[m] = cell[m] /\ cell[m] \in Made
    BY <1>11, NodeFacts DEF IInv, Types, NodeTypes, Made
  <2>2. cell'[n] = k
    BY <1>6, <1>11 DEF IInv, Types, NodeTypes
  <2>3. Has(n)' \subseteq Has(k)'
    <3>1. CASE t.of = None
      BY <1>9, <3>1
    <3>2. CASE t.of # None
      <4>1. k \in Made /\ t.has \subseteq Has(k) /\ has = t.has
        BY <1>7, <1>9, <1>19, <2>1, <3>2 DEF LInv, Cells
      <4>2. QED BY <1>15, <4>1
    <3>3. QED BY <3>1, <3>2
  <2>4. ASSUME NEW m \in Made PROVE Has(m)' \subseteq Has(cell[m])'
    <3>1. PICK j \in Made : j = cell[m]
      BY <2>1
    <3>2. Has(m)' = Has(m) /\ Has(j)' = Has(j) /\ Has(m) \subseteq Has(j) /\ cell'[m] = j
      BY <1>15, <2>1, <3>1 DEF LInv, Cells
    <3>3. QED BY <3>2
  <2>5. QED BY <1>15, <2>2, <2>3, <2>4 DEF Cells
<1>21. \A q \in Procs : Treed(call[q])'
  <2>1. Treed(call[p])'
    <3>1. t.of # None => t.hier /\ t.has = Has(t.of)'
      BY <1>15, <1>19
    <3>2. c.kind # "file" /\ (t.hier => c.kind \in {"merge", "pick", "rebase"})
      BY <1>1, <1>5, <1>17 DEF Treed
    <3>3. QED BY <1>17, <1>18, <3>1, <3>2 DEF Treed
  <2>2. \A q \in Procs \ {p} : Treed(call[q])'
    BY <1>16, <1>18, TreedStays DEF IInv, LInv
  <2>3. QED BY <2>1, <2>2
<1>22. Past(b)' \subseteq Past(b)
  BY <1>11, <1>15 DEF Past, IInv, Types, HistoryTypes
<1>23. ASSUME lossy'[b] = {} PROVE Carried(p)'
  <2>1. lossy[b] = {} /\ call[p].step = "wait" /\ Free(p) /\ Family(p) = "commit"
        /\ call[p].kind # "squash" /\ (t.hier => call[p].kind = "merge")
    BY <1>1, <1>5, <1>12, <1>23 DEF Family, Treed
  <2>2. Tip(b) /\ Carried(p)
    BY <1>3, <2>1 DEF LInv, Safe
  <2>3. \A q \in Procs : ~Landing(q, b)
    <3>1. ASSUME NEW q \in Procs, Landing(q, b) PROVE FALSE
      <4>1. q # p /\ InSection(q) /\ Family(q) = "commit" /\ call[q].branch = b
        BY <2>1, <3>1, LandingWrites, Holding DEF Landing
      <4>2. QED BY <1>3, <2>1, <4>1 DEF Free
    <3>2. QED BY <3>1
  <2>4. h = heads[b]
    <3>1. VisibleHead(p) = Landed(heads, shadow[a])[b]
      BY <1>1, <1>2, <1>3 DEF VisibleHead, CommitKinds
    <3>2. QED BY <1>4, <2>3, <3>1, Unlanded
  <2>5. ~Intruded(b)
    BY <2>3 DEF Intruded
  <2>6. t.hier => Under(h, has)
    BY <1>3, <1>5, <1>7, <2>1, <2>2, <2>4, <2>5 DEF Carried
  <2>7. ~t.hier => has = Shown(h)
    BY <1>7, <2>1
  <2>8. t.hier \in BOOLEAN
    BY DEF TreeSet
  <2>9. \A m \in Made \cup {None, Absent} : Anc(m)' = Anc(m)
    BY <1>15
  <2>10. Grown(n)' /\ Anc(h)' \subseteq Anc(n)' /\ Carries(b, n)'
    BY <1>15, <1>16, <1>22, <2>2, <2>4, <2>6, <2>7, <2>8, <2>9, ReadCarries
  <2>11. heads'[c.branch] = h
    BY <1>11, <1>17, <2>4
  <2>12. c.kind # "squash" /\ c.kind # "file"
    BY <1>1, <1>17, <2>1
  <2>13. QED BY <1>17, <1>18, <2>10, <2>11, <2>12 DEF Carried
<1>24. ASSUME NEW d \in Branches PROVE Safe(d)'
  <2>1. heads[d] \in Made \cup {None, Absent} /\ refCache[d] \in Made \cup {None}
        /\ \A q \in Procs : call[q].node \in Made \cup {None}
    BY DEF IInv, Types, RowTypes, CallTypes, CallSet
  <2>2. n # None /\ n # Absent
    BY <1>6, MadeFacts DEF None, Absent, IInv, Types
  <2>3. n \notin {heads[d], refCache[d]} /\ \A q \in Procs \ {p} : call[q].node # n
    BY <1>15, <2>1, <2>2
  <2>4. ~Landing(p, d) /\ heads'[d] = heads[d] /\ refCache'[d] \in {refCache[d], Resolve(d)}
    BY <1>1, <1>11 DEF Landing
  <2>5. Past(d)' \subseteq Past(d)
    BY <1>11, <1>15 DEF Past, IInv, Types, HistoryTypes
  <2>6. lossy[d] \subseteq lossy'[d]
    BY <1>12
  <2>7. \A q \in Procs \ {p} : call[q].step = "land" /\ Pending(q) => Pending(q)'
    BY <1>11, <1>18, PendingStays
  <2>8. lossy'[d] = {} /\ call'[p].branch = d => Carried(p)'
    BY <1>17, <1>18, <1>23
  <2>9. \A m \in (Made \cup {None, Absent}) \ {n} : Anc(m)' = Anc(m)
    BY <1>15
  <2>10. QED BY <1>16, <1>18, <2>3, <2>4, <2>5, <2>6, <2>7, <2>8, <2>9, SafeStays
<1>25. QED BY <1>20, <1>21, <1>24 DEF LInv

LEMMA ReadHeadCarries ==
  ASSUME IInv, LInv, NEW p \in Procs, ReadHead(p)
  PROVE  LInv'
BY ReadHeadOfFileCarries, ReadHeadOfCommitCarries

(* With nobody overlapping, every other call of the branch is at rest.      *)
LEMMA OthersRest ==
  ASSUME IInv, NEW p \in Procs, NEW b \in Branches, ~Overlapping(p, b),
         Family(p) = "none" \/ (InSection(p) /\ call[p].branch = b),
         NEW q \in Procs \ {p}, call[q].branch = b
  PROVE  AtRest(call[q])
<1>1. call[q].step = "idle" => call[q].kind = "none"
  BY IdleFacts, CallFacts DEF IInv, Types, Shaped
<1>2. ~InSection(q)
  <2>1. ASSUME InSection(q) PROVE FALSE
    <3>1. Busy(q) /\ Family(q) = Family(p) /\ Family(q) # "none"
      BY <2>1 DEF Overlapping, Busy, InSection
    <3>2. QED BY <2>1, <3>1 DEF IInv, Mutex
  <2>2. QED BY <2>1
<1>3. ~(call[q].kind = "merge" /\ call[q].step = "wait")
  BY DEF Overlapping, Busy
<1>4. QED BY <1>2, <1>3 DEF AtRest, InSection

LEMMA TipMoves ==
  ASSUME IInv, nodes' = nodes, NEW b \in Branches, NEW n \in Made, Grown(n), Carries(b, n),
         Past(b)' \subseteq Past(b) \cup {n}, heads'[b] = n, refCache'[b] = n
  PROVE  Tip(b)'
<1>1. \A m : Anc(m)' = Anc(m) /\ Has(m)' = Has(m) /\ Hier(m)' = Hier(m)
  BY DEF Anc, Has, Hier
<1>2. Grown(n)'
  BY <1>1 DEF Grown, Under
<1>3. n \in Anc(n)
  BY NodeFacts DEF IInv, Types
<1>4. Carries(b, n)'
  BY <1>1, <1>3 DEF Carries
<1>5. QED BY <1>2, <1>4 DEF Tip

LEMMA SameNodes ==
  ASSUME nodes' = nodes
  PROVE  Faithful /\ Made' = Made
         /\ \A m : Anc(m)' = Anc(m) /\ Has(m)' = Has(m) /\ Hier(m)' = Hier(m)
BY DEF Faithful, Made, LastNode, Has, Hier, Anc

LEMMA CellsStay ==
  ASSUME IInv, LInv, nodes' = nodes, cell' = cell
  PROVE  Cells'
<1>1. \A m \in Made : cell[m] \in Made
  BY NodeFacts DEF IInv, Types
<1>2. QED BY <1>1, SameNodes DEF LInv, Cells

(* A branch a call that moves elsewhere, and ends, leaves as it is.         *)
LEMMA Aside ==
  ASSUME IInv, LInv, nodes' = nodes, NEW d \in Branches, NEW p \in Procs,
         \A q \in Procs \ {p} : call'[q] = call[q],
         ~(Landing(p, d) /\ heads[d] = call[p].node), heads'[d] = heads[d],
         refCache'[d] \in {refCache[d], Resolve(d)},
         \A m : <<d, m>> \in acked' => <<d, m>> \in acked, lossy[d] \subseteq lossy'[d],
         \A q \in Procs \ {p} :
           call[q].branch = d /\ Exists(d) /\ call[q].step = "land" /\ Pending(q) => Pending(q)',
         AtRest(call'[p]) \/ call'[p].branch # d
  PROVE  Safe(d)'
<1>1. PICK x : x \notin Made \cup {None, Absent}
  BY MadeFacts DEF IInv, Types
<1>2. heads[d] # x /\ refCache[d] # x /\ \A q \in Procs : call[q].node # x
  BY <1>1 DEF IInv, Types, RowTypes, CallTypes, CallSet
<1>3. Past(d)' \subseteq Past(d)
  BY SameNodes DEF Past
<1>4. \A m \in (Made \cup {None, Absent}) \ {x} : Anc(m)' = Anc(m)
  BY SameNodes
<1>5. lossy'[d] = {} /\ call'[p].branch = d => Carried(p)'
  <2>1. AtRest(call'[p]) => AtRest(call[p])'
    BY DEF AtRest
  <2>2. QED BY <2>1, RestCarried
<1>6. QED BY <1>2, <1>3, <1>4, <1>5, SameNodes, SafeStays

LEMMA PushHeadOfFileCarries ==
  ASSUME IInv, LInv, NEW p \in Procs, PushHead(p), call[p].kind = "file"
  PROVE  LInv'
<1>1. call[p] \in CallSet(Made) /\ Shaped(call[p]) /\ Treed(call[p]) /\ call[p].step = "head"
  BY CallFacts DEF IInv, LInv, Types, PushHead
<1>2. PICK n \in Made : n = call[p].node
  BY <1>1 DEF Shaped, Flying, CallSet
<1>3. PICK b \in Branches : b = call[p].branch
  BY <1>1 DEF CallSet
<1>4. /\ refCache' = [refCache EXCEPT ![b] = n] /\ heads' = SetHead(heads, b, n)
      /\ acked' = acked \cup IF Exists(b) THEN {<<b, n>>} ELSE {}
      /\ Overlap(p, b) /\ call' = [call EXCEPT ![p] = Idle]
      /\ UNCHANGED <<nodes, cell, shadow>>
  BY <1>2, <1>3 DEF PushHead
<1>5. call'[p] = Idle /\ \A q \in Procs \ {p} : call'[q] = call[q]
  BY <1>4 DEF IInv, Types, CallTypes
<1>6. heads \in [Branches -> Made \cup {None, Absent}] /\ refCache \in [Branches -> Made \cup {None}]
  BY DEF IInv, Types, RowTypes
<1>7. \A d \in Branches \ {b} : heads'[d] = heads[d] /\ refCache'[d] = refCache[d]
  BY <1>4, <1>6 DEF SetHead
<1>8. refCache'[b] = n /\ (Exists(b) => heads'[b] = n) /\ (~Exists(b) => heads'[b] = Absent)
  BY <1>4, <1>6 DEF SetHead, Exists
<1>9. \A q \in Procs : Treed(call[q])'
  <2>1. Treed(Idle)'
    BY IdleRests DEF Treed, Flying, Idle
  <2>2. Treed(call[p])'
    BY <1>5, <2>1
  <2>3. \A q \in Procs \ {p} : Treed(call[q])'
    BY <1>4, <1>5, SameNodes, TreedStays DEF IInv, LInv
  <2>4. QED BY <2>2, <2>3
<1>10. ASSUME lossy'[b] = {} PROVE Tip(b)' /\ \A q \in Procs : call'[q].branch = b => Carried(q)'
  <2>1. lossy[b] = {} /\ ~Overlapping(p, b)
    BY <1>4, <1>10, OverlapFacts DEF IInv
  <2>2. Tip(b) /\ Carried(p)
    BY <1>3, <2>1 DEF LInv, Safe
  <2>3. InSection(p)
    BY <1>1 DEF InSection
  <2>4. \A q \in Procs \ {p} : call[q].branch = b => AtRest(call[q])
    BY <1>3, <2>1, <2>3, OthersRest
  <2>5. ~Intruded(b)
    BY <1>1, <2>4 DEF Intruded, Landing, AtRest
  <2>6. Grown(n) /\ Anc(heads[b]) \subseteq Anc(n) /\ Hier(n)
    BY <1>1, <1>2, <1>3, <2>2, <2>5 DEF Carried, Treed, Flying
  <2>7. Tip(b)'
    <3>1. CASE Exists(b)
      <4>1. Carries(b, n)
        BY <2>2, <2>6 DEF Tip, Carries, Grown, Under
      <4>2. Past(b)' \subseteq Past(b) \cup {n}
        BY <1>4, SameNodes DEF Past
      <4>3. QED BY <1>4, <1>8, <2>6, <3>1, <4>1, <4>2, TipMoves
    <3>2. CASE ~Exists(b)
      <4>1. heads[b] = Absent /\ heads'[b] = Absent /\ Past(b)' = Past(b)
        BY <1>4, <1>8, <3>2, SameNodes DEF Past, Exists
      <4>2. Grown(Absent)' /\ Carries(b, Absent)' /\ Grown(n)' /\ Anc(Absent)' \subseteq Anc(n)'
        BY <1>4, <2>2, <2>6, <4>1, SameNodes DEF Tip, Grown, Under, Carries
      <4>3. QED BY <1>8, <4>1, <4>2 DEF Tip
    <3>3. QED BY <3>1, <3>2
  <2>8. ASSUME NEW q \in Procs, call'[q].branch = b PROVE Carried(q)'
    <3>1. AtRest(call'[q])
      <4>1. CASE q = p
        BY <1>5, <4>1, IdleRests
      <4>2. CASE q # p
        BY <1>5, <2>4, <2>8, <4>2
      <4>3. QED BY <4>1, <4>2
    <3>2. AtRest(call[q])'
      BY <3>1 DEF AtRest
    <3>3. QED BY <3>2, RestCarried
  <2>9. QED BY <2>7, <2>8
<1>11. Safe(b)'
  BY <1>10 DEF Safe
<1>12. ASSUME NEW d \in Branches \ {b} PROVE Safe(d)'
  <2>1. ~Landing(p, d) /\ heads'[d] = heads[d] /\ refCache'[d] \in {refCache[d], Resolve(d)}
    BY <1>1, <1>7 DEF Landing
  <2>2. \A m : <<d, m>> \in acked' => <<d, m>> \in acked
    BY <1>4
  <2>3. lossy[d] \subseteq lossy'[d]
    BY <1>4, OverlapFacts DEF IInv
  <2>4. \A q \in Procs \ {p} : call[q].step = "land" /\ Pending(q) => Pending(q)'
    BY <1>4, <1>5, PendingStays
  <2>5. AtRest(call'[p])
    BY <1>5, IdleRests
  <2>6. QED BY <1>4, <1>5, <2>1, <2>2, <2>3, <2>4, <2>5, Aside
<1>13. QED BY <1>4, <1>9, <1>11, <1>12, CellsStay DEF LInv

(* What a call has read and not written yet is as good under the same head. *)
LEMMA ReaderStays ==
  ASSUME IInv, nodes' = nodes, NEW q \in Procs, call'[q] = call[q], Carried(q),
         ~Writing(call[q]), NEW b \in Branches, b = call[q].branch, heads'[b] = heads[b],
         Intruded(b) => Intruded(b)'
  PROVE  Carried(q)'
<1>1. PICK h : h = heads[b]
  OBVIOUS
<1>2. PICK c : c = call[q]
  OBVIOUS
<1>3. c.step # "land" /\ c.branch = b
  BY <1>2, CallFacts DEF IInv, Types, Shaped, Writing
<1>4. \/ Intruded(b)
      \/ /\ c.kind = "file" /\ c.step = "read" => Grown(c.node) /\ Under(h, Has(c.node))
         /\ c.kind = "file" /\ c.step \in {"node", "head"} => Grown(c.node) /\ Anc(h) \subseteq Anc(c.node)
         /\ c.kind = "merge" /\ c.step = "wait" /\ c.tree.hier => Under(h, c.tree.has)
  BY <1>1, <1>2 DEF Carried
<1>5. \/ Intruded(b)'
      \/ /\ c.kind = "file" /\ c.step = "read" => Grown(c.node)' /\ Under(h, Has(c.node))'
         /\ c.kind = "file" /\ c.step \in {"node", "head"} => Grown(c.node)' /\ Anc(h)' \subseteq Anc(c.node)'
         /\ c.kind = "merge" /\ c.step = "wait" /\ c.tree.hier => Under(h, c.tree.has)'
  BY <1>4, SameNodes DEF Grown, Under
<1>6. call'[q] = c /\ heads'[c.branch] = h /\ ~Writing(c)
  BY <1>1, <1>2
<1>7. QED BY <1>3, <1>5, <1>6 DEF Carried, Writing

LEMMA PushHeadOfCommitCarries ==
  ASSUME IInv, LInv, NEW p \in Procs, PushHead(p), call[p].kind # "file"
  PROVE  LInv'
<1>1. call[p] \in CallSet(Made) /\ Shaped(call[p]) /\ Treed(call[p]) /\ call[p].step = "head"
      /\ call[p].kind \in CommitKinds /\ call[p].author \in Authors
  BY CallFacts DEF IInv, LInv, Types, PushHead, Shaped
<1>2. PICK n \in Made : n = call[p].node
  BY <1>1 DEF Shaped, Flying, CallSet
<1>3. PICK b \in Branches : b = call[p].branch
  BY <1>1 DEF CallSet
<1>4. PICK a \in Authors : a = call[p].author
  BY <1>1
<1>5. PICK o : o = Op(p, TRUE)
  OBVIOUS
<1>6. PICK c : c = [call[p] EXCEPT !.step = "land"]
  OBVIOUS
<1>7. /\ refCache' = [refCache EXCEPT ![b] = n]
      /\ shadow' = [shadow EXCEPT ![a] = Append(@, o)]
      /\ call' = [call EXCEPT ![p] = c]
      /\ UNCHANGED <<nodes, cell, heads, acked, lossy>>
  BY <1>2, <1>3, <1>4, <1>5, <1>6 DEF PushHead, Goto
<1>8. c.step = "land" /\ c.kind = call[p].kind /\ c.node = n /\ c.branch = b /\ c.tree = call[p].tree
      /\ c.author = a
  BY <1>1, <1>2, <1>3, <1>4, <1>6 DEF CallSet
<1>9. call'[p] = c /\ \A q \in Procs \ {p} : call'[q] = call[q]
  BY <1>7 DEF IInv, Types, CallTypes
<1>10. refCache'[b] = n /\ \A d \in Branches \ {b} : refCache'[d] = refCache[d]
  BY <1>7 DEF IInv, Types, RowTypes
<1>11. o \in OpSet(Made)
  BY <1>2, <1>3, <1>5 DEF Op, OpSet
<1>12. \A q \in Procs \ {p} : call[q].step = "land" /\ Pending(q) => Pending(q)'
  BY <1>7, <1>9, <1>11, PushedPending
<1>13. \A q \in Procs : Treed(call[q])'
  <2>1. Treed(c)
    BY <1>1, <1>2, <1>8 DEF Treed, Flying, CommitKinds
  <2>2. Treed(call[p])'
    BY <1>7, <1>9, <2>1, SameNodes DEF Treed
  <2>3. \A q \in Procs \ {p} : Treed(call[q])'
    BY <1>7, <1>9, SameNodes, TreedStays DEF IInv, LInv
  <2>4. QED BY <2>2, <2>3
<1>14. Pending(p)'
  <2>1. shadow[a] \in Seq(OpSet(Made)) /\ shadow \in [Authors -> Seq(OpSet(Made))]
    BY DEF IInv, Types, ShadowTypes
  <2>2. shadow'[a] = Append(shadow[a], o)
    BY <1>7, <2>1
  <2>3. Len(shadow[a]) + 1 \in DOMAIN shadow'[a] /\ shadow'[a][Len(shadow[a]) + 1] = o
    BY <2>1, <2>2
  <2>4. Op(p, TRUE)' = o
    BY <1>2, <1>3, <1>5, <1>8, <1>9 DEF Op
  <2>5. call'[p].author = a
    BY <1>8, <1>9
  <2>6. QED BY <2>3, <2>4, <2>5 DEF Pending
<1>15. ASSUME lossy'[b] = {} PROVE Tip(b)' /\ \A q \in Procs : call'[q].branch = b => Carried(q)'
  <2>1. lossy[b] = {} /\ Writing(call[p])
    BY <1>1, <1>7, <1>15 DEF Writing
  <2>2. Tip(b) /\ InSection(p) /\ Family(p) = "commit" /\ Carried(p)
        /\ \A q \in Procs : call[q].branch = b => Carried(q)
    BY <1>3, <2>1, Holding DEF LInv, Safe
  <2>3. Grown(n) /\ Anc(heads[b]) \subseteq Anc(n) /\ Carries(b, n) /\ c.kind # "squash"
    BY <1>2, <1>3, <1>8, <2>1, <2>2 DEF Carried
  <2>4. PICK h : h = heads[b]
    OBVIOUS
  <2>5. Grown(n)' /\ Anc(h)' \subseteq Anc(n)' /\ Carries(b, n)' /\ Grown(h)' /\ Carries(b, h)'
    BY <1>7, <2>2, <2>3, <2>4, SameNodes DEF Tip, Grown, Under, Carries, Past
  <2>6. heads'[b] = h
    BY <1>7, <2>4
  <2>7. Tip(b)'
    BY <1>10, <2>5, <2>6 DEF Tip
  <2>8. Carried(p)'
    BY <1>1, <1>8, <1>9, <1>10, <1>14, <2>3, <2>5, <2>6 DEF Carried, CommitKinds
  <2>9. ASSUME NEW q \in Procs \ {p}, call'[q].branch = b PROVE Carried(q)'
    <3>1. call'[q] = call[q] /\ call[q].branch = b /\ Carried(q)
      BY <1>9, <2>2, <2>9
    <3>2. ~Writing(call[q])
      <4>1. ASSUME Writing(call[q]) PROVE FALSE
        <5>1. InSection(q) /\ Family(q) = "commit"
          BY <2>1, <3>1, <4>1, Holding
        <5>2. QED BY <1>3, <2>2, <3>1, <5>1 DEF IInv, Mutex
      <4>2. QED BY <4>1
    <3>3. ~Landing(p, b)
      BY <1>1 DEF Landing
    <3>4. Intruded(b) => Intruded(b)'
      BY <1>7, <1>9, <3>3, IntrudedStays
    <3>5. QED BY <1>7, <3>1, <3>2, <3>4, ReaderStays
  <2>10. QED BY <2>7, <2>8, <2>9
<1>16. ASSUME NEW d \in Branches \ {b} PROVE Safe(d)'
  <2>1. ~Landing(p, d) /\ heads'[d] = heads[d] /\ refCache'[d] \in {refCache[d], Resolve(d)}
    BY <1>1, <1>7, <1>10 DEF Landing
  <2>2. \A m : <<d, m>> \in acked' => <<d, m>> \in acked
    BY <1>7
  <2>3. lossy[d] \subseteq lossy'[d] /\ call'[p].branch # d
    BY <1>7, <1>8, <1>9
  <2>4. QED BY <1>7, <1>9, <1>12, <2>1, <2>2, <2>3, Aside
<1>17. Safe(b)'
  BY <1>15 DEF Safe
<1>18. QED BY <1>7, <1>13, <1>16, <1>17, CellsStay DEF LInv

LEMMA PushHeadCarries ==
  ASSUME IInv, LInv, NEW p \in Procs, PushHead(p)
  PROVE  LInv'
BY PushHeadOfFileCarries, PushHeadOfCommitCarries

(* A shadow is emptied: what is pending in others' stays.                   *)
LEMMA EmptiedPending ==
  ASSUME IInv, NEW p \in Procs, \A q \in Procs \ {p} : call'[q] = call[q], NEW a \in Authors,
         shadow' = [shadow EXCEPT ![a] = <<>>], NEW d \in Branches, HeadOps(shadow[a], d) = {},
         NEW q \in Procs \ {p}, call[q].branch = d, call[q].step = "land", Pending(q)
  PROVE  Pending(q)'
<1>1. PICK e \in Authors : e = call[q].author
  BY DEF IInv, Types, CallTypes, Shaped
<1>2. PICK i \in DOMAIN shadow[e] : shadow[e][i] = Op(q, TRUE)
  BY <1>1 DEF Pending
<1>3. e # a
  BY <1>2 DEF HeadOps, Op
<1>4. shadow'[e] = shadow[e]
  BY <1>3 DEF IInv, Types, ShadowTypes
<1>5. call'[q].author = e /\ Op(q, TRUE)' = Op(q, TRUE)
  BY <1>1 DEF Op
<1>6. QED BY <1>2, <1>4, <1>5 DEF Pending

(* What a commit has pushed as the head of a branch, it is landing.         *)
LEMMA OpLanding ==
  ASSUME IInv, NEW a \in Authors, NEW d \in Branches, NEW i \in HeadOps(shadow[a], d)
  PROVE  \E r \in Procs : Landing(r, d) /\ shadow[a][i].node = call[r].node
                          /\ call[r].author = a
<1>1. i \in DOMAIN shadow[a] /\ shadow[a][i].head /\ shadow[a][i].branch = d
  BY DEF HeadOps
<1>2. FromCall(shadow[a][i], a) /\ shadow[a][i].by \in Procs
  BY <1>1, OpWhole DEF IInv, Types, ShadowTypes
<1>3. QED BY <1>1, <1>2 DEF FromCall, Landing

(* A head lands with another commit of the author's.                        *)
LEMMA LandedByOther ==
  ASSUME IInv, LInv, nodes' = nodes, NEW p \in Procs, \A q \in Procs \ {p} : call'[q] = call[q],
         NEW d \in Branches, call'[p].branch # d, lossy[d] = {}, NEW r \in Procs \ {p}, Landing(r, d),
         heads'[d] = call[r].node, refCache' = refCache,
         \A m : <<d, m>> \in acked' => <<d, m>> \in acked
  PROVE  Tip(d)' /\ \A q \in Procs : call'[q].branch = d => Carried(q)'
<1>1. PICK n \in Made : n = call[r].node
  BY DEF IInv, Types, CallTypes, CallSet, Shaped, Flying, Landing
<1>2. call[r].branch = d /\ call[r].step = "land" /\ Writing(call[r])
  BY LandingWrites
<1>3. Tip(d) /\ Carried(r) /\ InSection(r) /\ Family(r) = "commit"
      /\ \A q \in Procs : call[q].branch = d => Carried(q)
  BY <1>2, Holding DEF LInv, Safe
<1>4. Grown(n) /\ Carries(d, n) /\ refCache[d] = n /\ call[r].kind # "squash"
  BY <1>1, <1>2, <1>3 DEF Carried
<1>5. Past(d)' \subseteq Past(d) \cup {n}
  BY SameNodes DEF Past
<1>6. Tip(d)'
  BY <1>1, <1>4, <1>5, TipMoves
<1>7. Intruded(d)'
  <2>1. Landing(r, d)' /\ heads'[d] = call'[r].node
    BY DEF Landing
  <2>2. QED BY <2>1 DEF Intruded
<1>8. Carried(r)'
  <2>1. PICK c : c = call[r]
    OBVIOUS
  <2>2. Grown(n)' /\ Carries(d, n)'
    BY <1>1, <1>4, <1>6 DEF Tip
  <2>3. call'[r] = c /\ heads'[c.branch] = n /\ c.node = n /\ c.branch = d /\ c.step = "land"
        /\ refCache'[c.branch] = n /\ c.kind # "squash"
    BY <1>1, <1>2, <1>4, <2>1
  <2>4. QED BY <1>7, <2>2, <2>3 DEF Carried
<1>9. ASSUME NEW q \in Procs, q # r, call'[q].branch = d PROVE Carried(q)'
  <2>1. q # p /\ call'[q] = call[q] /\ call[q].branch = d
    BY <1>9
  <2>2. ~Writing(call[q])
    <3>1. ASSUME Writing(call[q]) PROVE FALSE
      <4>1. InSection(q) /\ Family(q) = "commit"
        BY <2>1, <3>1, Holding
      <4>2. QED BY <1>2, <1>3, <1>9, <2>1, <4>1 DEF IInv, Mutex
    <3>2. QED BY <3>1
  <2>3. call[q].step # "land"
    BY <2>2, CallFacts DEF IInv, Types, Shaped, Writing
  <2>4. ~Writing(call'[q]) /\ call'[q].step # "land" /\ call'[q].branch = d
    BY <2>1, <2>2, <2>3
  <2>5. QED BY <1>7, <2>4 DEF Carried, Writing
<1>10. QED BY <1>6, <1>8, <1>9

LEMMA LandCarries ==
  ASSUME IInv, LInv, NEW p \in Procs, Land(p)
  PROVE  LInv'
<1>1. call[p] \in CallSet(Made) /\ Shaped(call[p]) /\ Treed(call[p]) /\ call[p].step = "land"
      /\ call[p].kind \in CommitKinds /\ call[p].author \in Authors
  BY CallFacts DEF IInv, LInv, Types, Land, Shaped
<1>2. PICK n \in Made : n = call[p].node
  BY <1>1 DEF Shaped, Flying, CallSet
<1>3. PICK b \in Branches : b = call[p].branch
  BY <1>1 DEF CallSet
<1>4. PICK a \in Authors : a = call[p].author
  BY <1>1
<1>5. PICK c : c = [call[p] EXCEPT !.step = "log"]
  OBVIOUS
<1>6. /\ heads' = Landed(heads, shadow[a])
      /\ shadow' = [shadow EXCEPT ![a] = <<>>]
      /\ acked' = acked \cup IF Exists(b) THEN {<<b, n>>} ELSE {}
      /\ Overlap(p, b) /\ call' = [call EXCEPT ![p] = c]
      /\ UNCHANGED <<nodes, cell, refCache>>
  BY <1>2, <1>3, <1>4, <1>5 DEF Land, Goto, caches
<1>7. c.step = "log" /\ c.kind = call[p].kind /\ c.node = n /\ c.branch = b /\ c.tree = call[p].tree
  BY <1>1, <1>2, <1>3, <1>5 DEF CallSet
<1>8. call'[p] = c /\ \A q \in Procs \ {p} : call'[q] = call[q]
  BY <1>6 DEF IInv, Types, CallTypes
<1>9. AtRest(c) /\ Treed(c)
  BY <1>1, <1>7 DEF AtRest, Treed, Flying, CommitKinds
<1>10. \A q \in Procs : Treed(call[q])'
  <2>1. Treed(call[p])'
    BY <1>6, <1>8, <1>9, SameNodes DEF Treed
  <2>2. \A q \in Procs \ {p} : Treed(call[q])'
    BY <1>6, <1>8, SameNodes, TreedStays DEF IInv, LInv
  <2>3. QED BY <2>1, <2>2
<1>11. \A d \in Branches : /\ lossy[d] \subseteq lossy'[d]
                           /\ d # b => \A m : <<d, m>> \in acked' => <<d, m>> \in acked
  BY <1>6, OverlapFacts DEF IInv
<1>12. ASSUME lossy'[b] = {} PROVE Tip(b)' /\ \A q \in Procs : call'[q].branch = b => Carried(q)'
  <2>1. lossy[b] = {} /\ ~Overlapping(p, b)
    BY <1>6, <1>12, OverlapFacts DEF IInv
  <2>2. Tip(b) /\ Carried(p)
    BY <1>3, <2>1 DEF LInv, Safe
  <2>3. InSection(p) /\ Writing(call[p])
    BY <1>1 DEF InSection, Writing
  <2>4. \A q \in Procs \ {p} : call[q].branch = b => AtRest(call[q])
    BY <1>3, <2>1, <2>3, OthersRest
  <2>5. Grown(n) /\ Carries(b, n) /\ refCache[b] = n
        /\ (Exists(b) => heads[b] = n \/ Pending(p))
    BY <1>1, <1>2, <1>3, <2>2, <2>3 DEF Carried
  <2>6. ASSUME Exists(b) PROVE Tip(b)'
    <3>1. ASSUME NEW i \in HeadOps(shadow[a], b) PROVE shadow[a][i].node = n
      <4>1. PICK r \in Procs : Landing(r, b) /\ shadow[a][i].node = call[r].node
        BY <3>1, OpLanding
      <4>2. r = p
        BY <2>4, <4>1 DEF Landing, AtRest
      <4>3. QED BY <1>2, <4>1, <4>2
    <3>2. HeadOps(shadow[a], b) = {} => heads[b] = n
      <4>1. ASSUME Pending(p) PROVE HeadOps(shadow[a], b) # {}
        <5>1. PICK i \in DOMAIN shadow[a] : shadow[a][i] = Op(p, TRUE)
          BY <1>4, <4>1 DEF Pending
        <5>2. i \in HeadOps(shadow[a], b)
          BY <1>3, <5>1 DEF HeadOps, Op
        <5>3. QED BY <5>2
      <4>2. QED BY <2>5, <2>6, <4>1
    <3>3. heads'[b] = n
      BY <1>6, <2>6, <3>1, <3>2, LandedFacts DEF IInv, Exists
    <3>4. Past(b)' \subseteq Past(b) \cup {n}
      BY <1>6, SameNodes DEF Past
    <3>5. QED BY <1>6, <2>5, <3>3, <3>4, TipMoves
  <2>7. ASSUME ~Exists(b) PROVE Tip(b)'
    <3>1. heads'[b] = heads[b]
      BY <1>6, <2>7 DEF Landed, Exists
    <3>2. Past(b)' \subseteq Past(b)
      BY <1>6, <2>7, SameNodes DEF Past
    <3>3. \A m \in {heads[b], refCache[b]} : Anc(m)' = Anc(m)
      BY <1>6, SameNodes
    <3>4. Tip(b)'
      BY <1>6, <2>2, <3>1, <3>2, <3>3, SameNodes, TipStays
    <3>5. QED BY <3>4
  <2>8. Tip(b)'
    BY <2>6, <2>7
  <2>9. ASSUME NEW q \in Procs, call'[q].branch = b PROVE Carried(q)'
    <3>1. AtRest(call'[q])
      <4>1. CASE q = p
        BY <1>8, <1>9, <4>1
      <4>2. CASE q # p
        BY <1>8, <2>4, <2>9, <4>2
      <4>3. QED BY <4>1, <4>2
    <3>2. AtRest(call[q])'
      BY <3>1 DEF AtRest
    <3>3. QED BY <3>2, RestCarried
  <2>10. QED BY <2>8, <2>9
<1>13. ASSUME NEW d \in Branches \ {b} PROVE Safe(d)'
  <2>1. call'[p].branch # d /\ ~Landing(p, d)
    BY <1>3, <1>7, <1>8 DEF Landing
  <2>2. CASE heads'[d] = heads[d] /\ (heads[d] = Absent \/ HeadOps(shadow[a], d) = {})
    <3>1. \A q \in Procs \ {p} :
            call[q].branch = d /\ Exists(d) /\ call[q].step = "land" /\ Pending(q) => Pending(q)'
      BY <1>6, <1>8, <2>2, EmptiedPending DEF Exists
    <3>2. \A m : <<d, m>> \in acked' => <<d, m>> \in acked
      BY <1>11
    <3>3. QED BY <1>6, <1>8, <1>11, <2>1, <2>2, <3>1, <3>2, Aside
  <2>3. ASSUME NEW i \in HeadOps(shadow[a], d), heads'[d] = shadow[a][i].node, lossy'[d] = {}
        PROVE  Tip(d)' /\ \A q \in Procs : call'[q].branch = d => Carried(q)'
    <3>1. PICK r \in Procs : Landing(r, d) /\ shadow[a][i].node = call[r].node
      BY <2>3, OpLanding
    <3>2. r # p /\ lossy[d] = {} /\ heads'[d] = call[r].node
      BY <1>11, <2>1, <2>3, <3>1
    <3>3. \A m : <<d, m>> \in acked' => <<d, m>> \in acked
      BY <1>11
    <3>4. QED BY <1>6, <1>8, <2>1, <3>1, <3>2, <3>3, LandedByOther
  <2>4. QED BY <1>6, <2>2, <2>3, LandedFacts DEF IInv, Safe
<1>14. Safe(b)'
  BY <1>12 DEF Safe
<1>15. QED BY <1>6, <1>10, <1>13, <1>14, CellsStay DEF LInv

LEMMA FailCarries ==
  ASSUME IInv, LInv, NEW p \in Procs, Fail(p)
  PROVE  LInv'
<1>1. call[p] \in CallSet(Made) /\ Shaped(call[p]) /\ call[p].author \in Authors
      /\ call[p].kind \in CommitKinds
  BY CallFacts DEF IInv, Types, Fail, Shaped
<1>2. PICK b \in Branches : b = call[p].branch
  BY <1>1 DEF CallSet
<1>3. PICK a \in Authors : a = call[p].author
  BY <1>1
<1>4. PICK theirs : theirs = {o \in Ops(shadow[a]) : o.by # p}
  OBVIOUS
<1>5. /\ shadow' = [shadow EXCEPT ![a] = <<>>] /\ call' = [call EXCEPT ![p] = Idle]
      /\ UNCHANGED <<nodes, cell, heads, refCache, acked>>
  BY <1>3 DEF Fail, caches
<1>6. lossy' = [d \in Branches |-> lossy[d]
        \cup (IF \E o \in theirs : o.branch = d THEN {"torn"} ELSE {})
        \cup IF d = b /\ call[p].step = "land" /\ heads[d] = call[p].node /\ Overlapping(p, d)
             THEN {"overlap"} ELSE {}]
  BY <1>2, <1>3, <1>4 DEF Fail
<1>7. call'[p] = Idle /\ \A q \in Procs \ {p} : call'[q] = call[q]
  BY <1>5 DEF IInv, Types, CallTypes
<1>8. \A q \in Procs : Treed(call[q])'
  <2>1. Treed(Idle)'
    BY IdleRests DEF Treed, Flying, Idle
  <2>2. Treed(call[p])'
    BY <1>7, <2>1
  <2>3. \A q \in Procs \ {p} : Treed(call[q])'
    BY <1>5, <1>7, SameNodes, TreedStays DEF IInv, LInv
  <2>4. QED BY <2>2, <2>3
<1>9. ASSUME NEW d \in Branches PROVE Safe(d)'
  <2>1. lossy[d] \subseteq lossy'[d]
    BY <1>6
  <2>2. ASSUME lossy'[d] = {}, NEW q \in Procs \ {p}, call[q].branch = d, call[q].step = "land", Pending(q)
        PROVE  Pending(q)'
    <3>1. PICK e \in Authors : e = call[q].author
      BY <2>2 DEF IInv, Types, CallTypes, Shaped
    <3>2. PICK i \in DOMAIN shadow[e] : shadow[e][i] = Op(q, TRUE)
      BY <2>2, <3>1 DEF Pending
    <3>3. e # a
      <4>1. ASSUME e = a PROVE FALSE
        <5>1. PICK o \in Ops(shadow[a]) : o = Op(q, TRUE)
          BY <3>2, <4>1 DEF Ops
        <5>2. o \in theirs /\ o.branch = d
          BY <1>4, <2>2, <5>1 DEF Op
        <5>3. QED BY <1>6, <2>2, <5>2
      <4>2. QED BY <4>1
    <3>4. shadow'[e] = shadow[e]
      BY <1>5, <3>3 DEF IInv, Types, ShadowTypes
    <3>5. call'[q].author = e /\ Op(q, TRUE)' = Op(q, TRUE)
      BY <1>7, <3>1 DEF Op
    <3>6. QED BY <3>2, <3>4, <3>5 DEF Pending
  <2>3. ASSUME lossy'[d] = {}, ~(Landing(p, d) /\ heads[d] = call[p].node) PROVE Safe(d)'
    <3>1. heads'[d] = heads[d] /\ refCache'[d] \in {refCache[d], Resolve(d)}
          /\ \A m : <<d, m>> \in acked' => <<d, m>> \in acked
      BY <1>5
    <3>2. \A q \in Procs \ {p} :
            call[q].branch = d /\ Exists(d) /\ call[q].step = "land" /\ Pending(q) => Pending(q)'
      BY <2>2, <2>3
    <3>3. AtRest(call'[p])
      BY <1>7, IdleRests
    <3>4. QED BY <1>5, <1>7, <2>1, <2>3, <3>1, <3>2, <3>3, Aside
  <2>4. ASSUME lossy'[d] = {}, Landing(p, d), heads[d] = call[p].node
        PROVE  Tip(d)' /\ \A q \in Procs : call'[q].branch = d => Carried(q)'
    <3>1. d = b /\ call[p].step = "land" /\ InSection(p) /\ call[p].branch = d
      BY <1>2, <2>4 DEF Landing, InSection
    <3>2. lossy[d] = {} /\ ~Overlapping(p, d)
      BY <1>6, <2>4, <3>1
    <3>3. Tip(d)
      BY <3>2 DEF LInv, Safe
    <3>4. Tip(d)'
      <4>1. Past(d)' \subseteq Past(d) /\ heads'[d] = heads[d] /\ refCache'[d] = refCache[d]
            /\ \A m \in {heads[d], refCache[d]} : Anc(m)' = Anc(m)
        BY <1>5, SameNodes DEF Past
      <4>2. QED BY <1>5, <3>3, <4>1, SameNodes, TipStays
    <3>5. ASSUME NEW q \in Procs, call'[q].branch = d PROVE Carried(q)'
      <4>1. AtRest(call'[q])
        <5>1. CASE q = p
          BY <1>7, <5>1, IdleRests
        <5>2. CASE q # p
          BY <1>7, <3>1, <3>2, <3>5, <5>2, OthersRest
        <5>3. QED BY <5>1, <5>2
      <4>2. AtRest(call[q])'
        BY <4>1 DEF AtRest
      <4>3. QED BY <4>2, RestCarried
    <3>6. QED BY <3>4, <3>5
  <2>5. QED BY <2>3, <2>4 DEF Safe
<1>10. QED BY <1>5, <1>8, <1>9, CellsStay DEF LInv

LEMMA Unmade ==
  ASSUME Types
  PROVE  \E x : x \notin Made \cup {None, Absent}
<1>1. LastNode + 1 \notin Made /\ LastNode \in Nat \ {0}
  BY MadeFacts DEF Types
<1>2. LastNode + 1 # None /\ LastNode + 1 # Absent
  BY <1>1 DEF None, Absent
<1>3. QED BY <1>1, <1>2

(* A branch starts anew, from what carries all that its own tree shows.     *)
LEMMA RefsMove ==
  ASSUME IInv, LInv, NEW p \in Procs, call[p].step = "idle", call' = call, shadow' = shadow,
         Faithful, \A m \in Made \cup {None, Absent} : Anc(m)' = Anc(m), Cells',
         NEW b \in Branches, NEW from, Anew(p, b, from),
         \A d \in Branches \ {b} : heads'[d] = heads[d] /\ refCache'[d] \in {refCache[d], Resolve(d)},
         NEW j, NEW k, j = heads'[b], k = refCache'[b],
         from = {} => Grown(j)' /\ (k # None => Grown(k)' /\ Anc(j)' \subseteq Anc(k)')
  PROVE  LInv'
<1>1. call[p] = Idle /\ Family(p) = "none" /\ AtRest(call[p])
  <2>1. call[p] = Idle
    BY CallFacts DEF IInv, Types, Shaped
  <2>2. call[p].kind = "none"
    BY <2>1, IdleFacts DEF IInv
  <2>3. QED BY <2>1, <2>2, IdleRests DEF Family, CommitKinds
<1>2. /\ \A d \in Branches \ {b} : lossy'[d] = lossy[d]
      /\ lossy'[b] = {} => from = {} /\ ~Overlapping(p, b)
  BY DEF Anew, IInv, Types, HistoryTypes
<1>3. /\ \A m : <<b, m>> \notin acked'
      /\ \A d \in Branches : \A m : <<d, m>> \in acked' => <<d, m>> \in acked
  BY DEF Anew
<1>4. \A q \in Procs : Treed(call[q])'
  BY TreedStays DEF IInv, LInv
<1>5. ASSUME lossy'[b] = {} PROVE Tip(b)' /\ \A q \in Procs : call'[q].branch = b => Carried(q)'
  <2>1. Past(b)' = {}
    BY <1>3 DEF Past
  <2>2. Tip(b)'
    BY <1>2, <1>5, <2>1 DEF Tip, Carries
  <2>3. ASSUME NEW q \in Procs, call'[q].branch = b PROVE Carried(q)'
    <3>1. AtRest(call[q])
      BY <1>1, <1>2, <1>5, <2>3, OthersRest
    <3>2. AtRest(call[q])'
      BY <3>1 DEF AtRest
    <3>3. QED BY <3>2, RestCarried
  <2>4. QED BY <2>2, <2>3
<1>6. ASSUME NEW d \in Branches \ {b} PROVE Safe(d)'
  <2>1. PICK x : x \notin Made \cup {None, Absent}
    BY Unmade DEF IInv
  <2>2. heads[d] # x /\ refCache[d] # x /\ \A q \in Procs : call[q].node # x
    BY <2>1 DEF IInv, Types, RowTypes, CallTypes, CallSet
  <2>3. Past(d)' \subseteq Past(d)
    BY <1>3 DEF Past, IInv, Types, HistoryTypes
  <2>4. ~(Landing(p, d) /\ heads[d] = call[p].node)
    BY DEF Landing
  <2>5. Carried(p)'
    <3>1. AtRest(call[p])'
      BY <1>1 DEF AtRest
    <3>2. QED BY <3>1, RestCarried
  <2>6. \A q \in Procs \ {p} : call[q].step = "land" /\ Pending(q) => Pending(q)'
    BY PendingStays
  <2>7. \A m \in (Made \cup {None, Absent}) \ {x} : Anc(m)' = Anc(m)
    OBVIOUS
  <2>8. /\ lossy[d] \subseteq lossy'[d] /\ \A q \in Procs \ {p} : call'[q] = call[q]
        /\ heads'[d] = heads[d] /\ refCache'[d] \in {refCache[d], Resolve(d)}
        /\ x \notin {heads[d], refCache[d]} /\ \A q \in Procs \ {p} : call[q].node # x
    BY <1>2, <2>2
  <2>9. QED BY <2>3, <2>4, <2>5, <2>6, <2>7, <2>8, SafeStays
<1>7. Safe(b)'
  BY <1>5 DEF Safe
<1>8. QED BY <1>4, <1>6, <1>7 DEF LInv

(* What a branch without flaws resolves to, and no head at all.             *)
LEMMA Source ==
  ASSUME IInv, LInv, NEW d \in Branches, lossy[d] = {}
  PROVE  Grown(Resolve(d))
BY ResolveTip DEF LInv, Safe

LEMMA NoHead ==
  ASSUME IInv, NEW m \in {None, Absent}, Faithful,
         \A l \in Made \cup {None, Absent} : Anc(l)' = Anc(l)
  PROVE  Grown(m)' /\ Anc(m)' = {}
<1>1. Anc(m) = {} /\ ~Hier(m)
  BY NoNode DEF IInv, Types
<1>2. QED BY <1>1 DEF Grown, Faithful

LEMMA ResetCarries ==
  ASSUME IInv, LInv, NEW p \in Procs, Reset(p)
  PROVE  LInv'
<1>1. PICK b \in Branches, to \in Branches :
        LET m == Resolve(b)  n == Resolve(to) IN
        /\ m # None /\ n # None
        /\ \/ /\ heads' = SetHead(heads, b, n)
              /\ refCache' = [refCache EXCEPT ![to] = n, ![b] = n]
              /\ reflog' = reflog \cup {m, n}
              /\ UNCHANGED <<nodes, stored, cell>>
           \/ /\ LastNode < MaxNodes
              /\ LET d == LastNode + 1 IN
                 /\ nodes' = Append(nodes, [anc |-> Anc(m) \cup {d}, hier |-> FALSE,
                                            has |-> Shown(n)])
                 /\ cell' = Append(cell, d)
                 /\ stored' = stored \cup {d}
                 /\ heads' = SetHead(heads, b, d)
                 /\ refCache' = [refCache EXCEPT ![to] = n, ![b] = d]
                 /\ reflog' = reflog \cup {m, d}
        /\ Anew(p, b, lossy[to])
  BY DEF Reset
<1>2. PICK m \in Made, n \in Made : m = Resolve(b) /\ n = Resolve(to)
  BY <1>1, ResolveFacts DEF IInv
<1>3. PICK j : j = heads'[b]
  OBVIOUS
<1>4. PICK k : k = refCache'[b]
  OBVIOUS
<1>5. call[p].step = "idle" /\ call' = call /\ shadow' = shadow
  BY DEF Reset, Starts, Busy
<1>6. heads \in [Branches -> Made \cup {None, Absent}] /\ refCache \in [Branches -> Made \cup {None}]
      /\ (heads[b] = Absent => heads[b] \in {None, Absent}) /\ None # Absent
  BY MadeFacts DEF IInv, Types, RowTypes
<1>7. CASE heads' = SetHead(heads, b, n) /\ refCache' = [refCache EXCEPT ![to] = n, ![b] = n]
           /\ UNCHANGED <<nodes, cell>>
  <2>1. \A d \in Branches \ {b} : heads'[d] = heads[d] /\ refCache'[d] \in {refCache[d], Resolve(d)}
    BY <1>2, <1>6, <1>7 DEF SetHead
  <2>2. k = n /\ j \in {n, Absent}
    BY <1>3, <1>4, <1>6, <1>7 DEF SetHead
  <2>3. lossy[to] = {} => Grown(n)'
    <3>1. lossy[to] = {} => Grown(n)
      BY <1>2, Source
    <3>2. QED BY <1>7, <3>1, SameNodes DEF Grown, Under
  <2>4. Anc(Absent)' = {} /\ Grown(Absent)'
    BY <1>7, SameNodes, NoHead
  <2>5. lossy[to] = {} => Grown(j)' /\ (k # None => Grown(k)' /\ Anc(j)' \subseteq Anc(k)')
    BY <2>2, <2>3, <2>4
  <2>6. Cells' /\ Faithful /\ \A l \in Made \cup {None, Absent} : Anc(l)' = Anc(l)
    BY <1>7, SameNodes, CellsStay
  <2>7. Anew(p, b, lossy[to])
    BY <1>1
  <2>8. QED BY <1>3, <1>4, <1>5, <2>1, <2>5, <2>6, <2>7, RefsMove
<1>8. ASSUME NEW d \in Nat, d = LastNode + 1, LastNode < MaxNodes,
             nodes' = Append(nodes, [anc |-> Anc(m) \cup {d}, hier |-> FALSE, has |-> Shown(n)]),
             cell' = Append(cell, d), heads' = SetHead(heads, b, d),
             refCache' = [refCache EXCEPT ![to] = n, ![b] = d]
      PROVE  LInv'
  <2>1. PICK r : r = [anc |-> Anc(m) \cup {d}, hier |-> FALSE, has |-> Shown(n)]
    OBVIOUS
  <2>2. r \in NodeSet(Made \cup {d}) /\ d \in r.anc /\ r.hier = FALSE
    <3>1. Anc(m) \subseteq Made /\ cell[n] \in Made
      BY NodeFacts DEF IInv, Types
    <3>2. Shown(n) \subseteq Made
      BY <3>1, NodeFacts DEF Shown, IInv, Types
    <3>3. QED BY <2>1, <3>1, <3>2 DEF NodeSet
  <2>3. /\ d \notin Made /\ Made' = Made \cup {d}
        /\ \A l \in Made \cup {None, Absent} :
             Anc(l)' = Anc(l) /\ Has(l)' = Has(l) /\ Hier(l)' = Hier(l)
        /\ ~Hier(d)'
    BY <1>8, <2>1, <2>2, Appended DEF IInv, Types
  <2>4. Faithful /\ \A l \in Made \cup {None, Absent} : Anc(l)' = Anc(l)
    BY <2>3 DEF Faithful
  <2>5. \A e \in Branches \ {b} : heads'[e] = heads[e] /\ refCache'[e] \in {refCache[e], Resolve(e)}
    BY <1>2, <1>6, <1>8 DEF SetHead
  <2>6. k = d /\ j \in {d, Absent}
    BY <1>3, <1>4, <1>6, <1>8 DEF SetHead
  <2>7. Anc(Absent)' = {} /\ Grown(Absent)' /\ Grown(d)'
    <3>1. Grown(d)'
      BY <2>3 DEF Grown
    <3>2. QED BY <2>4, <3>1, NoHead
  <2>8. lossy[to] = {} => Grown(j)' /\ (k # None => Grown(k)' /\ Anc(j)' \subseteq Anc(k)')
    BY <2>6, <2>7
  <2>9. Cells'
    <3>1. \A l \in Made : cell'[l] = cell[l] /\ cell[l] \in Made
      BY <1>8, NodeFacts DEF IInv, Types, NodeTypes, Made
    <3>2. cell'[d] = d
      BY <1>8 DEF IInv, Types, NodeTypes
    <3>3. ASSUME NEW l \in Made PROVE Has(l)' \subseteq Has(cell[l])'
      <4>1. PICK i \in Made : i = cell[l]
        BY <3>1
      <4>2. Has(l)' = Has(l) /\ Has(i)' = Has(i) /\ Has(l) \subseteq Has(i) /\ cell'[l] = i
        BY <2>3, <3>1, <4>1 DEF LInv, Cells
      <4>3. QED BY <4>2
    <3>4. QED BY <2>3, <3>2, <3>3 DEF Cells
  <2>10. Anew(p, b, lossy[to])
    BY <1>1
  <2>11. QED BY <1>3, <1>4, <1>5, <2>4, <2>5, <2>8, <2>9, <2>10, RefsMove
<1>9. LastNode + 1 \in Nat
  BY MadeFacts DEF IInv, Types
<1>10. QED BY <1>1, <1>2, <1>7, <1>8, <1>9

LEMMA CreateBranchCarries ==
  ASSUME IInv, LInv, NEW p \in Procs, CreateBranch(p)
  PROVE  LInv'
<1>1. call[p].step = "idle" /\ call' = call /\ shadow' = shadow /\ nodes' = nodes /\ cell' = cell
  BY DEF CreateBranch, Starts, Busy
<1>2. heads \in [Branches -> Made \cup {None, Absent}] /\ refCache \in [Branches -> Made \cup {None}]
  BY DEF IInv, Types, RowTypes
<1>3. Cells' /\ Faithful /\ \A l \in Made \cup {None, Absent} : Anc(l)' = Anc(l)
  BY <1>1, SameNodes, CellsStay
<1>4. ASSUME NEW b \in Branches, heads' = [heads EXCEPT ![b] = None], refCache' = refCache,
             Anew(p, b, IF refCache[b] = None THEN {} ELSE lossy[b])
      PROVE  LInv'
  <2>1. PICK k : k = refCache[b]
    OBVIOUS
  <2>2. PICK from : from = IF k = None THEN {} ELSE lossy[b]
    OBVIOUS
  <2>3. Anc(None)' = {} /\ Grown(None)'
    BY <1>3, NoHead
  <2>4. from = {} => Grown(None)' /\ (k # None => Grown(k)' /\ Anc(None)' \subseteq Anc(k)')
    <3>1. from = {} /\ k # None => Grown(k)
      BY <2>1, <2>2 DEF LInv, Safe, Tip
    <3>2. QED BY <1>1, <2>3, <3>1, SameNodes DEF Grown, Under
  <2>5. \A d \in Branches \ {b} : heads'[d] = heads[d] /\ refCache'[d] \in {refCache[d], Resolve(d)}
    BY <1>2, <1>4
  <2>6. None = heads'[b] /\ k = refCache'[b] /\ Anew(p, b, from)
    BY <1>2, <1>4, <2>1, <2>2
  <2>7. QED BY <1>1, <1>3, <2>4, <2>5, <2>6, RefsMove
<1>5. ASSUME NEW b \in Branches, NEW from \in Branches, Resolve(from) # None,
             heads' = [heads EXCEPT ![b] = Resolve(from)], Anew(p, b, lossy[from]),
             refCache' = [refCache EXCEPT ![from] = Resolve(from), ![b] = Resolve(from)]
      PROVE  LInv'
  <2>1. PICK n : n = Resolve(from)
    OBVIOUS
  <2>2. lossy[from] = {} => Grown(n)'
    <3>1. lossy[from] = {} => Grown(n)
      BY <2>1, Source
    <3>2. QED BY <1>1, <3>1, SameNodes DEF Grown, Under
  <2>3. \A d \in Branches \ {b} : heads'[d] = heads[d] /\ refCache'[d] \in {refCache[d], Resolve(d)}
    BY <1>2, <1>5
  <2>4. n = heads'[b] /\ n = refCache'[b] /\ Anew(p, b, lossy[from])
    BY <1>2, <1>5, <2>1
  <2>5. lossy[from] = {} => Grown(n)' /\ (n # None => Grown(n)' /\ Anc(n)' \subseteq Anc(n)')
    BY <2>2
  <2>6. QED BY <1>1, <1>3, <2>3, <2>4, <2>5, RefsMove
<1>6. QED BY <1>4, <1>5 DEF CreateBranch

LEMMA DeleteBranchCarries ==
  ASSUME IInv, LInv, NEW p \in Procs, DeleteBranch(p)
  PROVE  LInv'
<1>1. call[p].step = "idle" /\ call' = call /\ shadow' = shadow /\ nodes' = nodes /\ cell' = cell
  BY DEF DeleteBranch, Starts, Busy
<1>2. PICK b \in Branches : ForgetBranch(b) /\ Anew(p, b, {})
  BY DEF DeleteBranch
<1>3. Absent = heads'[b] /\ None = refCache'[b]
      /\ \A d \in Branches \ {b} : heads'[d] = heads[d] /\ refCache'[d] \in {refCache[d], Resolve(d)}
  BY <1>2 DEF ForgetBranch, IInv, Types, RowTypes
<1>4. Cells' /\ Faithful /\ \A l \in Made \cup {None, Absent} : Anc(l)' = Anc(l)
  BY <1>1, SameNodes, CellsStay
<1>5. Grown(Absent)' /\ (None # None => Grown(None)' /\ Anc(Absent)' \subseteq Anc(None)')
  BY <1>4, NoHead
<1>6. QED BY <1>1, <1>2, <1>3, <1>4, <1>5, RefsMove

LEMMA StartGcCarries ==
  ASSUME IInv, LInv, NEW p \in Procs, StartGc(p)
  PROVE  LInv'
<1>1. PICK expired \in SUBSET {b \in Ephemeral : Exists(b)} :
        /\ heads' = [b \in Branches |-> IF b \in expired THEN Absent ELSE heads[b]]
        /\ acked' = {x \in acked : x[1] \notin expired}
        /\ lossy' = [b \in Branches |-> lossy[b] \cup
                       IF b \in expired /\ Overlapping(p, b) THEN {"overlap"} ELSE {}]
  BY DEF StartGc
<1>2. UNCHANGED <<nodes, cell, shadow, refCache>> /\ call[p].step = "idle"
  BY DEF StartGc, Begin, Starts, Busy, caches
<1>3. PICK c : c = [Idle EXCEPT !.kind = "gc", !.branch = Main, !.step = "mark", !.author = None,
                             !.old = None]
  OBVIOUS
<1>4. call' = [call EXCEPT ![p] = c]
  BY <1>3 DEF StartGc, Begin, CommitKinds
<1>5. c.kind = "gc" /\ c.step = "mark" /\ c.tree = Plain
  BY <1>3, IdleFacts, IdleRests DEF IInv, CallSet
<1>6. AtRest(c) /\ Treed(c)
  BY <1>5, IdleRests DEF AtRest, Treed, Flying
<1>7. call'[p] = c /\ \A q \in Procs \ {p} : call'[q] = call[q]
  BY <1>4 DEF IInv, Types, CallTypes
<1>8. Family(p) = "none"
  BY <1>2, CallFacts, IdleFacts DEF IInv, Types, Shaped, Family, CommitKinds
<1>9. \A q \in Procs : Treed(call[q])'
  <2>1. Treed(call[p])'
    BY <1>2, <1>6, <1>7, SameNodes DEF Treed
  <2>2. \A q \in Procs \ {p} : Treed(call[q])'
    BY <1>2, <1>7, SameNodes, TreedStays DEF IInv, LInv
  <2>3. QED BY <2>1, <2>2
<1>10. ASSUME NEW d \in Branches, d \in expired, lossy'[d] = {}
       PROVE  Tip(d)' /\ \A q \in Procs : call'[q].branch = d => Carried(q)'
  <2>1. lossy[d] = {} /\ ~Overlapping(p, d)
    BY <1>1, <1>10
  <2>2. PICK k : k = refCache[d]
    OBVIOUS
  <2>3. k # None => Grown(k)
    BY <2>1, <2>2 DEF LInv, Safe, Tip
  <2>4. k # None => Grown(k)'
    BY <1>2, <2>3, SameNodes DEF Grown, Under
  <2>5. Grown(Absent)' /\ Anc(Absent)' = {}
    BY <1>2, SameNodes, NoHead
  <2>6. heads'[d] = Absent /\ refCache'[d] = k /\ Past(d)' = {}
    BY <1>1, <1>2, <1>10, <2>2 DEF Past
  <2>7. Tip(d)'
    BY <2>4, <2>5, <2>6 DEF Tip, Carries
  <2>8. ASSUME NEW q \in Procs, call'[q].branch = d PROVE Carried(q)'
    <3>1. AtRest(call'[q])
      <4>1. CASE q = p
        BY <1>6, <1>7, <4>1
      <4>2. CASE q # p
        BY <1>7, <1>8, <2>1, <2>8, <4>2, OthersRest
      <4>3. QED BY <4>1, <4>2
    <3>2. AtRest(call[q])'
      BY <3>1 DEF AtRest
    <3>3. QED BY <3>2, RestCarried
  <2>9. QED BY <2>7, <2>8
<1>11. ASSUME NEW d \in Branches, d \notin expired PROVE Safe(d)'
  <2>1. ~(Landing(p, d) /\ heads[d] = call[p].node) /\ heads'[d] = heads[d]
        /\ refCache'[d] \in {refCache[d], Resolve(d)} /\ lossy[d] \subseteq lossy'[d]
    BY <1>1, <1>2, <1>11 DEF Landing
  <2>2. \A m : <<d, m>> \in acked' => <<d, m>> \in acked
    BY <1>1
  <2>3. \A q \in Procs \ {p} :
          call[q].branch = d /\ Exists(d) /\ call[q].step = "land" /\ Pending(q) => Pending(q)'
    BY <1>2, <1>7, PendingStays
  <2>4. AtRest(call'[p])
    BY <1>6, <1>7
  <2>5. QED BY <1>2, <1>7, <2>1, <2>2, <2>3, <2>4, Aside
<1>12. QED BY <1>2, <1>9, <1>10, <1>11, CellsStay DEF LInv, Safe

LEMMA RestartCarries ==
  ASSUME IInv, LInv, Restart
  PROVE  LInv'
<1>1. /\ UNCHANGED <<nodes, heads, acked, lossy>> /\ call' = [p \in Procs |-> Idle]
      /\ refCache' = [b \in Branches |-> None] /\ cell' = [n \in 1 .. LastNode |-> n]
  BY DEF Restart
<1>2. Cells'
  <2>1. \A n \in Made : cell'[n] = n
    BY <1>1 DEF Made
  <2>2. QED BY <1>1, <2>1, SameNodes DEF Cells
<1>3. \A q \in Procs : Treed(call[q])' /\ AtRest(call[q])'
  <2>1. Treed(Idle)' /\ AtRest(Idle)
    BY IdleRests DEF Treed, Flying, Idle
  <2>2. \A q \in Procs : call'[q] = Idle
    BY <1>1
  <2>3. QED BY <2>1, <2>2 DEF AtRest
<1>4. ASSUME NEW d \in Branches, lossy'[d] = {} PROVE Tip(d)'
  <2>1. Tip(d)
    BY <1>1, <1>4 DEF LInv, Safe
  <2>2. PICK h : h = heads[d]
    OBVIOUS
  <2>3. Grown(h)' /\ Carries(d, h)'
    BY <1>1, <2>1, <2>2, SameNodes DEF Tip, Grown, Under, Carries, Past
  <2>4. heads'[d] = h /\ refCache'[d] = None
    BY <1>1, <2>2
  <2>5. QED BY <2>3, <2>4 DEF Tip
<1>5. QED BY <1>2, <1>3, <1>4, RestCarried DEF LInv, Safe

LEMMA StutterCarries ==
  ASSUME IInv, LInv, UNCHANGED vars
  PROVE  LInv'
<1>1. UNCHANGED <<nodes, cell, heads, refCache, shadow, call, acked, lossy>>
  BY DEF vars, rows, caches, history
<1>2. Cells' = Cells /\ \A p \in Procs : Treed(call[p])' = Treed(call[p])
  BY <1>1 DEF Cells, Treed, Flying, Made, LastNode, Has, Hier
<1>3. \A b \in Branches : Tip(b)' = Tip(b) /\ Intruded(b)' = Intruded(b)
  BY <1>1 DEF Tip, Grown, Under, Carries, Past, Made, LastNode, Anc, Has, Hier, Intruded, Landing
<1>4. \A p \in Procs : Carried(p)' = Carried(p)
  <2>1. \A p \in Procs : Intruded(call[p].branch)' = Intruded(call[p].branch)
                         /\ Pending(p)' = Pending(p)
    BY <1>1 DEF Intruded, Landing, Pending, Op
  <2>2. QED BY <1>1, <2>1 DEF Carried, Writing, Grown, Under, Carries, Past, Made, LastNode, Anc,
               Has, Hier, Exists
<1>5. QED BY <1>1, <1>2, <1>3, <1>4 DEF LInv, Safe

LEMMA InitCarries ==
  ASSUME Init
  PROVE  LInv
<1>1. IInv
  BY InitHolds
<1>2. /\ nodes = <<[anc |-> {1}, hier |-> TRUE, has |-> {1}]>> /\ cell = <<1>>
      /\ heads = [b \in Branches |-> 1] /\ refCache = [b \in Branches |-> None]
      /\ call = [p \in Procs |-> Idle]
  BY DEF Init
<1>3. Made = {1} /\ Anc(1) = {1} /\ Has(1) = {1}
  BY <1>2 DEF Made, LastNode, Anc, Has
<1>4. Cells
  BY <1>2, <1>3 DEF Cells
<1>5. \A q \in Procs : Treed(call[q]) /\ AtRest(call[q])
  BY <1>1, <1>2, IdleRests
<1>6. \A b \in Branches : Tip(b)
  BY <1>2, <1>3 DEF Tip, Grown, Under, Carries, Past
<1>7. \A q \in Procs : Carried(q)
  BY <1>5 DEF AtRest, Carried, Writing
<1>8. QED BY <1>4, <1>5, <1>6, <1>7 DEF LInv, Safe

LEMMA NextCarries ==
  ASSUME IInv, LInv, [Next]_vars
  PROVE  LInv'
<1>1. CASE UNCHANGED vars
  BY <1>1, StutterCarries
<1>2. CASE Restart
  BY <1>2, RestartCarries
<1>3. ASSUME NEW p \in Procs,
             \/ StartCommit(p) \/ StartPick(p) \/ StartMerge(p) \/ StartRebase(p) \/ StartPop(p)
             \/ BuildTree(p) \/ ReadHead(p) \/ PushNode(p) \/ PushHead(p) \/ Land(p) \/ Log(p)
             \/ DropStash(p) \/ Fail(p) \/ GiveUp(p)
             \/ Reset(p) \/ CreateBranch(p) \/ DeleteBranch(p) \/ Stash(p)
             \/ StartGc(p) \/ Mark(p) \/ MarkFails(p) \/ Sweep(p)
      PROVE  LInv'
  <2>1. CASE StartCommit(p) \/ StartPick(p) \/ StartMerge(p) \/ StartRebase(p) \/ StartPop(p)
    BY <2>1, StartCommitCarries, StartPickCarries, StartMergeCarries, StartRebaseCarries,
       StartPopCarries
  <2>2. CASE BuildTree(p) \/ ReadHead(p) \/ PushNode(p) \/ PushHead(p) \/ Land(p) \/ Log(p)
    BY <2>2, BuildTreeCarries, ReadHeadCarries, PushNodeCarries, PushHeadCarries, LandCarries,
       LogCarries
  <2>3. CASE DropStash(p) \/ Fail(p) \/ GiveUp(p)
    BY <2>3, DropStashCarries, FailCarries, GiveUpCarries
  <2>4. CASE Reset(p) \/ CreateBranch(p) \/ DeleteBranch(p) \/ Stash(p)
    BY <2>4, ResetCarries, CreateBranchCarries, DeleteBranchCarries, StashCarries
  <2>5. CASE StartGc(p) \/ Mark(p) \/ MarkFails(p) \/ Sweep(p)
    BY <2>5, StartGcCarries, MarkCarries, MarkFailsCarries, SweepCarries
  <2>6. QED BY <1>3, <2>1, <2>2, <2>3, <2>4, <2>5
<1>4. QED BY <1>1, <1>2, <1>3 DEF Next

LEMMA LostInvHolds == Spec => [](IInv /\ LInv)
<1>1. Init => IInv /\ LInv
  BY InitHolds, InitCarries
<1>2. (IInv /\ LInv) /\ [Next]_vars => (IInv /\ LInv)'
  BY NextKeeps, NextCarries
<1>3. QED BY <1>1, <1>2, PTL DEF Spec

(* What was reported done on a branch is in the history and in the tree of  *)
(* its head, through concurrent commits, merges, failures, collections and  *)
(* restarts, except for the losses whose cause lossy names.                 *)
THEOREM NothingIsLost == Spec => []NoLostChange
<1>1. ASSUME IInv, LInv PROVE NoLostChange
  <2>1. ASSUME NEW b \in Branches, NEW n \in Made, <<b, n>> \in acked, lossy[b] = {}
        PROVE  n \in Anc(heads[b]) /\ (n \in Has(n) => n \in Has(heads[b]))
    <3>1. Carries(b, heads[b]) /\ n \in Past(b)
      BY <1>1, <2>1 DEF LInv, Safe, Tip, Past
    <3>2. QED BY <3>1 DEF Carries
  <2>2. acked \subseteq Branches \X Made
    BY <1>1 DEF IInv, Types, HistoryTypes
  <2>3. ASSUME NEW x \in acked
        PROVE  LET b == x[1]  n == x[2] IN
               lossy[b] = {} => n \in Anc(heads[b]) /\ (n \in Has(n) => n \in Has(heads[b]))
    <3>1. PICK b \in Branches, n \in Made : x = <<b, n>>
      BY <2>2, <2>3
    <3>2. x[1] = b /\ x[2] = n
      BY <3>1
    <3>3. QED BY <2>1, <2>3, <3>1, <3>2
  <2>4. QED BY <2>3 DEF NoLostChange
<1>2. QED BY <1>1, LostInvHolds, PTL
=============================================================================

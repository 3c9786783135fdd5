-------------------------------- MODULE Spider --------------------------------
(***************************************************************************)
(* Spider: the structural graph of a workspace (SpiderEngine.ts), the      *)
(* service that fills it from a commit or from its cache and keeps it up   *)
(* to date (SpiderService.ts), the audits (ForensicSpider.ts), and what    *)
(* is said of broken imports (StructuralDiscoveryService.ts,               *)
(* ForensicEngine.ts).                                                     *)
(*                                                                         *)
(* A file's text is known by what it imports and exports.  Everything      *)
(* except bootstrapGraph() runs without an await in its body, so each      *)
(* operation is one step; a bootstrap is several, and several may be under *)
(* way.  Metrics, layers, cycles and re-exports are left out, and so are   *)
(* capital letters, which normalizePath() takes from the paths.  The       *)
(* resolver's memo is cleared by every change of a node and before all     *)
(* imports are resolved: only where it outlives a change does it show.     *)
(***************************************************************************)
EXTENDS Integers, Sequences, FiniteSets, SequencesExt, Functions

CONSTANTS Files, Symbols,
          Specs, Candidates,   \* import specifiers, and the files each may mean, in order
          TextsOf,             \* the texts each file may have
          Starts,              \* what the workspace may be at first
          Imports,             \* per text, pairs of a specifier and a symbol
          Exports,             \* per text, symbols
          Line,                \* where a text has its import of a specifier
          Booters,             \* callers of bootstrapGraph()
          NoFile,                \* no such file
          MaxEdits, MaxChanges, MaxRestarts   \* bounds

Texts == UNION {TextsOf[f] : f \in Files}

ASSUME SpiderAssumption ==
    /\ TextsOf \in [Files -> SUBSET Texts] /\ NoFile \notin Texts
    /\ Starts \subseteq [Files -> Texts \cup {NoFile}]
    /\ \A tree \in Starts : \A f \in Files : tree[f] \in TextsOf[f] \cup {NoFile}
    /\ Candidates \in [Specs -> Seq(Files)]
    /\ Imports \in [Texts -> SUBSET (Specs \X Symbols)]
    /\ Exports \in [Texts -> SUBSET Symbols]
    /\ IsFiniteSet(Files) /\ IsFiniteSet(Specs) /\ Line \in [Texts \X Specs -> Nat]
    /\ \A t \in Texts : \A s, r \in Specs : Line[<<t, s>>] = Line[<<t, r>>] => s = r
    /\ {MaxEdits, MaxChanges, MaxRestarts} \subseteq Nat

VARIABLES
    disk,          \* the workspace's files
    head,          \* the tree of the branch head
    nodes,         \* engine.nodes
    registry,      \* what the symbol registry has per file
    current,       \* discovery.lastVersion = engine.version
    inverse,       \* discovery.inverseGraph
    cached,        \* files whose blast radius discovery.cache has
    seen,          \* ghostVerificationCache
    bootstrapped,
    boot,          \* each caller's bootstrapGraph()
    saved,         \* the cached graph in the knowledge table, and its commit
    report,        \* what the last applyChanges() found, and what there was to find
    ghosts,        \* likewise for the last audit of everything
    edits, changes, restarts,
    loose, causes  \* history, see below

engine == <<nodes, registry>>
discovery == <<current, inverse, cached>>
findings == <<report, ghosts>>
bounds == <<edits, changes, restarts>>
history == <<loose, causes>>
spiderVars == <<disk, head, engine, discovery, seen, bootstrapped, boot, saved, findings, bounds,
          history>>

NoTree == [f \in Files |-> NoFile]
\* The text of each node; which of two nodes was put in first, the order in which the Map
\* lists them; its resolved imports; the dependents it knows of (as pairs of a dependent
\* and the node); and the nodes older than their files.
NoGraph == [text |-> NoTree, before |-> {}, links |-> {}, dependents |-> {}, old |-> {}]
Unregistered == [f \in Files |-> {}]
Unsaved == [commit |-> {}, nodes |-> NoGraph]
Idle == [pc |-> "idle", last |-> {}, head |-> NoTree, todo |-> {}]
\* sure, met: history, see Sure.
Unseen == [text |-> NoFile, deps |-> {}, ghosts |-> {}, sure |-> TRUE, met |-> {}]
NoResult == [found |-> {}, due |-> {}]

-----------------------------------------------------------------------------
(* Resolution *)

Present(tree) == {f \in Files : tree[f] # NoFile}
Ids(ns) == Present(ns.text)
SpecsOf(text) == IF text = NoFile THEN {} ELSE {i[1] : i \in Imports[text]}

\* resolveImportToNodeId: the first candidate the graph knows, as a set of at most one.
Resolve(spec, known) ==
    LET hits == {i \in DOMAIN Candidates[spec] : Candidates[spec][i] \in known}
    IN  {Candidates[spec][i] : i \in {k \in hits : \A m \in hits : k <= m}}
\* What the imports of a text of file d mean: triples of d, a specifier and a file.
Links(d, text, known) ==
    UNION {{d} \X {spec} \X Resolve(spec, known) : spec \in SpecsOf(text)}
Targets(links) == {l[3] : l \in links}
AllLinks(ns) == UNION {Links(d, ns.text[d], Ids(ns)) : d \in Ids(ns)}
Pairs(links) == {<<l[1], l[3]>> : l \in links}
Edges(ns) == Pairs(AllLinks(ns))

\* getDiskPath: does the specifier mean a file?  (.js, .jsx and index.js, which it
\* tries and the resolver does not, are no members of Files.)
Exists(spec) == Resolve(spec, Present(disk)) # {}

-----------------------------------------------------------------------------
(* SpiderEngine: operators on the nodes *)

\* updateIncrementalCoupling, given the pairs of importer and import before and now.
\* Mutated form: only the files that are no longer imported hear of it.
RecoupledPart(dependents, was, now) == dependents \ (was \ now)
Recoupled(dependents, was, now) == (dependents \ (was \ now)) \cup (now \ was)

\* updateNode: nothing happens when the text is the one the graph has.  The node
\* gets the time stamp of the file on disk, wherever the text is from.  The imports
\* before and after are resolved as of now to tell their files of the dependent.
Updated(ns, f, text) ==
    LET new == [ns.text EXCEPT ![f] = text]
        was == Pairs(Links(f, ns.text[f], Present(new)))
        now == Pairs(Links(f, text, Present(new)))
    IN  IF ns.text[f] = text THEN ns
        ELSE [text |-> new,
              before |-> ns.before \cup (Ids(ns) \X ({f} \ Ids(ns))),
              links |-> {l \in ns.links : l[1] # f} \cup Links(f, text, Ids(ns)),
              dependents |-> Recoupled(ns.dependents, was, now),
              old |-> ns.old \ {f}]

\* removeNode of some: the nodes go, with what the graph knew of their dependents.
Removed(ns, gone) ==
    [text |-> [f \in Files |-> IF f \in gone THEN NoFile ELSE ns.text[f]],
     before |-> {p \in ns.before : {p[1], p[2]} \cap gone = {}},
     links |-> {l \in ns.links : l[1] \notin gone},
     dependents |-> {p \in ns.dependents : p[2] \notin gone},
     old |-> ns.old \ gone]

\* A file is indexed as it is on disk, or removed.
Indexed(f) == IF disk[f] = NoFile THEN Removed(nodes, {f}) ELSE Updated(nodes, f, disk[f])

\* resolveAllImports.
Resolved(ns) == [ns EXCEPT !.links = AllLinks(ns)]

\* computeCouplingMetrics, when the resolver answers by links.  It empties the dependents
\* of a node when it comes to it, and forgets those that it came to before.
Coupled(ns, links) ==
    [ns EXCEPT !.dependents =
        {p \in Pairs(links) : {p[1], p[2]} \subseteq Ids(ns) /\ p \notin ns.before}]
Forgotten(ns) == Edges(ns) \cap ns.before

\* The orders in which files can be listed, as pairs of a file and a later one.
Orders(files) ==
    {{p \in files \X files : \E i, j \in DOMAIN list : i < j /\ p = <<list[i], list[j]>>} :
        list \in SetToSeqs(files)}

\* buildGraph: an empty graph is updated with each file, in some order, and coupled.
Built(tree, order) ==
    LET ns == Resolved([text |-> tree, before |-> order, links |-> {}, dependents |-> {},
                        old |-> {}])
    IN  Coupled(ns, ns.links)

\* pruneDeadNodes, after resolveAllImports: the resolver still answers as it did
\* before the dead nodes went.
Pruned(ns) ==
    LET dead == Ids(ns) \ Present(disk)
    IN  IF dead = {} THEN ns ELSE Coupled(Removed(ns, dead), ns.links)

\* getNeighborhood: a radius of one around some files.
Neighborhood(ns, files) ==
    files \cup {p[2] : p \in {q \in Edges(ns) : q[1] \in files}}
          \cup {p[1] : p \in {q \in ns.dependents : q[2] \in files}}

\* The symbol registry after these files were updated or removed by their functions.
\* Mutated form: what was registered stays.
RegisteredMore(ns, touched) ==
    [f \in Files |-> registry[f] \cup IF f \in touched \cap Ids(ns) THEN Exports[ns.text[f]] ELSE {}]
Registered(ns, touched) ==
    [f \in Files |-> IF f \notin touched THEN registry[f]
                     ELSE IF f \in Ids(ns) THEN Exports[ns.text[f]] ELSE {}]
Touched(ns) == {f \in Files : ns.text[f] # nodes.text[f]}

-----------------------------------------------------------------------------
(* What is said of broken imports *)

\* getBlastRadius: the files that a search from f over an inverse graph reaches, which
\* are in every set that has f and is closed under the search.
Closed(inv, files) == \A p \in inv : p[2] \in files => p[1] \in files
Reached(inv, f) ==
    {p[1] : p \in {q \in inv : \A files \in SUBSET Files :
                                f \in files /\ Closed(inv, files) => q[2] \in files}}

\* getDeficiencyReport: per importer and missing symbol, who else provides it.
Deficiencies(ns, reg, f, affected) ==
    {<<c[1], c[2], {g \in Files : c[2] \in reg[g]}>> :
        c \in {e \in (affected \cap Ids(ns)) \X (Symbols \ reg[f]) :
            \E spec \in Specs : /\ <<e[1], spec, f>> \in ns.links
                               /\ <<spec, e[2]>> \in Imports[ns.text[e[1]]]}}

\* findGhosts for one file d, when the resolver answers by links: imports of files
\* that do not exist, and of symbols that the nodes of their files do not export.
GhostsIn(ns, d, links) ==
    {<<d, i[1], NoFile>> : i \in {j \in Imports[disk[d]] : ~Exists(j[1])}}
    \cup {<<d, i[1], i[2]>> : i \in {j \in Imports[disk[d]] :
            Exists(j[1]) /\ \E g \in Ids(ns) : /\ <<d, j[1], g>> \in links
                                              /\ j[2] \notin Exports[ns.text[g]]}}

\* Its cache is good for a text and the texts of what the node's imports resolve to, in
\* the order of the imports; those that resolve to nothing are skipped.
Met(ns, d, links) == {spec \in SpecsOf(ns.text[d]) : \E g \in Ids(ns) : <<d, spec, g>> \in links}
Place(text, met, spec) == Cardinality({r \in met : Line[<<text, r>>] < Line[<<text, spec>>]})
Deps(ns, d, links) ==
    LET met == Met(ns, d, links)
    IN  {<<Place(ns.text[d], met, l[2]), ns.text[l[3]]>> :
            l \in {k \in links : k[1] = d /\ k[2] \in met /\ k[3] \in Ids(ns)}}
\* Mutated form: good for a text.
LookedText(ns, d, links, sure) ==
    IF seen[d].text = disk[d] THEN seen[d]
    ELSE [text |-> disk[d], deps |-> {}, ghosts |-> GhostsIn(ns, d, links), sure |-> sure,
          met |-> Met(ns, d, links)]
Looked(ns, d, links, sure) ==
    LET deps == Deps(ns, d, links)
    IN  IF seen[d].text = disk[d] /\ seen[d].deps = deps THEN seen[d]
        ELSE [text |-> disk[d], deps |-> deps, ghosts |-> GhostsIn(ns, d, links), sure |-> sure,
              met |-> Met(ns, d, links)]

-----------------------------------------------------------------------------
(* History: not state of the code.                                         *)
(*   loose: imports that nothing couples: pairs <<d, f>> such that an      *)
(*   import of d came to mean f while the imports of d stayed as they were, *)
(*   or that computeCouplingMetrics forgot.                                 *)
(*   causes: why a report may be wrong, "loaded" when a graph came from the *)
(*   cache, and "dropped" when nodes went that the registry still has.      *)

Loosened(ns) ==
    loose \cup {e \in Edges(ns) \ Edges(nodes) :
                    /\ e[1] \in Ids(nodes)
                    /\ SpecsOf(ns.text[e[1]]) = SpecsOf(nodes.text[e[1]])}

\* What there is to report of the importers of a file of the graph ...
Broken(ns, f) ==
    {<<e[1], e[2], {g \in Ids(ns) : e[2] \in Exports[ns.text[g]]}>> :
        e \in {c \in Ids(ns) \X (Symbols \ Exports[ns.text[f]]) :
                \E spec \in Specs : /\ <<spec, c[2]>> \in Imports[ns.text[c[1]]]
                                   /\ Resolve(spec, Ids(ns)) = {f}}}
\* ... and of the imports of a file on disk.
Dangling(d) ==
    {<<d, i[1], IF Exists(i[1]) THEN i[2] ELSE NoFile>> :
        i \in {j \in Imports[disk[d]] :
                ~\E f \in Resolve(j[1], Present(disk)) : j[2] \in Exports[disk[f]]}}

\* A resolver that knows only the files of the graph may take another file for the
\* one on disk, and one with a memo may name a node that went.  (Where this holds when
\* ghosts are looked for, and again when they are found in the cache, with the same
\* imports resolved, the cache has to be right.)
Sure(ns, d, links) ==
    /\ ns.text[d] = disk[d]
    /\ links = Links(d, disk[d], Ids(ns))
    /\ \A spec \in SpecsOf(disk[d]) :
            Range(Candidates[spec]) \cap Present(disk) \subseteq Ids(ns)

-----------------------------------------------------------------------------

SpiderInit ==
    /\ disk \in Starts
    /\ head = disk
    /\ nodes = NoGraph /\ registry = Unregistered
    /\ current = FALSE /\ inverse = {} /\ cached = {}
    /\ seen = [f \in Files |-> Unseen]
    /\ bootstrapped = FALSE
    /\ boot = [b \in Booters |-> Idle]
    /\ saved = Unsaved
    /\ report = NoResult /\ ghosts = NoResult
    /\ edits = 0 /\ changes = 0 /\ restarts = 0
    /\ loose = {} /\ causes = {}

\* The nodes become ns by updates and removals, which count versions.
Becomes(ns) ==
    /\ nodes' = ns
    /\ registry' = Registered(ns, Touched(ns))
    /\ loose' = Loosened(ns)
    /\ current' = (current /\ Touched(ns) = {})
    /\ UNCHANGED <<inverse, cached, causes>>

Change == changes < MaxChanges /\ changes' = changes + 1

-----------------------------------------------------------------------------
(* The workspace *)

\* A file is written or deleted: its node is older than it.
Edit(f, text) ==
    /\ edits < MaxEdits /\ edits' = edits + 1
    /\ disk[f] # text
    /\ disk' = [disk EXCEPT ![f] = text]
    /\ nodes' = [nodes EXCEPT !.old = @ \cup ({f} \cap Ids(nodes))]
    /\ saved' = [saved EXCEPT !.nodes.old = @ \cup ({f} \cap Ids(saved.nodes))]
    /\ UNCHANGED <<head, registry, discovery, seen, bootstrapped, boot, findings, changes,
                    restarts, history>>

\* The files are committed to the branch.
CommitFiles ==
    /\ head # disk
    /\ head' = disk
    /\ UNCHANGED <<disk, engine, discovery, seen, bootstrapped, boot, saved, findings, bounds,
                    history>>

-----------------------------------------------------------------------------
(* SpiderService *)

\* applyChanges of one file, and its diagnostics, for which the file is looked at as
\* if it were the only one of the graph.
ApplyChanges(f) ==
    LET ns == Resolved(Indexed(f))
        reg == Registered(ns, Touched(ns))
        inv == IF current /\ Touched(ns) = {} THEN inverse ELSE Pairs(ns.links)
        known == f \in Ids(ns)
    IN  /\ Change
        /\ nodes' = ns /\ registry' = reg /\ loose' = Loosened(ns)
        /\ current' = (known \/ (current /\ Touched(ns) = {}))
        /\ inverse' = IF known THEN inv ELSE inverse
        /\ cached' = IF known THEN {f} ELSE {}
        /\ seen' = IF known THEN [seen EXCEPT ![f] = Looked(NoGraph, f, {}, FALSE)] ELSE seen
        /\ report' = IF known THEN [found |-> Deficiencies(ns, reg, f, Reached(inv, f)),
                                   due |-> Broken(ns, f)]
                     ELSE NoResult
        /\ UNCHANGED <<disk, head, saved, edits, restarts, bootstrapped, boot, ghosts, causes>>

\* resync of one file.
Resync(f) ==
    /\ Change
    /\ Becomes(Resolved(Indexed(f)))
    /\ UNCHANGED <<disk, head, saved, edits, restarts, seen, bootstrapped, boot, findings>>

\* verifyGraphIntegrity.
Verified == Removed(nodes, Ids(nodes) \ Present(disk))
VerifyGraph ==
    /\ Change
    /\ Becomes(Verified)
    /\ UNCHANGED <<disk, head, saved, edits, restarts, seen, bootstrapped, boot, findings>>

\* audit: the files of the scope are read and then indexed in some order: each is coupled
\* as the imports resolve among the nodes there were and the files indexed before it.
Among(read, order, f) == Ids(nodes) \cup {g \in read : g = f \/ <<g, f>> \in order}
Audited(read, order) ==
    LET changed == {f \in read : nodes.text[f] # disk[f]}
        new == read \ Ids(nodes)
        pairs(text) == UNION {Pairs(Links(f, text[f], Among(read, order, f))) : f \in changed}
    IN  Resolved([text |-> [f \in Files |-> IF f \in read THEN disk[f] ELSE nodes.text[f]],
                  before |-> nodes.before \cup (Ids(nodes) \X new) \cup (order \cap (new \X new)),
                  links |-> {},
                  dependents |-> Recoupled(nodes.dependents, pairs(nodes.text), pairs(disk)),
                  old |-> nodes.old \ changed])
\* Imports that came to mean a new file when their own file had been indexed already, or
\* by the text that it had before.
Overtaken(read, order) ==
    {e \in Edges(Audited(read, order)) :
        /\ e[2] \in read \ Ids(nodes)
        /\ \/ e \in order
           \/ e[2] \in Targets(Links(e[1], nodes.text[e[1]], Among(read, order, e[2])))}

\* Whatever the scope, dead nodes are pruned and all nodes are searched for ghosts.
Audit(scope, order) ==
    LET read == Audited(scope \cap Present(disk), order)
        ns == Pruned(read)
        links(d) == {l \in read.links : l[1] = d} \cup
                    {l \in Links(d, disk[d], Ids(ns)) : l[2] \notin SpecsOf(read.text[d])}
        alike == {d \in Ids(ns) : Sure(ns, d, links(d))}
        firm == {d \in alike : seen'[d].sure /\ seen'[d].met = Met(ns, d, links(d))}
    IN  /\ bootstrapped /\ Change
        /\ nodes' = ns /\ registry' = Registered(read, Touched(read))
        /\ loose' = IF ns = read THEN loose \cup Overtaken(scope \cap Present(disk), order)
                    ELSE (Edges(ns) \ Edges(read)) \cup Forgotten(ns)
        /\ causes' = IF ns = read THEN causes ELSE causes \cup {"dropped"}
        /\ seen' = [d \in Files |-> IF d \in Ids(ns) THEN Looked(ns, d, links(d), d \in alike)
                                    ELSE seen[d]]
        /\ ghosts' = IF scope = Ids(nodes)
                     THEN [found |-> UNION {seen'[d].ghosts : d \in firm},
                           due |-> UNION {Dangling(d) : d \in firm}]
                     ELSE ghosts
        /\ UNCHANGED <<disk, head, saved, edits, restarts, bootstrapped, boot, report>>

UpToDate == current /\ nodes'.text = nodes.text

AuditAll == /\ Audit(Ids(nodes), {}) /\ current' = UpToDate
            /\ UNCHANGED <<inverse, cached>>
\* scope "changed-files".
AuditChanged == /\ Audit(nodes.old \cup (Ids(nodes) \ Present(disk)), {}) /\ current' = UpToDate
                /\ UNCHANGED <<inverse, cached>>
\* preflight: the neighborhood of a neighborhood, the file first, then the impact of the
\* file.
Preflight(f) ==
    LET looks == f \in Ids(nodes') \ cached
        scope == Neighborhood(nodes, Neighborhood(nodes, {f}))
        read == scope \cap Present(disk)
    IN  /\ \E order \in Orders(read) :
            /\ \A g \in read : <<g, f>> \notin order
            /\ Audit(scope, order)
        /\ current' = (UpToDate \/ looks)
        /\ inverse' = IF looks /\ ~UpToDate THEN Pairs(nodes'.links) ELSE inverse
        /\ cached' = IF ~looks THEN cached ELSE IF UpToDate THEN cached \cup {f} ELSE {f}

-----------------------------------------------------------------------------
(* bootstrapGraph *)

At(b, pc) == boot[b].pc = pc
Goes(b, pc) == boot' = [boot EXCEPT ![b].pc = pc]
Ends(b) == boot' = [boot EXCEPT ![b] = Idle] /\ bootstrapped' = TRUE
Save(b, ns) == saved' = [commit |-> {boot[b].head}, nodes |-> ns]
Outside == <<disk, head, seen, findings, bounds>>

StartBoot(b) ==
    /\ ~bootstrapped /\ At(b, "idle")
    /\ Goes(b, "load")
    /\ UNCHANGED <<Outside, engine, discovery, bootstrapped, saved, history>>

\* deserialize: the registry and the version hear nothing of it, and the memo of the
\* resolver has what was resolved among the nodes there were.
LoadCache(b) ==
    LET ns == saved.nodes
        memo(d) == {l \in AllLinks(nodes) : l[1] = d /\ l[2] \in SpecsOf(ns.text[d])}
        links(d) == memo(d) \cup
                    {l \in Links(d, ns.text[d], Ids(ns)) : l[2] \notin SpecsOf(nodes.text[d])}
        coupled == Coupled(ns, UNION {links(d) : d \in Ids(ns)})
        remembered == {e \in Edges(ns) : e[1] \in Ids(nodes)}
    IN  /\ At(b, "load") /\ saved # Unsaved
        /\ nodes' = coupled
        /\ loose' = remembered \cup Forgotten(ns)
        /\ causes' = causes \cup {"loaded"}
        /\ boot' = [boot EXCEPT ![b].pc = "head", ![b].last = saved.commit]
        /\ UNCHANGED <<Outside, registry, discovery, bootstrapped, saved>>
NoCache(b) ==
    /\ At(b, "load") /\ saved = Unsaved
    /\ Goes(b, "head")
    /\ UNCHANGED <<Outside, engine, discovery, bootstrapped, saved, history>>

ReadHead(b) ==
    /\ At(b, "head")
    /\ IF boot[b].last = {head} THEN Ends(b)
       ELSE /\ boot' = [boot EXCEPT ![b].head = head,
                                    ![b].pc = IF boot[b].last = {} THEN "read" ELSE "diff"]
            /\ UNCHANGED bootstrapped
    /\ UNCHANGED <<Outside, engine, discovery, saved, history>>

\* The files that went are removed; those that differ are then read one by one.
Diff(b) ==
    LET was == CHOOSE tree \in boot[b].last : TRUE
        tree == boot[b].head
        ns == Removed(nodes, Present(was) \ Present(tree))
        todo == {f \in Present(tree) : tree[f] # was[f]}
    IN  /\ At(b, "diff")
        /\ Becomes(ns)
        /\ IF todo = {} THEN Ends(b) /\ Save(b, ns)
           ELSE /\ boot' = [boot EXCEPT ![b].pc = "update", ![b].todo = todo]
                /\ UNCHANGED <<bootstrapped, saved>>
        /\ UNCHANGED Outside

\* A file is read from the branch as it is now.
UpdateFile(b, f) ==
    LET ns == Updated(nodes, f, head[f])
    IN  /\ At(b, "update") /\ f \in boot[b].todo /\ head[f] # NoFile
        /\ Becomes(ns)
        /\ IF boot[b].todo = {f} THEN Ends(b) /\ Save(b, ns)
           ELSE /\ boot' = [boot EXCEPT ![b].todo = @ \ {f}]
                /\ UNCHANGED <<bootstrapped, saved>>
        /\ UNCHANGED Outside
\* Whatever fails while the commits are compared (one that gc() took, a file that the
\* branch no longer has), everything is read instead.
FallsBack(b) ==
    /\ At(b, "diff") \/ At(b, "update")
    /\ boot' = [boot EXCEPT ![b].pc = "read", ![b].todo = {}]
    /\ UNCHANGED <<Outside, engine, discovery, bootstrapped, saved, history>>

\* The full read, then the graph is built of what was read.
ReadTree(b) ==
    /\ At(b, "read")
    /\ boot' = [boot EXCEPT ![b].pc = "build", ![b].last = {head}]
    /\ UNCHANGED <<Outside, engine, discovery, bootstrapped, saved, history>>
Build(b) ==
    /\ At(b, "build")
    /\ \E tree \in boot[b].last : \E order \in Orders(Present(tree)) :
         LET ns == Built(tree, order)
         IN  /\ nodes' = ns /\ registry' = Registered(ns, Ids(ns))
             /\ current' = (current /\ Ids(ns) = {}) /\ cached' = {}
             /\ loose' = Forgotten(ns)
             /\ causes' = causes \cup (IF Ids(nodes) \subseteq Ids(ns) THEN {} ELSE {"dropped"})
    /\ Goes(b, "finish")
    /\ UNCHANGED <<Outside, inverse, bootstrapped, saved>>

\* After the churn of every node was read.
FinishBoot(b) ==
    /\ At(b, "finish")
    /\ bootstrapped' = TRUE /\ Save(b, nodes)
    /\ Goes(b, "verify")
    /\ UNCHANGED <<Outside, engine, discovery, history>>
VerifyBoot(b) ==
    /\ At(b, "verify")
    /\ Becomes(Verified)
    /\ Ends(b)
    /\ UNCHANGED <<Outside, saved>>

\* Whatever fails, the graph counts as bootstrapped.
BootFails(b) ==
    /\ ~At(b, "idle")
    /\ Ends(b)
    /\ UNCHANGED <<Outside, engine, discovery, saved, history>>

\* The process ends and another begins, with the rows of the database.
Restart ==
    /\ restarts < MaxRestarts /\ restarts' = restarts + 1
    /\ nodes' = NoGraph /\ registry' = Unregistered
    /\ current' = FALSE /\ inverse' = {} /\ cached' = {}
    /\ seen' = [f \in Files |-> Unseen]
    /\ bootstrapped' = FALSE /\ boot' = [b \in Booters |-> Idle]
    /\ report' = NoResult /\ ghosts' = NoResult
    /\ loose' = {} /\ causes' = {}
    /\ UNCHANGED <<disk, head, saved, edits, changes>>

Bootstrap(b) ==
    \/ StartBoot(b) \/ LoadCache(b) \/ NoCache(b) \/ ReadHead(b) \/ Diff(b)
    \/ (\E f \in Files : UpdateFile(b, f)) \/ FallsBack(b)
    \/ ReadTree(b) \/ Build(b) \/ FinishBoot(b) \/ VerifyBoot(b) \/ BootFails(b)

SpiderNext ==
    \/ \E f \in Files : \/ \E text \in TextsOf[f] \cup {NoFile} : Edit(f, text)
                        \/ ApplyChanges(f) \/ Resync(f) \/ Preflight(f)
    \/ CommitFiles \/ VerifyGraph \/ AuditAll \/ AuditChanged \/ Restart
    \/ \E b \in Booters : Bootstrap(b)

SpiderSpec == SpiderInit /\ [][SpiderNext]_spiderVars

-----------------------------------------------------------------------------
(* Properties *)

\* The graph has texts and links of its files, and bootstraps are where they can be.
SpiderTypeOK ==
    /\ {disk, head} \subseteq [Files -> Texts \cup {NoFile}]
    /\ \A ns \in {nodes, saved.nodes} :
        /\ \A f \in Files : ns.text[f] \in TextsOf[f] \cup {NoFile}
        /\ ns.before \subseteq Ids(ns) \X Ids(ns)
        /\ ns.links \subseteq Ids(ns) \X Specs \X Files
        /\ ns.dependents \subseteq Files \X Ids(ns)
        /\ ns.old \subseteq Ids(ns)
    /\ registry \in [Files -> SUBSET Symbols] /\ inverse \subseteq Files \X Files
    /\ {current, bootstrapped} \subseteq BOOLEAN /\ cached \subseteq Files
    /\ \A b \in Booters : boot[b].pc \in {"idle", "load", "head", "diff", "update", "read",
                                          "build", "finish", "verify"}

\* What applyChanges() says of the importers of a changed file (SpiderService.ts:1164)
\* is what there is to say, with all who provide the missing symbols: none is left out
\* and none made up, in any order of changes, audits and bootstraps, unless the graph
\* came from the cache or nodes went without the registry.
ReportExact == causes = {} => report.found = report.due

\* Every file that imports another by its present resolution is in the neighborhood
\* that a preflight looks at (SpiderEngine.ts:1453), unless it was the other file's
\* coming or going that made the import mean it, or the dependents were all counted anew
\* and the importer came before the other file in the Map (MetricsEngine.ts:236).
NeighborsKnown == SpiderTypeOK /\ Edges(nodes) \subseteq nodes.dependents \cup loose

\* An audit of everything finds the imports that dangle on disk and no others, though
\* it keeps what earlier audits found (ForensicEngine.ts:199), for every file whose
\* imports the graph could resolve as the disk does both times, the same ones both times.
GhostsExact == ghosts.found = ghosts.due
=============================================================================

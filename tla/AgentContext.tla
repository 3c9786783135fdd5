---------------------------- MODULE AgentContext ----------------------------
(***************************************************************************)
(* The lifecycle of AgentContext and its LifecycleRegistry, and the memory *)
(* it owns: long contents as blobs named by their hash (StorageService),   *)
(* the knowledge rows that refer to them (GraphService), the garbage       *)
(* collection of CleanupService and the scratchpad.  Processes share the   *)
(* workspace's directory and database; each has one context with its own   *)
(* write buffer.                                                           *)
(*                                                                         *)
(* A step ends at an await that another call can use.  The buffer of       *)
(* BufferedDbPool is the operations that readers of the process overlay    *)
(* and a flush lands with its deletions last; a blob is its own shard;     *)
(* the mutex, lsp and coordinator components, which hold nothing that is   *)
(* modelled, edges, tags and short contents are left out.                  *)
(***************************************************************************)
EXTENDS Integers, Sequences, FiniteSets

CONSTANTS Procs, Texts, Nodes,
          Expiring,      \* the nodes that are added with an expiresAt
          Files,         \* names of scratchpad entries
          Budgets,       \* bounds, one is chosen: calls and faults by kind, and
                         \* "up", whether the contexts are started already
          None

Kinds == {"start", "stop", "fail", "add", "delete", "read", "gc", "expire",
          "scratch", "clear", "crash"}

ASSUME ContextAssumption ==
  /\ Expiring \subseteq Nodes /\ None \notin Texts \cup Nodes \cup Files
  /\ \A b \in Budgets : /\ DOMAIN b = Kinds \cup {"up"} /\ b.up \in BOOLEAN
                        /\ \A k \in Kinds : b[k] \in Nat

\* startOrder; stopOrder is its reverse.
Order == <<"db", "storage", "cleanup", "orchestration">>
Comps == {Order[i] : i \in DOMAIN Order}
\* The components whose start() awaits something.
Slow == {"db", "storage", "orchestration"}
\* A second start() or stop() can be called while the first one runs.
Callers == {1, 2}

VARIABLES life,     \* per process, AgentContext.lifecycleState
          active,   \* per process, LifecycleRegistry.active
          comp,     \* per process and component, its lifecycleState
          starts,   \* per process and caller, where its start() is
          stops     \* per process and caller, where its stop() is

VARIABLES row,      \* per node, the text its knowledge row on disk refers to
          past,     \* the nodes whose expiresAt has passed
          buf,      \* per process, the writes that wait in its pool
          blob,     \* per text: "none", "torn" while it is written, or "whole"
          found,    \* per process, the blob a read has found torn and moves away
          writer,   \* per process, the write of a blob that is under way
          gc        \* per process, its pass of the garbage collection

VARIABLES ptr,      \* per scratchpad file, the text it points to, or "empty"
          lock      \* per scratchpad file, whether its lock file exists

VARIABLE left       \* what is left of the budget

\* History.  Per process: whether start() and stop() calls overlapped, whether
\* workspace.init() failed after the components had started.  Per text, what may
\* have cost a row its blob.  Per file: the last write that returned, and whether
\* a crash or clear() intervened.
VARIABLES overlap, halfUp, harm, stands, disturbed

cycle == <<life, active, comp, starts, stops, overlap, halfUp>>
rows == <<row, past, buf>>
blobs == <<blob, found, harm>>
pad == <<ptr, lock, stands, disturbed>>
vars == <<cycle, rows, blobs, pad, writer, gc, left>>

Resting == [pc |-> "none", i |-> 0]
NoWrite == [pc |-> "none", text |-> None, node |-> None, file |-> None, lost |-> FALSE]
NoPass == [pc |-> "none", refs |-> {}, safe |-> {}, todo |-> {}]
\* put: per node, the last buffered write (None deletes); cut: the nodes with a
\* buffered deletion; sweep, doomed: what the buffered deletion of expired rows
\* hides from readers, and what it will delete.
NoBuffer == [put |-> [n \in Nodes |-> "no"], cut |-> {}, sweep |-> {}, doomed |-> {}]

\* A process that has just begun.
Fresh == IF left.up THEN "started" ELSE "new"
AllFresh == [c \in Comps |-> Fresh]
NoCalls == [c \in Callers |-> Resting]

Init ==
  /\ left \in Budgets
  /\ life = [p \in Procs |-> Fresh] /\ active = [p \in Procs |-> left.up]
  /\ comp = [p \in Procs |-> AllFresh]
  /\ starts = [p \in Procs |-> NoCalls] /\ stops = [p \in Procs |-> NoCalls]
  /\ row = [n \in Nodes |-> None] /\ past = {}
  /\ buf = [p \in Procs |-> NoBuffer]
  /\ blob = [t \in Texts |-> "none"] /\ found = [p \in Procs |-> None]
  /\ writer = [p \in Procs |-> NoWrite] /\ gc = [p \in Procs |-> NoPass]
  /\ ptr = [f \in Files |-> None] /\ lock = [f \in Files |-> FALSE]
  /\ overlap = [p \in Procs |-> FALSE] /\ halfUp = [p \in Procs |-> FALSE]
  /\ harm = [t \in Texts |-> {}]
  /\ stands = [f \in Files |-> None] /\ disturbed = [f \in Files |-> FALSE]

Spend(k) == left[k] > 0 /\ left' = [left EXCEPT ![k] = @ - 1]
Up(p, c) == comp[p][c] = "started"

----------------------------------------------------------------------------
(* start() and stop()                                                      *)

Calling(p) == \E c \in Callers : starts[p][c] # Resting \/ stops[p][c] # Resting

Goes(p, c, pc, i) == starts' = [starts EXCEPT ![p][c] = [pc |-> pc, i |-> i]]
Ends(p, c) == starts' = [starts EXCEPT ![p][c] = Resting]
Becomes(p, c, s) == comp' = [comp EXCEPT ![p][c] = s]

Start(p, c) ==
  /\ starts[p][c] = Resting /\ life[p] \notin {"started", "stopped"} /\ Spend("start")
  /\ life' = [life EXCEPT ![p] = "starting"]
  /\ IF active[p] THEN Goes(p, c, "init", 0) ELSE Goes(p, c, "at", 1)
  /\ overlap' = [overlap EXCEPT ![p] = @ \/ Calling(p)]
  /\ UNCHANGED <<active, comp, stops, halfUp, rows, blobs, pad, writer, gc>>

UnwindsNothing(p, c, i) == Goes(p, c, "unwind", 0)

\* The component throws: what this call found started is stopped, last one first.
Unwinds(p, c, i) == Goes(p, c, "unwind", i - 1)

StartComponent(p, c) ==
  LET i == starts[p][c].i  name == Order[i] IN
  /\ starts[p][c].pc = "at" /\ i <= Len(Order)
  /\ \/ /\ Up(p, name) /\ Goes(p, c, "at", i + 1) /\ UNCHANGED comp
     \/ /\ comp[p][name] = "stopped" /\ name # "orchestration"
        /\ Unwinds(p, c, i) /\ UNCHANGED comp
     \/ /\ ~Up(p, name) /\ (comp[p][name] # "stopped" \/ name = "orchestration")
        /\ IF name \in Slow
           THEN /\ Goes(p, c, "waits", i)
                /\ IF name = "db" THEN Becomes(p, name, "starting") ELSE UNCHANGED comp
           ELSE Goes(p, c, "at", i + 1) /\ Becomes(p, name, "started")
  /\ UNCHANGED <<life, active, stops, overlap, halfUp, rows, blobs, pad, writer, gc, left>>

\* What the component awaited is done.  The pool shares one start between its
\* callers; orchestration restores its sessions from the database.
ComponentStarted(p, c) ==
  LET i == starts[p][c].i  name == Order[i] IN
  /\ starts[p][c].pc = "waits"
  /\ name = "db" => comp[p][name] \in {"starting", "started"}
  /\ name = "orchestration" => Up(p, "db")
  /\ Goes(p, c, "at", i + 1) /\ Becomes(p, name, "started")
  /\ UNCHANGED <<life, active, stops, overlap, halfUp, rows, blobs, pad, writer, gc, left>>

ComponentFails(p, c) ==
  LET i == starts[p][c].i  name == Order[i] IN
  /\ starts[p][c].pc = "waits"
  /\ \/ name = "db" /\ comp[p][name] \in {"new", "stopped"} /\ UNCHANGED <<comp, left>>
     \/ name = "db" /\ comp[p][name] = "starting" /\ Spend("fail") /\ Becomes(p, name, "new")
     \/ name = "orchestration" /\ ~Up(p, "db") /\ UNCHANGED <<comp, left>>
     \/ name # "db" /\ Spend("fail") /\ UNCHANGED comp
  /\ Unwinds(p, c, i)
  /\ UNCHANGED <<life, active, stops, overlap, halfUp, rows, blobs, pad, writer, gc>>

AllStarted(p, c) ==
  /\ starts[p][c].pc = "at" /\ starts[p][c].i > Len(Order)
  /\ active' = [active EXCEPT ![p] = TRUE]
  /\ Goes(p, c, "init", 0)
  /\ UNCHANGED <<life, comp, stops, overlap, halfUp, rows, blobs, pad, writer, gc, left>>

\* workspace.init() reads and writes its rows.
InitWorkspace(p, c) ==
  /\ starts[p][c].pc = "init" /\ Up(p, "db")
  /\ life' = [life EXCEPT ![p] = "started"] /\ halfUp' = [halfUp EXCEPT ![p] = FALSE]
  /\ Ends(p, c)
  /\ UNCHANGED <<active, comp, stops, overlap, rows, blobs, pad, writer, gc, left>>

InitFails(p, c) ==
  /\ starts[p][c].pc = "init"
  /\ IF Up(p, "db") THEN Spend("fail") ELSE UNCHANGED left
  /\ life' = [life EXCEPT ![p] = "new"] /\ halfUp' = [halfUp EXCEPT ![p] = TRUE]
  /\ Ends(p, c)
  /\ UNCHANGED <<active, comp, stops, overlap, rows, blobs, pad, writer, gc>>

----------------------------------------------------------------------------
(* Reads, writes and flushes of the pool                                   *)

Visible(p, n) ==
  IF n \in buf[p].sweep THEN None
  ELSE IF buf[p].put[n] = "no" THEN row[n] ELSE buf[p].put[n]
SeenTexts(p) == {Visible(p, n) : n \in Nodes} \ {None}

\* An upsert, or a deletion (None).
Push(p, n, text) ==
  buf' = [buf EXCEPT ![p].put[n] = text, ![p].sweep = @ \ {n},
                     ![p].cut = IF text = None THEN @ \cup {n} ELSE @]

\* The batch lands, its deletions last.
Landed(p) ==
  [n \in Nodes |-> IF n \in buf[p].cut \cup buf[p].doomed THEN None
                   ELSE IF buf[p].put[n] = "no" THEN row[n] ELSE buf[p].put[n]]

Flush(p) ==
  /\ Up(p, "db") /\ buf[p] # NoBuffer
  /\ row' = Landed(p) /\ buf' = [buf EXCEPT ![p] = NoBuffer]
  /\ UNCHANGED <<cycle, past, blobs, pad, writer, gc, left>>

\* Stopping the pool flushes it, and waits for a start of it that is under way.
StopsComponent(p, name) ==
  /\ name = "db" => comp[p][name] # "starting"
  /\ Becomes(p, name, "stopped")
  /\ IF name = "db" /\ Up(p, name)
     THEN row' = Landed(p) /\ buf' = [buf EXCEPT ![p] = NoBuffer]
     ELSE UNCHANGED <<row, buf>>

Unwind(p, c) ==
  LET i == starts[p][c].i IN
  /\ starts[p][c].pc = "unwind"
  /\ IF i = 0
     THEN Ends(p, c) /\ life' = [life EXCEPT ![p] = "new"] /\ UNCHANGED <<comp, row, buf>>
     ELSE StopsComponent(p, Order[i]) /\ Goes(p, c, "unwind", i - 1) /\ UNCHANGED life
  /\ UNCHANGED <<active, stops, overlap, halfUp, past, blobs, pad, writer, gc, left>>

Stop(p, c) ==
  /\ stops[p][c] = Resting /\ life[p] # "stopped" /\ Spend("stop")
  /\ IF life[p] = "new"
     THEN life' = [life EXCEPT ![p] = "stopped"] /\ UNCHANGED <<active, stops>>
     ELSE /\ life' = [life EXCEPT ![p] = "stopping"]
          /\ active' = [active EXCEPT ![p] = FALSE]
          /\ stops' = [stops EXCEPT ![p][c] =
                         [pc |-> "at", i |-> IF active[p] THEN Len(Order) ELSE 0]]
  /\ overlap' = [overlap EXCEPT ![p] = @ \/ Calling(p)]
  /\ UNCHANGED <<comp, starts, halfUp, rows, blobs, pad, writer, gc>>

StopStep(p, c) ==
  LET i == stops[p][c].i IN
  /\ stops[p][c].pc = "at"
  /\ IF i = 0
     THEN /\ life' = [life EXCEPT ![p] = "stopped"]
          /\ stops' = [stops EXCEPT ![p][c] = Resting] /\ UNCHANGED <<comp, row, buf>>
     ELSE /\ StopsComponent(p, Order[i])
          /\ stops' = [stops EXCEPT ![p][c].i = i - 1] /\ UNCHANGED life
  /\ UNCHANGED <<active, starts, overlap, halfUp, past, blobs, pad, writer, gc, left>>

----------------------------------------------------------------------------
(* Blobs                                                                   *)

OnIt(p, t) == writer[p].pc = "write" /\ writer[p].text = t
Writing(t) == \E p \in Procs : OnIt(p, t) /\ ~writer[p].lost
\* The file is removed: who has it open goes on writing to what has no name.
Loses(t) ==
  writer' = [p \in Procs |-> [writer[p] EXCEPT !.lost = @ \/ OnIt(p, t)]]
Writer(p, pc) == writer' = [writer EXCEPT ![p].pc = pc]

\* addKnowledge of a long content, through the capability; a node that expired is
\* not added again.
Add(p, n, t) ==
  /\ writer[p] = NoWrite /\ life[p] = "started" /\ Up(p, "storage")
  /\ n \notin past /\ Spend("add")
  /\ writer' = [writer EXCEPT ![p] = [NoWrite EXCEPT !.pc = "access", !.text = t, !.node = n]]
  /\ UNCHANGED <<cycle, rows, blobs, pad, gc>>

\* writeBlob takes a file of that name for the blob, whatever it holds.
Access(p) ==
  /\ writer[p].pc = "access"
  /\ Writer(p, IF blob[writer[p].text] = "none" THEN "open" ELSE "written")
  /\ UNCHANGED <<cycle, rows, blobs, pad, gc, left>>

Open(p) ==
  /\ writer[p].pc = "open"
  /\ Writer(p, "write") /\ blob' = [blob EXCEPT ![writer[p].text] = "torn"]
  /\ UNCHANGED <<cycle, rows, found, harm, pad, gc, left>>

Written(p) ==
  LET t == writer[p].text IN
  /\ writer[p].pc = "write"
  /\ writer' = [writer EXCEPT ![p].pc = "written", ![p].lost = FALSE]
  /\ IF writer[p].lost THEN UNCHANGED blobs
     ELSE /\ blob' = [blob EXCEPT ![t] = "whole"] /\ harm' = [harm EXCEPT ![t] = {}]
          /\ UNCHANGED found
  /\ UNCHANGED <<cycle, rows, pad, gc, left>>

\* The row is pushed, if the context has not been stopped.
PushRow(p) ==
  /\ writer[p].pc = "written" /\ writer[p].node # None
  /\ IF life[p] = "started" /\ Up(p, "db") THEN Push(p, writer[p].node, writer[p].text)
                                           ELSE UNCHANGED buf
  /\ writer' = [writer EXCEPT ![p] = NoWrite]
  /\ UNCHANGED <<cycle, row, past, blobs, pad, gc, left>>

\* deleteKnowledge, epistemic sunsetting.
Delete(p, n) ==
  /\ life[p] = "started" /\ Up(p, "db") /\ Visible(p, n) # None /\ Spend("delete")
  /\ Push(p, n, None)
  /\ UNCHANGED <<cycle, row, past, blobs, pad, writer, gc>>

\* readBlob of a row or of a scratchpad file finds a blob that is not its hash, also
\* when its writer is not done, and moves away what has that name an await later,
\* which may be whole by then, or gone.
ReadTorn(p, t) ==
  /\ Up(p, "storage") /\ blob[t] = "torn" /\ found[p] = None /\ Spend("read")
  /\ t \in SeenTexts(p) \/ \E f \in Files : ptr[f] = t
  /\ found' = [found EXCEPT ![p] = t]
  /\ UNCHANGED <<cycle, rows, blob, harm, pad, writer, gc>>

Quarantine(p, t) ==
  /\ found[p] = t /\ blob[t] # "none"
  /\ found' = [found EXCEPT ![p] = None]
  /\ blob' = [blob EXCEPT ![t] = "none"]
  /\ harm' = [harm EXCEPT ![t] = @ \cup {"quarantined"}]
  /\ Loses(t)
  /\ UNCHANGED <<cycle, rows, pad, gc, left>>

RenameFails(p, t) ==
  /\ found[p] = t /\ blob[t] = "none"
  /\ found' = [found EXCEPT ![p] = None]
  /\ UNCHANGED <<cycle, rows, blob, harm, pad, writer, gc, left>>

Expire(n) ==
  /\ n \in Expiring \ past /\ Spend("expire")
  /\ \E p \in Procs : Visible(p, n) # None
  /\ past' = past \cup {n}
  /\ UNCHANGED <<cycle, row, buf, blobs, pad, writer, gc>>

----------------------------------------------------------------------------
(* Garbage collection                                                      *)

Pass(p, pass) == gc' = [gc EXCEPT ![p] = pass]

\* Reading the expired rows.  A row that waits in the buffer without expiresAt
\* passes for an expired one, and the deletion hides such rows from readers, those
\* on disk included: null is less than any time there.
HasExpired(p) ==
  \/ \E n \in past : Visible(p, n) # None
  \/ \E n \in Nodes \ Expiring : buf[p].put[n] \in Texts /\ n \notin buf[p].sweep
Swept == {n \in Nodes : n \in Expiring => n \in past}

GcExpire(p) ==
  /\ gc[p] = NoPass /\ Up(p, "cleanup") /\ Up(p, "db") /\ Spend("gc")
  /\ IF HasExpired(p)
     THEN buf' = [buf EXCEPT ![p].sweep = @ \cup Swept, ![p].doomed = past]
     ELSE UNCHANGED buf
  /\ Pass(p, [NoPass EXCEPT !.pc = "read"])
  /\ UNCHANGED <<cycle, row, past, blobs, pad, writer>>

GcReadDurable(p) ==
  /\ gc[p].pc = "read" /\ Up(p, "db")
  /\ Pass(p, [pc |-> "prune", todo |-> Texts, refs |-> {row[n] : n \in Nodes}, safe |-> SeenTexts(p)])
  /\ UNCHANGED <<cycle, rows, blobs, pad, writer, left>>

\* Reading the rows with a blob; safe, history, is what it should have read.
GcRead(p) ==
  /\ gc[p].pc = "read" /\ Up(p, "db")
  /\ Pass(p, [pc |-> "prune", todo |-> Texts, refs |-> SeenTexts(p), safe |-> SeenTexts(p)])
  /\ UNCHANGED <<cycle, rows, blobs, pad, writer, left>>

\* pruneUnreferencedBlobs visits the files one by one.
GcPrune(p, t) ==
  /\ gc[p].pc = "prune" /\ t \in gc[p].todo /\ Up(p, "storage")
  /\ gc' = [gc EXCEPT ![p].todo = @ \ {t}]
  /\ IF t \in gc[p].refs \/ blob[t] = "none" THEN UNCHANGED <<blobs, writer>>
     ELSE /\ blob' = [blob EXCEPT ![t] = "none"]
          /\ harm' = [harm EXCEPT ![t] = IF t \in gc[p].safe THEN @ ELSE @ \cup {"collected"}]
          /\ Loses(t) /\ UNCHANGED found
  /\ UNCHANGED <<cycle, rows, pad, left>>

\* It is through, or a component it needs has been stopped.
GcEnd(p) ==
  /\ \/ gc[p].pc = "prune" /\ (gc[p].todo = {} \/ ~Up(p, "storage"))
     \/ gc[p].pc = "read" /\ ~Up(p, "db")
  /\ Pass(p, NoPass)
  /\ UNCHANGED <<cycle, rows, blobs, pad, writer, left>>

----------------------------------------------------------------------------
(* The scratchpad                                                          *)

Scratch(p, f, t) ==
  /\ writer[p] = NoWrite /\ life[p] = "started" /\ Spend("scratch")
  /\ writer' = [writer EXCEPT ![p] = [NoWrite EXCEPT !.pc = "lock", !.text = t, !.file = f]]
  /\ UNCHANGED <<cycle, rows, blobs, pad, gc>>

Lock(p) ==
  LET f == writer[p].file IN
  /\ writer[p].pc = "lock" /\ ~lock[f]
  /\ lock' = [lock EXCEPT ![f] = TRUE]
  /\ Writer(p, IF Up(p, "storage") THEN "access" ELSE "fails")
  /\ UNCHANGED <<cycle, rows, blobs, ptr, stands, disturbed, gc, left>>

LockTimeoutUnlocks(p) ==
  /\ writer[p].pc = "lock" /\ lock[writer[p].file]
  /\ lock' = [lock EXCEPT ![writer[p].file] = FALSE]
  /\ writer' = [writer EXCEPT ![p] = NoWrite]
  /\ UNCHANGED <<cycle, rows, blobs, ptr, stands, disturbed, gc, left>>

\* After 100 tries.
LockTimeout(p) ==
  /\ writer[p].pc = "lock" /\ lock[writer[p].file]
  /\ writer' = [writer EXCEPT ![p] = NoWrite]
  /\ UNCHANGED <<cycle, rows, blobs, pad, gc, left>>

\* writeFile of the pointer truncates it, and then writes it.
TruncatePointer(p) ==
  /\ writer[p].pc = "written" /\ writer[p].file # None
  /\ ptr' = [ptr EXCEPT ![writer[p].file] = "empty"] /\ Writer(p, "point")
  /\ UNCHANGED <<cycle, rows, blobs, lock, stands, disturbed, gc, left>>

\* What it opened may have been removed meanwhile.
Point(p) ==
  /\ writer[p].pc = "point"
  /\ ptr' = [ptr EXCEPT ![writer[p].file] = IF @ = None THEN @ ELSE writer[p].text]
  /\ Writer(p, "unlock")
  /\ UNCHANGED <<cycle, rows, blobs, lock, stands, disturbed, gc, left>>

Unlock(p) ==
  LET f == writer[p].file IN
  /\ writer[p].pc \in {"unlock", "fails"}
  /\ lock' = [lock EXCEPT ![f] = FALSE]
  /\ writer' = [writer EXCEPT ![p] = NoWrite]
  /\ IF writer[p].pc = "fails" THEN UNCHANGED <<stands, disturbed>>
     ELSE /\ stands' = [stands EXCEPT ![f] = writer[p].text]
          /\ disturbed' = [disturbed EXCEPT ![f] = ptr[f] = None]
  /\ UNCHANGED <<cycle, rows, blobs, ptr, gc, left>>

\* clear() removes the pointers without their locks.
Clear(p, f) ==
  /\ life[p] = "started" /\ ptr[f] # None /\ Spend("clear")
  /\ ptr' = [ptr EXCEPT ![f] = None] /\ disturbed' = [disturbed EXCEPT ![f] = TRUE]
  /\ UNCHANGED <<cycle, rows, blobs, lock, stands, writer, gc>>

----------------------------------------------------------------------------
\* The process dies and another one takes its place.  What it was writing stays as
\* it is, and so does its lock file.
Crash(p) ==
  LET w == writer[p] IN
  /\ Spend("crash")
  /\ life' = [life EXCEPT ![p] = Fresh] /\ active' = [active EXCEPT ![p] = left.up]
  /\ comp' = [comp EXCEPT ![p] = AllFresh]
  /\ starts' = [starts EXCEPT ![p] = NoCalls] /\ stops' = [stops EXCEPT ![p] = NoCalls]
  /\ overlap' = [overlap EXCEPT ![p] = FALSE] /\ halfUp' = [halfUp EXCEPT ![p] = FALSE]
  /\ buf' = [buf EXCEPT ![p] = NoBuffer]
  /\ harm' = IF w.pc = "write" /\ ~w.lost THEN [harm EXCEPT ![w.text] = @ \cup {"torn"}] ELSE harm
  /\ disturbed' = IF w.pc \in {"point", "unlock"} THEN [disturbed EXCEPT ![w.file] = TRUE]
                                                  ELSE disturbed
  /\ writer' = [writer EXCEPT ![p] = NoWrite] /\ gc' = [gc EXCEPT ![p] = NoPass]
  /\ found' = [found EXCEPT ![p] = None]
  /\ UNCHANGED <<row, past, blob, ptr, lock, stands>>

StartsAndStops(p) ==
  \E c \in Callers :
    \/ Start(p, c) \/ StartComponent(p, c) \/ ComponentStarted(p, c) \/ ComponentFails(p, c)
    \/ AllStarted(p, c) \/ InitWorkspace(p, c) \/ InitFails(p, c) \/ Unwind(p, c)
    \/ Stop(p, c) \/ StopStep(p, c)

Remembers(p) ==
  \/ Access(p) \/ Open(p) \/ Written(p) \/ PushRow(p) \/ Flush(p)
  \/ \E n \in Nodes : Delete(p, n) \/ \E t \in Texts : Add(p, n, t)
  \/ \E t \in Texts : ReadTorn(p, t) \/ Quarantine(p, t) \/ RenameFails(p, t)

Collects(p) == GcExpire(p) \/ GcRead(p) \/ GcEnd(p) \/ \E t \in Texts : GcPrune(p, t)

Scribbles(p) ==
  \/ Lock(p) \/ LockTimeout(p) \/ TruncatePointer(p) \/ Point(p) \/ Unlock(p)
  \/ \E f \in Files : Clear(p, f) \/ \E t \in Texts : Scratch(p, f, t)

Next ==
  \/ \E p \in Procs : StartsAndStops(p) \/ Remembers(p) \/ Collects(p) \/ Scribbles(p) \/ Crash(p)
  \/ \E n \in Nodes : Expire(n)

Spec == Init /\ [][Next]_vars

----------------------------------------------------------------------------
(* Properties                                                              *)

TypeOK ==
  /\ life \in [Procs -> {"new", "starting", "started", "stopping", "stopped"}]
  /\ active \in [Procs -> BOOLEAN]
  /\ comp \in [Procs -> [Comps -> {"new", "starting", "started", "stopped"}]]
  /\ row \in [Nodes -> Texts \cup {None}] /\ past \subseteq Expiring
  /\ blob \in [Texts -> {"none", "torn", "whole"}] /\ found \in [Procs -> Texts \cup {None}]
  /\ ptr \in [Files -> Texts \cup {None, "empty"}] /\ lock \in [Files -> BOOLEAN]

\* A row that a process sees, or that is on disk, has its content (addKnowledgeBatch
\* writes the blob before it pushes the row, the garbage collection keeps what a
\* row it reads refers to), unless the blob is being written again, a crash tore
\* it, a reader that had found it half written moved it away, or it was collected
\* for want of a row: the row came later, was another process's, or was hidden by
\* the deletion of expired rows.
Hydrates(t) == blob[t] = "whole" \/ Writing(t) \/ harm[t] # {}
RowsHydrate ==
  /\ TypeOK
  /\ \A n \in Nodes : \A t \in {row[n]} \cup {Visible(p, n) : p \in Procs} : t # None => Hydrates(t)

\* A context that start() declared started has all of its components, and one whose
\* start() failed or whose stop() returned has none running, unless the two
\* overlapped or the workspace could not be read after all had started.
Quiet(p) == \A c \in Comps : comp[p][c] \notin {"starting", "started"}
UpOrDown ==
  \A p \in Procs : ~overlap[p] =>
    /\ life[p] = "started" => \A c \in Comps : Up(p, c)
    /\ life[p] \in {"new", "stopped"} /\ ~halfUp[p] => Quiet(p)

\* With no write at a scratchpad file, it points to what the last write() that
\* returned put there: the lock file keeps two writers apart, in whatever
\* processes, unless clear() or a crash came between.
AtWork(f) == \E p \in Procs : writer[p].file = f /\ writer[p].pc # "lock"
LastWriteStands == \A f \in Files : AtWork(f) \/ disturbed[f] \/ ptr[f] = stands[f]
=============================================================================

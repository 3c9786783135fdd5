------------------------- MODULE AgentContextProofs -------------------------
(***************************************************************************)
(* Theorems about AgentContext, for any processes, contents, nodes, files  *)
(* and budgets: a context is up or down as a whole, rows keep their        *)
(* contents, and a scratchpad file shows the last write.                   *)
(*                                                                         *)
(* Each property is one part of IInv with what it needs of the steps that  *)
(* are under way: how far a start() or stop() has come (Control), what the *)
(* writers and the collections have found (Rows), who holds a lock file    *)
(* and how far it is (Pads).                                               *)
(***************************************************************************)
EXTENDS AgentContext, TLAPS

-----------------------------------------------------------------------------
(* The inductive invariant                                                  *)

Buffer == [put : [Nodes -> Texts \cup {None, "no"}], cut : SUBSET Nodes,
           sweep : SUBSET Nodes, doomed : SUBSET Nodes]
Write == [pc : {"none", "lock", "access", "open", "write", "written", "point", "unlock", "fails"},
          text : Texts \cup {None}, node : Nodes \cup {None}, file : Files \cup {None},
          lost : BOOLEAN]
Collection == [pc : {"none", "read", "prune"}, refs : SUBSET Texts, safe : SUBSET Texts,
          todo : SUBSET Texts]
Starting == {s \in [pc : {"none", "at", "waits", "unwind", "init"}, i : 0..5] :
               /\ s.pc = "none" => s.i = 0
               /\ s.pc # "at" => s.i <= 4
               /\ s.pc \in {"at", "waits"} => s.i >= 1}
Stopping == {s \in [pc : {"none", "at"}, i : 0..4] : s.pc = "none" => s.i = 0}

Types ==
  /\ TypeOK
  /\ starts \in [Procs -> [Callers -> Starting]]
  /\ stops \in [Procs -> [Callers -> Stopping]]
  /\ overlap \in [Procs -> BOOLEAN] /\ halfUp \in [Procs -> BOOLEAN]
  /\ buf \in [Procs -> Buffer]
  /\ writer \in [Procs -> Write]
  /\ gc \in [Procs -> Collection]
  /\ harm \in [Texts -> SUBSET {"collected", "quarantined", "torn"}]
  /\ stands \in [Files -> Texts \cup {None}] /\ disturbed \in [Files -> BOOLEAN]
  /\ "up" \in DOMAIN left /\ left.up \in BOOLEAN

(* Without overlapping calls: a component is up that the call under way has *)
(* started, or has not stopped yet; one at a time is on its way.            *)
Off(p, j) == comp[p][Order[j]] \notin {"starting", "started"}
On(p, j) == comp[p][Order[j]] = "started"
AllOn(p) == \A j \in 1..4 : On(p, j)
AllOff(p) == \A j \in 1..4 : Off(p, j)

AtRest(p) ==
  \/ life[p] = "started" /\ active[p] /\ AllOn(p)
  \/ life[p] = "new" /\ active[p] /\ halfUp[p] /\ AllOn(p)
  \/ life[p] = "new" /\ ~active[p] /\ AllOff(p)
  \/ life[p] = "stopped" /\ (halfUp[p] \/ AllOff(p))

StartPlace(p, c) ==
  LET s == starts[p][c] IN
  /\ life[p] = "starting"
  /\ s.pc = "init" => active[p] /\ AllOn(p)
  /\ s.pc # "init" => ~active[p]
  /\ s.pc = "at" => \A j \in 1..4 : IF j < s.i THEN On(p, j) ELSE Off(p, j)
  /\ s.pc = "unwind" => \A j \in 1..4 : IF j <= s.i THEN On(p, j) ELSE Off(p, j)
  /\ s.pc = "waits" => \A j \in 1..4 : IF j < s.i THEN On(p, j)
                                       ELSE \/ Off(p, j)
                                            \/ j = 1 /\ s.i = 1 /\ comp[p]["db"] = "starting"

StopPlace(p, c) ==
  /\ life[p] = "stopping" /\ ~active[p]
  /\ \A j \in 1..4 : IF j <= stops[p][c].i THEN On(p, j) ELSE Off(p, j)

Control(p) ==
  ~overlap[p] =>
    /\ \A c, d \in Callers :
         /\ starts[p][c] # Resting => stops[p][d] = Resting
         /\ starts[p][c] # Resting /\ starts[p][d] # Resting => c = d
         /\ stops[p][c] # Resting /\ stops[p][d] # Resting => c = d
    /\ (\A c \in Callers : starts[p][c] = Resting /\ stops[p][c] = Resting) => AtRest(p)
    /\ \A c \in Callers : starts[p][c] # Resting => StartPlace(p, c)
    /\ \A c \in Callers : stops[p][c] # Resting => StopPlace(p, c)

(* What rows, buffers and writers refer to has its content, and a file that *)
(* is there but torn has somebody to blame.                                 *)
Rows ==
  /\ \A t \in Texts : blob[t] = "torn" => Hydrates(t)
  /\ \A n \in Nodes : row[n] # None => Hydrates(row[n])
  /\ \A p \in Procs : \A n \in Nodes : buf[p].put[n] \notin {None, "no"} => Hydrates(buf[p].put[n])
  /\ \A p \in Procs : writer[p].pc \in {"write", "written"} => Hydrates(writer[p].text)
  /\ \A p \in Procs : gc[p].refs = gc[p].safe

(* The fields of a writer go together.                                      *)
Shaped(w) ==
  /\ w.pc # "none" => w.text # None
  /\ w.pc = "none" => w.file = None
  /\ w.pc \in {"lock", "point", "unlock", "fails"} => w.file # None
  /\ w.node # None => w.file = None
  /\ w.pc # "write" => ~w.lost

Works(p, f) == writer[p].file = f /\ writer[p].pc # "lock"

(* One writer is past the lock of a file, and the file shows the last write *)
(* until that writer truncates it.                                          *)
Pads ==
  /\ \A f \in Files : \A p \in Procs : Works(p, f) => lock[f]
  /\ \A f \in Files : \A p, q \in Procs : Works(p, f) /\ Works(q, f) => p = q
  /\ \A f \in Files : \/ disturbed[f] \/ ptr[f] = stands[f]
                      \/ \E p \in Procs : Works(p, f) /\ writer[p].pc \in {"point", "unlock"}
  /\ \A p \in Procs : writer[p].pc = "unlock" => ptr[writer[p].file] \in {writer[p].text, None}

IInv ==
  /\ Types
  /\ \A p \in Procs : Control(p)
  /\ \A p \in Procs : Shaped(writer[p])
  /\ Rows
  /\ Pads
-----------------------------------------------------------------------------
(* Types                                                                    *)

LEMMA OrderFacts ==
  /\ Len(Order) = 4 /\ DOMAIN Order = 1..4
  /\ \A j \in 1..4 : Order[j] \in Comps
  /\ \A j, k \in 1..4 : Order[j] = Order[k] => j = k
  /\ \A j \in 1..4 : Order[j] = "db" <=> j = 1
  /\ \A c \in Comps : \E j \in 1..4 : c = Order[j]
  /\ Order[1] = "db" /\ "db" \in Comps /\ "storage" \in Comps /\ "cleanup" \in Comps
  /\ "orchestration" \in Comps /\ "db" \in Slow
BY DEF Order, Comps, Slow

LEMMA VisibleType ==
  ASSUME Types, NEW p \in Procs
  PROVE  /\ \A n \in Nodes : Visible(p, n) \in Texts \cup {None}
         /\ SeenTexts(p) \subseteq Texts
<1>1. buf[p] \in Buffer
  BY DEF Types
<1>2. \A n \in Nodes : Visible(p, n) \in Texts \cup {None}
  BY <1>1 DEF Visible, Buffer, Types, TypeOK
<1>3. QED BY <1>2 DEF SeenTexts

LEMMA TypesInit == Init => Types /\ (\A p \in Procs : Shaped(writer[p]))
<1> SUFFICES ASSUME Init PROVE Types /\ (\A p \in Procs : Shaped(writer[p]))
  OBVIOUS
<1>1. left \in Budgets /\ "up" \in DOMAIN left /\ left.up \in BOOLEAN
  BY ContextAssumption DEF Init
<1>2. Fresh \in {"new", "started"} /\ AllFresh \in [Comps -> {"new", "started"}]
  BY DEF Fresh, AllFresh
<1>3. NoBuffer \in Buffer /\ NoWrite \in Write /\ NoPass \in Collection
  BY DEF NoBuffer, Buffer, NoWrite, Write, NoPass, Collection
<1>4. NoCalls \in [Callers -> Starting] /\ NoCalls \in [Callers -> Stopping]
  BY DEF NoCalls, Resting, Starting, Stopping
<1>5. TypeOK
  BY <1>1, <1>2, ContextAssumption DEF Init, TypeOK
<1>6. Shaped(NoWrite)
  BY DEF NoWrite, Shaped
<1>7. QED BY <1>1, <1>3, <1>4, <1>5, <1>6 DEF Init, Types

(* A budget that is spent keeps its mode.                                   *)
LEMMA SpendKeeps ==
  ASSUME Types, NEW k \in Kinds, Spend(k)
  PROVE  "up" \in DOMAIN left' /\ left'.up = left.up /\ left'.up \in BOOLEAN
<1>1. k # "up"
  BY DEF Kinds
<1>2. QED BY <1>1 DEF Types, Spend

(* The steps of start() and stop() keep the types.                          *)
LEMMA CycleTypes ==
  ASSUME Types, NEW p \in Procs, StartsAndStops(p)
  PROVE  Types'
<1> PICK c \in Callers :
      \/ Start(p, c) \/ StartComponent(p, c) \/ ComponentStarted(p, c) \/ ComponentFails(p, c)
      \/ AllStarted(p, c) \/ InitWorkspace(p, c) \/ InitFails(p, c) \/ Unwind(p, c)
      \/ Stop(p, c) \/ StopStep(p, c)
  BY DEF StartsAndStops
<1> DEFINE i == starts[p][c].i
<1> DEFINE k == stops[p][c].i
<1>1. /\ starts[p] \in [Callers -> Starting] /\ starts[p][c] \in Starting
      /\ stops[p] \in [Callers -> Stopping] /\ stops[p][c] \in Stopping
      /\ comp[p] \in [Comps -> {"new", "starting", "started", "stopped"}]
  BY DEF Types, TypeOK
<1>2. /\ i \in 0..5 /\ k \in 0..4 /\ starts[p][c].pc \in {"none", "at", "waits", "unwind", "init"}
      /\ starts[p][c].pc # "at" => i <= 4
      /\ starts[p][c].pc \in {"at", "waits"} => i >= 1
  BY <1>1 DEF Starting, Stopping
<1> HIDE DEF i, k
<1>3. ASSUME NEW pc \in {"at", "waits", "unwind", "init"}, NEW j \in 0..5,
             pc # "at" => j <= 4, pc \in {"at", "waits"} => j >= 1, Goes(p, c, pc, j)
      PROVE  starts' \in [Procs -> [Callers -> Starting]]
  <2>1. [pc |-> pc, i |-> j] \in Starting
    BY <1>3 DEF Starting
  <2>2. QED BY <1>3, <2>1 DEF Goes, Types
<1>4. ASSUME Ends(p, c) PROVE starts' \in [Procs -> [Callers -> Starting]]
  BY <1>4 DEF Ends, Types, Resting, Starting
<1>5. ASSUME NEW n \in Comps, NEW s \in {"new", "starting", "started", "stopped"}, Becomes(p, n, s)
      PROVE  comp' \in [Procs -> [Comps -> {"new", "starting", "started", "stopped"}]]
  BY <1>5 DEF Becomes, Types, TypeOK
<1>6. Landed(p) \in [Nodes -> Texts \cup {None}]
  <2>1. buf[p] \in Buffer
    BY DEF Types
  <2>2. QED BY <2>1 DEF Landed, Buffer, Types, TypeOK
<1>7. NoBuffer \in Buffer
  BY DEF NoBuffer, Buffer
<1>8. ASSUME NEW n \in Comps, StopsComponent(p, n)
      PROVE  /\ comp' \in [Procs -> [Comps -> {"new", "starting", "started", "stopped"}]]
             /\ row' \in [Nodes -> Texts \cup {None}] /\ buf' \in [Procs -> Buffer]
  <2>1. Becomes(p, n, "stopped")
    BY <1>8 DEF StopsComponent
  <2>2. row' \in [Nodes -> Texts \cup {None}] /\ buf' \in [Procs -> Buffer]
    <3>1. \/ row' = Landed(p) /\ buf' = [buf EXCEPT ![p] = NoBuffer]
          \/ row' = row /\ buf' = buf
      BY <1>8 DEF StopsComponent
    <3>2. row \in [Nodes -> Texts \cup {None}] /\ buf \in [Procs -> Buffer]
      BY DEF Types, TypeOK
    <3>3. QED BY <1>6, <1>7, <3>1, <3>2
  <2>3. QED BY <1>5, <2>1, <2>2
<1>9. CASE Start(p, c)
  <2>1. starts' \in [Procs -> [Callers -> Starting]]
    BY <1>3, <1>9 DEF Start
  <2>2. "up" \in DOMAIN left' /\ left'.up \in BOOLEAN
    BY <1>9, SpendKeeps DEF Start, Kinds
  <2>3. overlap' \in [Procs -> BOOLEAN]
    BY <1>9 DEF Start, Types, Calling
  <2>4. QED BY <1>9, <2>1, <2>2, <2>3 DEF Start, Types, TypeOK, rows, blobs, pad
<1>10. CASE StartComponent(p, c)
  <2>1. i \in 1..4 /\ Order[i] \in Comps
    BY <1>2, <1>10, OrderFacts DEF StartComponent, i
  <2>2. starts' \in [Procs -> [Callers -> Starting]]
    BY <1>2, <1>3, <1>10, <2>1 DEF StartComponent, Unwinds, i
  <2>3. comp' \in [Procs -> [Comps -> {"new", "starting", "started", "stopped"}]]
    BY <1>5, <1>10, <2>1 DEF StartComponent, i, Types, TypeOK
  <2>4. QED BY <1>10, <2>2, <2>3 DEF StartComponent, Types, TypeOK, rows, blobs, pad
<1>11. CASE ComponentStarted(p, c)
  <2>1. i \in 1..4 /\ Order[i] \in Comps
    BY <1>2, <1>11, OrderFacts DEF ComponentStarted, i
  <2>2. starts' \in [Procs -> [Callers -> Starting]]
    BY <1>2, <1>3, <1>11, <2>1 DEF ComponentStarted, i
  <2>3. comp' \in [Procs -> [Comps -> {"new", "starting", "started", "stopped"}]]
    BY <1>5, <1>11, <2>1 DEF ComponentStarted, i
  <2>4. QED BY <1>11, <2>2, <2>3 DEF ComponentStarted, Types, TypeOK, rows, blobs, pad
<1>12. CASE ComponentFails(p, c)
  <2>1. i \in 1..4 /\ Order[i] \in Comps
    BY <1>2, <1>12, OrderFacts DEF ComponentFails, i
  <2>2. starts' \in [Procs -> [Callers -> Starting]]
    BY <1>2, <1>3, <1>12, <2>1 DEF ComponentFails, Unwinds, i
  <2>3. comp' \in [Procs -> [Comps -> {"new", "starting", "started", "stopped"}]]
    BY <1>5, <1>12, <2>1 DEF ComponentFails, i, Types, TypeOK
  <2>4. "up" \in DOMAIN left' /\ left'.up \in BOOLEAN
    <3>1. Spend("fail") \/ left' = left
      BY <1>12 DEF ComponentFails
    <3>2. QED BY <3>1, SpendKeeps DEF Kinds, Types
  <2>5. QED BY <1>12, <2>2, <2>3, <2>4 DEF ComponentFails, Types, TypeOK, rows, blobs, pad
<1>13. CASE AllStarted(p, c)
  <2>1. starts' \in [Procs -> [Callers -> Starting]]
    BY <1>3, <1>13 DEF AllStarted
  <2>2. QED BY <1>13, <2>1 DEF AllStarted, Types, TypeOK, rows, blobs, pad
<1>14. CASE InitWorkspace(p, c)
  BY <1>4, <1>14 DEF InitWorkspace, Types, TypeOK, rows, blobs, pad
<1>15. CASE InitFails(p, c)
  <2>1. "up" \in DOMAIN left' /\ left'.up \in BOOLEAN
    <3>1. Spend("fail") \/ left' = left
      BY <1>15 DEF InitFails
    <3>2. QED BY <3>1, SpendKeeps DEF Kinds, Types
  <2>2. QED BY <1>4, <1>15, <2>1 DEF InitFails, Types, TypeOK, rows, blobs, pad
<1>16. CASE Unwind(p, c)
  <2>1. CASE i = 0
    BY <1>4, <1>16, <2>1 DEF Unwind, i, Types, TypeOK, blobs, pad
  <2>2. CASE i # 0
    <3>1. i \in 1..4 /\ Order[i] \in Comps /\ i - 1 \in 0..4
      BY <1>2, <1>16, <2>2, OrderFacts DEF Unwind, i
    <3>2. StopsComponent(p, Order[i]) /\ Goes(p, c, "unwind", i - 1)
      BY <1>16, <2>2 DEF Unwind, i
    <3>3. starts' \in [Procs -> [Callers -> Starting]]
      BY <1>3, <3>1, <3>2
    <3>4. QED BY <1>8, <1>16, <2>2, <3>1, <3>2, <3>3 DEF Unwind, i, Types, TypeOK, blobs, pad
  <2>3. QED BY <2>1, <2>2
<1>17. CASE Stop(p, c)
  <2>1. "up" \in DOMAIN left' /\ left'.up \in BOOLEAN
    BY <1>17, SpendKeeps DEF Stop, Kinds
  <2>2. overlap' \in [Procs -> BOOLEAN]
    BY <1>17 DEF Stop, Types, Calling
  <2>3. stops' \in [Procs -> [Callers -> Stopping]]
    <3> DEFINE s == [pc |-> "at", i |-> IF active[p] THEN Len(Order) ELSE 0]
    <3>1. s \in Stopping
      BY OrderFacts DEF Stopping
    <3>2. stops' = [stops EXCEPT ![p][c] = s] \/ stops' = stops
      BY <1>17 DEF Stop
    <3> HIDE DEF s
    <3>3. stops \in [Procs -> [Callers -> Stopping]] /\ stops[p] \in [Callers -> Stopping]
      BY DEF Types
    <3>4. [stops[p] EXCEPT ![c] = s] \in [Callers -> Stopping]
      BY <3>1, <3>3
    <3>5. CASE stops' = [stops EXCEPT ![p][c] = s]
      BY <3>3, <3>4, <3>5
    <3>6. QED BY <3>2, <3>3, <3>5
  <2>4. QED BY <1>17, <2>1, <2>2, <2>3 DEF Stop, Types, TypeOK, rows, blobs, pad
<1>18. CASE StopStep(p, c)
  <2>1. CASE k = 0
    <3>1. stops' \in [Procs -> [Callers -> Stopping]]
      <4>1. Resting \in Stopping
        BY DEF Resting, Stopping
      <4>2. stops' = [stops EXCEPT ![p][c] = Resting]
        BY <1>18, <2>1 DEF StopStep, k
      <4>3. QED BY <4>1, <4>2 DEF Types
    <3>2. /\ life' = [life EXCEPT ![p] = "stopped"]
          /\ UNCHANGED <<comp, active, starts, overlap, halfUp, row, buf, past, left>>
      BY <1>18, <2>1 DEF StopStep, k
    <3>3. UNCHANGED <<blob, found, harm, pad, writer, gc>>
      BY <1>18 DEF StopStep, blobs
    <3>4. QED BY <3>1, <3>2, <3>3 DEF Types, TypeOK, pad
  <2>2. CASE k # 0
    <3>1. k \in 1..4 /\ Order[k] \in Comps /\ k - 1 \in 0..4
      BY <1>2, <2>2, OrderFacts
    <3>2. StopsComponent(p, Order[k]) /\ stops' = [stops EXCEPT ![p][c].i = k - 1]
          /\ stops[p][c].pc = "at"
      BY <1>18, <2>2 DEF StopStep, k
    <3>3. [stops[p][c] EXCEPT !.i = k - 1] \in Stopping
      BY <1>1, <3>1, <3>2 DEF Stopping
    <3>4. stops' \in [Procs -> [Callers -> Stopping]]
      BY <3>2, <3>3 DEF Types
    <3>5. QED BY <1>8, <1>18, <2>2, <3>1, <3>2, <3>4 DEF StopStep, k, Types, TypeOK, blobs, pad
  <2>3. QED BY <2>1, <2>2
<1>19. QED BY <1>9, <1>10, <1>11, <1>12, <1>13, <1>14, <1>15, <1>16, <1>17, <1>18

(* The steps of the memory, the collection and the scratchpad keep the types *)
(* and the shape of every writer.                                           *)
LEMMA MemoryTypes ==
  ASSUME Types, \A p \in Procs : Shaped(writer[p]), NEW p \in Procs,
         Remembers(p) \/ Collects(p) \/ Scribbles(p)
  PROVE  Types' /\ \A q \in Procs : Shaped(writer'[q])
<1> DEFINE w == writer[p]
<1> DEFINE Fits(x) == x \in Write /\ Shaped(x)
<1>1. w \in Write /\ Shaped(w) /\ NoWrite \in Write /\ Shaped(NoWrite)
  BY DEF Types, NoWrite, Write, Shaped
<1>2. buf[p] \in Buffer /\ NoBuffer \in Buffer /\ gc[p] \in Collection /\ NoPass \in Collection
  BY DEF Types, NoBuffer, Buffer, NoPass, Collection
<1>3. \A x : x \in Write /\ Shaped(x) /\ writer' = [writer EXCEPT ![p] = x]
             => writer' \in [Procs -> Write] /\ \A q \in Procs : Shaped(writer'[q])
  BY DEF Types
<1>4. ASSUME NEW pc \in {"open", "write", "written", "point", "unlock", "access", "fails"},
             w.pc # "none", w.pc # "write", Writer(p, pc),
             pc \in {"point", "unlock", "fails"} => w.file # None
      PROVE  writer' \in [Procs -> Write] /\ \A q \in Procs : Shaped(writer'[q])
  <2> DEFINE x == [w EXCEPT !.pc = pc]
  <2>1. writer' = [writer EXCEPT ![p] = x]
    BY <1>4 DEF Writer
  <2>2. x \in Write
    BY <1>1 DEF Write
  <2>3. Shaped(x)
    BY <1>1, <1>4 DEF Write, Shaped
  <2> HIDE DEF x
  <2>4. QED BY <1>3, <2>1, <2>2, <2>3
<1>5. ASSUME NEW t, Loses(t)
      PROVE  writer' \in [Procs -> Write] /\ \A q \in Procs : Shaped(writer'[q])
  <2> SUFFICES ASSUME NEW q \in Procs
               PROVE  writer'[q] \in Write /\ Shaped(writer'[q])
    BY <1>5 DEF Loses
  <2>1. writer'[q] = [writer[q] EXCEPT !.lost = writer[q].lost \/ OnIt(q, t)]
    BY <1>5 DEF Loses
  <2>2. writer[q] \in Write /\ Shaped(writer[q])
    BY DEF Types
  <2> DEFINE b == writer[q].lost \/ OnIt(q, t)
  <2>3. b \in BOOLEAN /\ (b => writer[q].pc = "write")
    BY <2>2 DEF OnIt, Shaped, Write
  <2> HIDE DEF b
  <2>4. writer'[q] = [writer[q] EXCEPT !.lost = b]
    BY <2>1 DEF b
  <2>5. QED BY <2>2, <2>3, <2>4 DEF Write, Shaped
<1>6. ASSUME NEW n \in Nodes, NEW t \in Texts \cup {None}, Push(p, n, t)
      PROVE  buf' \in [Procs -> Buffer]
  <2> DEFINE b == [buf[p] EXCEPT !.put[n] = t, !.sweep = @ \ {n},
                                 !.cut = IF t = None THEN @ \cup {n} ELSE @]
  <2>1. buf' = [buf EXCEPT ![p] = b]
    BY <1>6 DEF Push, Types
  <2>2. b \in Buffer
    BY <1>2 DEF Buffer
  <2> HIDE DEF b
  <2>3. QED BY <2>1, <2>2 DEF Types
<1>7. ASSUME NEW x \in Collection, gc' = [gc EXCEPT ![p] = x]
      PROVE  gc' \in [Procs -> Collection]
  BY <1>7 DEF Types
<1> HIDE DEF w
<1>8. CASE Access(p)
  BY <1>4, <1>8 DEF Access, w, Types, TypeOK, cycle, rows, blobs, pad
<1>9. CASE Open(p)
  BY <1>4, <1>9 DEF Open, w, Types, TypeOK, cycle, rows, pad
<1>10. CASE Written(p)
  <2>1. writer' \in [Procs -> Write] /\ \A q \in Procs : Shaped(writer'[q])
    <3> DEFINE x == [w EXCEPT !.pc = "written", !.lost = FALSE]
    <3>1. writer' = [writer EXCEPT ![p] = x] /\ w.pc = "write"
      BY <1>10 DEF Written, w, Types
    <3>2. x \in Write
      BY <1>1 DEF Write
    <3>3. Shaped(x)
      BY <1>1, <3>1 DEF Write, Shaped
    <3> HIDE DEF x
    <3>4. QED BY <1>3, <3>1, <3>2, <3>3
  <2>2. /\ blob' \in [Texts -> {"none", "torn", "whole"}]
        /\ harm' \in [Texts -> SUBSET {"collected", "quarantined", "torn"}]
        /\ found' = found
    BY <1>10 DEF Written, Types, TypeOK, blobs
  <2>3. QED BY <1>10, <2>1, <2>2 DEF Written, Types, TypeOK, cycle, rows, pad
<1>11. CASE PushRow(p)
  <2>1. writer' \in [Procs -> Write] /\ \A q \in Procs : Shaped(writer'[q])
    BY <1>1, <1>3, <1>11 DEF PushRow
  <2>2. buf' \in [Procs -> Buffer]
    <3>1. w.node \in Nodes /\ w.text \in Texts \cup {None}
      BY <1>1, <1>11 DEF Write, PushRow, w
    <3>2. Push(p, w.node, w.text) \/ buf' = buf
      BY <1>11 DEF PushRow, w
    <3>3. QED BY <1>6, <3>1, <3>2 DEF Types
  <2>3. QED BY <1>11, <2>1, <2>2 DEF PushRow, Types, TypeOK, cycle, blobs, pad
<1>12. CASE Flush(p)
  <2>1. row' \in [Nodes -> Texts \cup {None}]
    BY <1>2, <1>12 DEF Flush, Landed, Buffer, Types, TypeOK
  <2>2. buf' \in [Procs -> Buffer]
    BY <1>2, <1>12 DEF Flush, Types
  <2>3. QED BY <1>12, <2>1, <2>2 DEF Flush, Types, TypeOK, cycle, blobs, pad
<1>13. ASSUME NEW n \in Nodes, Delete(p, n)
       PROVE  Types' /\ \A q \in Procs : Shaped(writer'[q])
  <2>1. buf' \in [Procs -> Buffer]
    BY <1>6, <1>13 DEF Delete
  <2>2. "up" \in DOMAIN left' /\ left'.up \in BOOLEAN
    BY <1>13, SpendKeeps DEF Delete, Kinds
  <2>3. QED BY <1>13, <2>1, <2>2 DEF Delete, Types, TypeOK, cycle, blobs, pad
<1>14. ASSUME NEW n \in Nodes, NEW t \in Texts, Add(p, n, t)
       PROVE  Types' /\ \A q \in Procs : Shaped(writer'[q])
  <2>1. writer' \in [Procs -> Write] /\ \A q \in Procs : Shaped(writer'[q])
    <3> DEFINE x == [NoWrite EXCEPT !.pc = "access", !.text = t, !.node = n]
    <3>1. writer' = [writer EXCEPT ![p] = x]
      BY <1>14 DEF Add
    <3>2. x \in Write /\ Shaped(x)
      BY ContextAssumption DEF NoWrite, Write, Shaped
    <3> HIDE DEF x
    <3>3. QED BY <1>3, <3>1, <3>2
  <2>2. "up" \in DOMAIN left' /\ left'.up \in BOOLEAN
    BY <1>14, SpendKeeps DEF Add, Kinds
  <2>3. QED BY <1>14, <2>1, <2>2 DEF Add, Types, TypeOK, cycle, rows, blobs, pad
<1>15. ASSUME NEW t \in Texts, ReadTorn(p, t) \/ Quarantine(p, t) \/ RenameFails(p, t)
       PROVE  Types' /\ \A q \in Procs : Shaped(writer'[q])
  <2>1. writer' \in [Procs -> Write] /\ \A q \in Procs : Shaped(writer'[q])
    <3>1. Loses(t) \/ writer' = writer
      BY <1>15 DEF ReadTorn, Quarantine, RenameFails
    <3>2. QED BY <1>5, <3>1 DEF Types
  <2>2. /\ blob' \in [Texts -> {"none", "torn", "whole"}]
        /\ harm' \in [Texts -> SUBSET {"collected", "quarantined", "torn"}]
        /\ found' \in [Procs -> Texts \cup {None}]
    <3>1. ReadTorn(p, t) => /\ UNCHANGED <<blob, harm>> /\ found' = [found EXCEPT ![p] = t]
      BY DEF ReadTorn
    <3>2. RenameFails(p, t) => /\ UNCHANGED <<blob, harm>> /\ found' = [found EXCEPT ![p] = None]
      BY DEF RenameFails
    <3>3. Quarantine(p, t) => /\ found' = [found EXCEPT ![p] = None]
                              /\ blob' = [blob EXCEPT ![t] = "none"]
                              /\ harm' = [harm EXCEPT ![t] = @ \cup {"quarantined"}]
      BY DEF Quarantine
    <3>4. CASE Quarantine(p, t)
      <4>1. blob' \in [Texts -> {"none", "torn", "whole"}] /\ found' \in [Procs -> Texts \cup {None}]
        BY <3>3, <3>4 DEF Types, TypeOK
      <4>2. harm' \in [Texts -> SUBSET {"collected", "quarantined", "torn"}]
        BY <3>3, <3>4 DEF Types
      <4>3. QED BY <4>1, <4>2
    <3>5. CASE ReadTorn(p, t) \/ RenameFails(p, t)
      <4>1. found' \in [Procs -> Texts \cup {None}]
        BY <3>1, <3>2, <3>5 DEF Types, TypeOK
      <4>2. QED BY <3>1, <3>2, <3>5, <4>1 DEF Types, TypeOK
    <3>6. QED BY <1>15, <3>4, <3>5
  <2>3. "up" \in DOMAIN left' /\ left'.up \in BOOLEAN
    BY <1>15, SpendKeeps DEF ReadTorn, Quarantine, RenameFails, Kinds, Types
  <2>4. UNCHANGED <<cycle, rows, pad, gc>>
    BY <1>15 DEF ReadTorn, Quarantine, RenameFails
  <2>5. QED BY <2>1, <2>2, <2>3, <2>4 DEF Types, TypeOK, cycle, rows, pad
<1>16. CASE GcExpire(p)
  <2>1. gc' \in [Procs -> Collection]
    <3>1. [NoPass EXCEPT !.pc = "read"] \in Collection
      BY DEF NoPass, Collection
    <3>2. QED BY <1>7, <1>16, <3>1 DEF GcExpire, Pass
  <2>2. buf' \in [Procs -> Buffer]
    <3> DEFINE b == [buf[p] EXCEPT !.sweep = @ \cup Swept, !.doomed = past]
    <3>1. b \in Buffer
      BY <1>2, ContextAssumption DEF Buffer, Swept, Types, TypeOK
    <3>2. buf' = [buf EXCEPT ![p] = b] \/ buf' = buf
      BY <1>16 DEF GcExpire, Types
    <3> HIDE DEF b
    <3>3. QED BY <3>1, <3>2 DEF Types
  <2>3. "up" \in DOMAIN left' /\ left'.up \in BOOLEAN
    BY <1>16, SpendKeeps DEF GcExpire, Kinds
  <2>4. QED BY <1>16, <2>1, <2>2, <2>3 DEF GcExpire, Types, TypeOK, cycle, blobs, pad
<1>17. CASE GcRead(p)
  <2> DEFINE x == [pc |-> "prune", todo |-> Texts, refs |-> SeenTexts(p), safe |-> SeenTexts(p)]
  <2>1. x \in Collection
    BY VisibleType DEF Collection
  <2>2. gc' \in [Procs -> Collection]
    BY <1>7, <1>17, <2>1 DEF GcRead, Pass
  <2>3. QED BY <1>17, <2>2 DEF GcRead, Types, TypeOK, cycle, rows, blobs, pad
<1>18. CASE GcEnd(p)
  <2>1. gc' \in [Procs -> Collection]
    BY <1>2, <1>7, <1>18 DEF GcEnd, Pass
  <2>2. QED BY <1>18, <2>1 DEF GcEnd, Types, TypeOK, cycle, rows, blobs, pad
<1>19. ASSUME NEW t \in Texts, GcPrune(p, t)
       PROVE  Types' /\ \A q \in Procs : Shaped(writer'[q])
  <2>1. writer' \in [Procs -> Write] /\ \A q \in Procs : Shaped(writer'[q])
    <3>1. Loses(t) \/ writer' = writer
      BY <1>19 DEF GcPrune
    <3>2. QED BY <1>5, <3>1 DEF Types
  <2>2. /\ blob' \in [Texts -> {"none", "torn", "whole"}]
        /\ harm' \in [Texts -> SUBSET {"collected", "quarantined", "torn"}]
    <3> DEFINE H == SUBSET {"collected", "quarantined", "torn"}
    <3> DEFINE h == IF t \in gc[p].safe THEN harm[t] ELSE harm[t] \cup {"collected"}
    <3>1. blob \in [Texts -> {"none", "torn", "whole"}] /\ harm \in [Texts -> H] /\ h \in H
      BY DEF Types, TypeOK
    <3>2. \/ blob' = blob /\ harm' = harm
          \/ blob' = [blob EXCEPT ![t] = "none"] /\ harm' = [harm EXCEPT ![t] = h]
      BY <1>19 DEF GcPrune, blobs
    <3> HIDE DEF h, H
    <3>3. blob' \in [Texts -> {"none", "torn", "whole"}] /\ harm' \in [Texts -> H]
      BY <3>1, <3>2
    <3>4. QED BY <3>3 DEF H
  <2>3. gc' \in [Procs -> Collection]
    <3> DEFINE x == [gc[p] EXCEPT !.todo = @ \ {t}]
    <3>1. gc' = [gc EXCEPT ![p] = x] /\ x \in Collection
      BY <1>2, <1>19 DEF GcPrune, Types, Collection
    <3> HIDE DEF x
    <3>2. QED BY <1>7, <3>1
  <2>4. found' = found
    BY <1>19 DEF GcPrune, blobs
  <2>5. QED BY <1>19, <2>1, <2>2, <2>3, <2>4 DEF GcPrune, Types, TypeOK, cycle, rows, pad
<1>20. ASSUME NEW f \in Files, NEW t \in Texts, Scratch(p, f, t)
       PROVE  Types' /\ \A q \in Procs : Shaped(writer'[q])
  <2>1. writer' \in [Procs -> Write] /\ \A q \in Procs : Shaped(writer'[q])
    <3> DEFINE x == [NoWrite EXCEPT !.pc = "lock", !.text = t, !.file = f]
    <3>1. writer' = [writer EXCEPT ![p] = x]
      BY <1>20 DEF Scratch
    <3>2. x \in Write /\ Shaped(x)
      BY ContextAssumption DEF NoWrite, Write, Shaped
    <3> HIDE DEF x
    <3>3. QED BY <1>3, <3>1, <3>2
  <2>2. "up" \in DOMAIN left' /\ left'.up \in BOOLEAN
    BY <1>20, SpendKeeps DEF Scratch, Kinds
  <2>3. QED BY <1>20, <2>1, <2>2 DEF Scratch, Types, TypeOK, cycle, rows, blobs, pad
<1>21. CASE Lock(p)
  <2>1. writer' \in [Procs -> Write] /\ \A q \in Procs : Shaped(writer'[q])
    BY <1>1, <1>4, <1>21 DEF Lock, w, Shaped
  <2>2. QED BY <1>21, <2>1 DEF Lock, Types, TypeOK, cycle, rows, blobs
<1>22. CASE LockTimeout(p)
  BY <1>1, <1>3, <1>22 DEF LockTimeout, Types, TypeOK, cycle, rows, blobs, pad
<1>23. CASE TruncatePointer(p)
  <2>1. writer' \in [Procs -> Write] /\ \A q \in Procs : Shaped(writer'[q])
    BY <1>1, <1>4, <1>23 DEF TruncatePointer, w
  <2>2. QED BY <1>23, <2>1 DEF TruncatePointer, Types, TypeOK, cycle, rows, blobs
<1>24. CASE Point(p)
  <2>1. writer' \in [Procs -> Write] /\ \A q \in Procs : Shaped(writer'[q])
    BY <1>1, <1>4, <1>24 DEF Point, w, Shaped
  <2>2. w.text \in Texts \cup {None}
    BY <1>1 DEF Write
  <2>3. ptr' \in [Files -> Texts \cup {None, "empty"}]
    BY <1>24, <2>2 DEF Point, w, Types, TypeOK
  <2>4. QED BY <1>24, <2>1, <2>3 DEF Point, Types, TypeOK, cycle, rows, blobs
<1>25. CASE Unlock(p)
  <2>1. writer' \in [Procs -> Write] /\ \A q \in Procs : Shaped(writer'[q])
    BY <1>1, <1>3, <1>25 DEF Unlock
  <2>2. w.text \in Texts \cup {None}
    BY <1>1 DEF Write
  <2>3. stands' \in [Files -> Texts \cup {None}] /\ disturbed' \in [Files -> BOOLEAN]
        /\ lock' \in [Files -> BOOLEAN]
    BY <1>25, <2>2 DEF Unlock, w, Types, TypeOK
  <2>4. QED BY <1>25, <2>1, <2>3 DEF Unlock, Types, TypeOK, cycle, rows, blobs
<1>26. ASSUME NEW f \in Files, Clear(p, f)
       PROVE  Types' /\ \A q \in Procs : Shaped(writer'[q])
  <2>1. "up" \in DOMAIN left' /\ left'.up \in BOOLEAN
    BY <1>26, SpendKeeps DEF Clear, Kinds
  <2>2. QED BY <1>26, <2>1 DEF Clear, Types, TypeOK, cycle, rows, blobs
<1>27. QED
  BY <1>8, <1>9, <1>10, <1>11, <1>12, <1>13, <1>14, <1>15, <1>16, <1>17, <1>18, <1>19, <1>20,
     <1>21, <1>22, <1>23, <1>24, <1>25, <1>26 DEF Remembers, Collects, Scribbles

(* So do a crash and the passing of time.                                   *)
LEMMA OtherTypes ==
  ASSUME Types, \A p \in Procs : Shaped(writer[p]),
         (\E p \in Procs : Crash(p)) \/ (\E n \in Nodes : Expire(n)) \/ UNCHANGED vars
  PROVE  Types' /\ \A q \in Procs : Shaped(writer'[q])
<1>1. ASSUME NEW p \in Procs, Crash(p) PROVE Types' /\ \A q \in Procs : Shaped(writer'[q])
  <2>1. Fresh \in {"new", "started"} /\ AllFresh \in [Comps -> {"new", "started"}]
    BY DEF Fresh, AllFresh
  <2>2. /\ NoCalls \in [Callers -> Starting] /\ NoCalls \in [Callers -> Stopping]
        /\ NoBuffer \in Buffer /\ NoWrite \in Write /\ NoPass \in Collection /\ Shaped(NoWrite)
    BY DEF NoCalls, Resting, Starting, Stopping, NoBuffer, Buffer, NoWrite, Write, NoPass,
           Collection, Shaped
  <2>3. "up" \in DOMAIN left' /\ left'.up \in BOOLEAN /\ left.up \in BOOLEAN
    BY <1>1, SpendKeeps DEF Crash, Kinds, Types
  <2>4. harm' \in [Texts -> SUBSET {"collected", "quarantined", "torn"}]
        /\ disturbed' \in [Files -> BOOLEAN]
    BY <1>1 DEF Crash, Types
  <2>5. /\ life' \in [Procs -> {"new", "starting", "started", "stopping", "stopped"}]
        /\ active' \in [Procs -> BOOLEAN]
        /\ comp' \in [Procs -> [Comps -> {"new", "starting", "started", "stopped"}]]
    BY <1>1, <2>1, <2>3 DEF Crash, Types, TypeOK
  <2>6. /\ starts' \in [Procs -> [Callers -> Starting]] /\ stops' \in [Procs -> [Callers -> Stopping]]
        /\ overlap' \in [Procs -> BOOLEAN] /\ halfUp' \in [Procs -> BOOLEAN]
        /\ buf' \in [Procs -> Buffer] /\ writer' \in [Procs -> Write] /\ gc' \in [Procs -> Collection]
        /\ \A q \in Procs : Shaped(writer'[q])
    BY <1>1, <2>2 DEF Crash, Types
  <2>7. found' \in [Procs -> Texts \cup {None}]
    BY <1>1 DEF Crash, Types, TypeOK
  <2>8. QED BY <1>1, <2>3, <2>4, <2>5, <2>6, <2>7 DEF Crash, Types, TypeOK
<1>2. ASSUME NEW n \in Nodes, Expire(n) PROVE Types' /\ \A q \in Procs : Shaped(writer'[q])
  <2>1. "up" \in DOMAIN left' /\ left'.up \in BOOLEAN
    BY <1>2, SpendKeeps DEF Expire, Kinds
  <2>2. QED BY <1>2, <2>1 DEF Expire, Types, TypeOK, cycle, blobs, pad
<1>3. CASE UNCHANGED vars
  BY <1>3 DEF vars, cycle, rows, blobs, pad, Types, TypeOK
<1>4. QED BY <1>1, <1>2, <1>3

-----------------------------------------------------------------------------
(* Up or down                                                               *)

(* A context that is not touched stays where it is.                         *)
LEMMA ControlFrame ==
  ASSUME NEW q \in Procs, Control(q),
         life'[q] = life[q], active'[q] = active[q], comp'[q] = comp[q],
         starts'[q] = starts[q], stops'[q] = stops[q], overlap'[q] = overlap[q],
         halfUp'[q] = halfUp[q]
  PROVE  Control(q)'
<1>1. \A c \in Callers : (StartPlace(q, c) <=> StartPlace(q, c)') /\ (StopPlace(q, c) <=> StopPlace(q, c)')
  BY DEF StartPlace, StopPlace, On, Off, AllOn
<1>2. AtRest(q) <=> AtRest(q)'
  BY DEF AtRest, AllOn, AllOff, On, Off
<1>3. QED BY <1>1, <1>2 DEF Control

(* The start() under way moves on, or returns.                              *)
LEMMA StartMoves ==
  ASSUME NEW p \in Procs, NEW c \in Callers, Control(p), overlap'[p] = overlap[p],
         starts[p][c] # Resting,
         \A d \in Callers : d # c => starts'[p][d] = starts[p][d],
         stops'[p] = stops[p],
         ~overlap[p] => IF starts'[p][c] = Resting THEN AtRest(p)' ELSE StartPlace(p, c)'
  PROVE  Control(p)'
<1> SUFFICES ASSUME ~overlap[p] PROVE Control(p)'
  BY DEF Control
<1>1. \A d \in Callers : (d # c => starts'[p][d] = Resting) /\ stops'[p][d] = Resting
  BY DEF Control
<1>2. QED BY <1>1 DEF Control

(* The same of a stop().                                                    *)
LEMMA StopMoves ==
  ASSUME NEW p \in Procs, NEW c \in Callers, Control(p), overlap'[p] = overlap[p],
         stops[p][c] # Resting,
         \A d \in Callers : d # c => stops'[p][d] = stops[p][d],
         starts'[p] = starts[p],
         ~overlap[p] => IF stops'[p][c] = Resting THEN AtRest(p)' ELSE StopPlace(p, c)'
  PROVE  Control(p)'
<1> SUFFICES ASSUME ~overlap[p] PROVE Control(p)'
  BY DEF Control
<1>1. \A d \in Callers : (d # c => stops'[p][d] = Resting) /\ starts'[p][d] = Resting
  BY DEF Control
<1>2. QED BY <1>1 DEF Control

(* A step of start() or stop() touches one context.                         *)
LEMMA CycleFrame ==
  ASSUME Types, NEW p \in Procs, NEW c \in Callers,
      \/ Start(p, c) \/ StartComponent(p, c) \/ ComponentStarted(p, c) \/ ComponentFails(p, c)
      \/ AllStarted(p, c) \/ InitWorkspace(p, c) \/ InitFails(p, c) \/ Unwind(p, c)
      \/ Stop(p, c) \/ StopStep(p, c),
      NEW q \in Procs, q # p
  PROVE  /\ life'[q] = life[q] /\ active'[q] = active[q] /\ comp'[q] = comp[q]
         /\ starts'[q] = starts[q] /\ stops'[q] = stops[q] /\ overlap'[q] = overlap[q]
         /\ halfUp'[q] = halfUp[q]
<1> USE DEF Types, TypeOK, Goes, Ends, Becomes, Unwinds, StopsComponent
<1>1. CASE Start(p, c)
  BY <1>1 DEF Start
<1>2. CASE StartComponent(p, c)
  BY <1>2 DEF StartComponent
<1>3. CASE ComponentStarted(p, c)
  BY <1>3 DEF ComponentStarted
<1>4. CASE ComponentFails(p, c)
  BY <1>4 DEF ComponentFails
<1>5. CASE AllStarted(p, c)
  BY <1>5 DEF AllStarted
<1>6. CASE InitWorkspace(p, c)
  BY <1>6 DEF InitWorkspace
<1>7. CASE InitFails(p, c)
  BY <1>7 DEF InitFails
<1>8. CASE Unwind(p, c)
  BY <1>8 DEF Unwind
<1>9. CASE Stop(p, c)
  BY <1>9 DEF Stop
<1>10. CASE StopStep(p, c)
  BY <1>10 DEF StopStep
<1>11. QED BY <1>1, <1>2, <1>3, <1>4, <1>5, <1>6, <1>7, <1>8, <1>9, <1>10

(* A component changes its state, and the others keep theirs.               *)
LEMMA OneBecomes ==
  ASSUME Types, NEW p \in Procs, NEW j \in 1..4, NEW s, Becomes(p, Order[j], s)
  PROVE  /\ comp'[p][Order[j]] = s
         /\ \A k \in 1..4 : k # j => comp'[p][Order[k]] = comp[p][Order[k]]
BY OrderFacts DEF Types, TypeOK, Becomes

(* The place of a caller after it moved.                                    *)
LEMMA Went ==
  ASSUME Types, NEW p \in Procs, NEW c \in Callers, NEW pc, NEW j, Goes(p, c, pc, j)
  PROVE  /\ starts'[p][c].pc = pc /\ starts'[p][c].i = j
         /\ \A d \in Callers : d # c => starts'[p][d] = starts[p][d]
BY DEF Types, Goes

LEMMA StartControls ==
  ASSUME Types, NEW p \in Procs, NEW c \in Callers, Control(p),
         StartComponent(p, c) \/ ComponentStarted(p, c) \/ ComponentFails(p, c)
  PROVE  Control(p)'
<1> DEFINE i == starts[p][c].i
<1>1. starts[p][c] \in Starting
  BY DEF Types
<1>2. starts[p][c].pc \in {"at", "waits"} /\ starts[p][c] # Resting
  BY DEF StartComponent, ComponentStarted, ComponentFails, Resting
<1>3. i \in 1..4
  BY <1>1, <1>2, OrderFacts DEF Starting, StartComponent, ComponentStarted, ComponentFails
<1>4. /\ life' = life /\ active' = active /\ overlap' = overlap /\ halfUp' = halfUp /\ stops' = stops
  BY DEF StartComponent, ComponentStarted, ComponentFails
<1>5. Order[i] \in Comps /\ (Order[i] = "db" <=> i = 1)
  BY <1>3, OrderFacts
<1> SUFFICES ASSUME ~overlap[p]
             PROVE  /\ \A d \in Callers : d # c => starts'[p][d] = starts[p][d]
                    /\ starts'[p][c] # Resting /\ StartPlace(p, c)'
  <2>1. overlap[p] \in BOOLEAN
    BY DEF Types
  <2>2. CASE overlap[p]
    BY <1>4, <2>2 DEF Control
  <2>3. QED BY <1>2, <1>4, <2>2, StartMoves
<1>6. StartPlace(p, c) /\ life[p] = "starting" /\ ~active[p]
  BY <1>2 DEF Control, StartPlace
<1>7. CASE StartComponent(p, c)
  <2>1. \A j \in 1..4 : IF j < i THEN On(p, j) ELSE Off(p, j)
    BY <1>6, <1>7 DEF StartPlace, StartComponent
  <2>2. ~Up(p, Order[i])
    BY <1>3, <2>1 DEF Off, Up
  <2>3. CASE Unwinds(p, c, i) /\ comp' = comp
    <3>1. Goes(p, c, "unwind", i - 1)
      BY <2>3 DEF Unwinds
    <3>2. starts'[p][c].pc = "unwind" /\ starts'[p][c].i = i - 1
          /\ \A d \in Callers : d # c => starts'[p][d] = starts[p][d]
      BY <3>1, Went
    <3>3. \A j \in 1..4 : IF j <= i - 1 THEN On(p, j)' ELSE Off(p, j)'
      BY <1>3, <2>1, <2>3 DEF On, Off
    <3>4. QED BY <1>4, <1>6, <3>2, <3>3 DEF StartPlace, Resting
  <2>4. CASE Order[i] \in Slow
    <3>1. CASE ~(Unwinds(p, c, i) /\ comp' = comp)
      <4>1. Goes(p, c, "waits", i)
            /\ IF Order[i] = "db" THEN Becomes(p, Order[i], "starting") ELSE comp' = comp
        BY <1>7, <2>2, <2>4, <3>1 DEF StartComponent
      <4>2. starts'[p][c].pc = "waits" /\ starts'[p][c].i = i
            /\ \A d \in Callers : d # c => starts'[p][d] = starts[p][d]
        BY <4>1, Went
      <4>3. \A j \in 1..4 : IF j < i THEN On(p, j)'
                             ELSE Off(p, j)' \/ (j = 1 /\ i = 1 /\ comp'[p]["db"] = "starting")
        <5>1. CASE i = 1
          <6>1. /\ comp'[p][Order[i]] = "starting"
                /\ \A k \in 1..4 : k # i => comp'[p][Order[k]] = comp[p][Order[k]]
            BY <1>3, <1>5, <4>1, <5>1, OneBecomes
          <6>2. QED BY <1>5, <2>1, <5>1, <6>1 DEF On, Off
        <5>2. CASE i # 1
          <6>1. comp' = comp
            BY <1>5, <4>1, <5>2
          <6>2. QED BY <2>1, <6>1 DEF On, Off
        <5>3. QED BY <5>1, <5>2
      <4>4. QED BY <1>4, <1>6, <4>2, <4>3 DEF StartPlace, Resting
    <3>2. QED BY <2>3, <3>1
  <2>5. CASE Order[i] \notin Slow
    <3>1. CASE ~(Unwinds(p, c, i) /\ comp' = comp)
      <4>1. Goes(p, c, "at", i + 1) /\ Becomes(p, Order[i], "started")
        BY <1>7, <2>2, <2>5, <3>1 DEF StartComponent
      <4>2. starts'[p][c].pc = "at" /\ starts'[p][c].i = i + 1
            /\ \A d \in Callers : d # c => starts'[p][d] = starts[p][d]
        BY <4>1, Went
      <4>3. /\ comp'[p][Order[i]] = "started"
            /\ \A k \in 1..4 : k # i => comp'[p][Order[k]] = comp[p][Order[k]]
        BY <1>3, <4>1, OneBecomes
      <4>4. \A j \in 1..4 : IF j < i + 1 THEN On(p, j)' ELSE Off(p, j)'
        BY <1>3, <2>1, <4>3 DEF On, Off
      <4>5. QED BY <1>4, <1>6, <4>2, <4>4 DEF StartPlace, Resting
    <3>2. QED BY <2>3, <3>1
  <2>6. QED BY <2>4, <2>5
<1>8. ASSUME starts[p][c].pc = "waits"
      PROVE  \A j \in 1..4 : /\ j < i => On(p, j)
                             /\ j > i => Off(p, j)
                             /\ j = i => Off(p, j) \/ (i = 1 /\ comp[p]["db"] = "starting")
  <2>1. \A j \in 1..4 : IF j < i THEN On(p, j)
                        ELSE Off(p, j) \/ (j = 1 /\ i = 1 /\ comp[p]["db"] = "starting")
    BY <1>6, <1>8 DEF StartPlace, On, Off
  <2> HIDE DEF i
  <2>2. QED BY <1>3, <2>1 DEF On, Off
<1>9. CASE ComponentStarted(p, c)
  <2>1. Goes(p, c, "at", i + 1) /\ Becomes(p, Order[i], "started") /\ starts[p][c].pc = "waits"
    BY <1>9 DEF ComponentStarted
  <2>2. starts'[p][c].pc = "at" /\ starts'[p][c].i = i + 1
        /\ \A d \in Callers : d # c => starts'[p][d] = starts[p][d]
    BY <2>1, Went
  <2>3. /\ comp'[p][Order[i]] = "started"
        /\ \A k \in 1..4 : k # i => comp'[p][Order[k]] = comp[p][Order[k]]
    BY <1>3, <2>1, OneBecomes
  <2>4. \A j \in 1..4 : IF j < i + 1 THEN On(p, j)' ELSE Off(p, j)'
    BY <1>3, <1>8, <2>1, <2>3 DEF On, Off
  <2>5. QED BY <1>4, <1>6, <2>2, <2>4 DEF StartPlace, Resting
<1>10. CASE ComponentFails(p, c)
  <2>1. Goes(p, c, "unwind", i - 1) /\ starts[p][c].pc = "waits"
    BY <1>10 DEF ComponentFails, Unwinds
  <2>2. starts'[p][c].pc = "unwind" /\ starts'[p][c].i = i - 1
        /\ \A d \in Callers : d # c => starts'[p][d] = starts[p][d]
    BY <2>1, Went
  <2>3. \A j \in 1..4 : IF j <= i - 1 THEN On(p, j)' ELSE Off(p, j)'
    <3>1. CASE comp' = comp /\ (i = 1 => comp[p]["db"] # "starting")
      BY <1>3, <1>8, <2>1, <3>1 DEF On, Off
    <3>2. CASE Order[i] = "db" /\ Becomes(p, Order[i], "new")
      <4>1. /\ comp'[p][Order[i]] = "new"
            /\ \A k \in 1..4 : k # i => comp'[p][Order[k]] = comp[p][Order[k]]
        BY <1>3, <3>2, OneBecomes
      <4>2. QED BY <1>3, <1>8, <2>1, <4>1 DEF On, Off
    <3>3. QED BY <1>5, <1>10, <3>1, <3>2 DEF ComponentFails
  <2>4. QED BY <1>4, <1>6, <2>2, <2>3 DEF StartPlace, Resting
<1>11. QED BY <1>7, <1>9, <1>10

LEMMA InitControls ==
  ASSUME Types, NEW p \in Procs, NEW c \in Callers, Control(p),
         AllStarted(p, c) \/ InitWorkspace(p, c) \/ InitFails(p, c)
  PROVE  Control(p)'
<1> DEFINE i == starts[p][c].i
<1>1. starts[p][c] \in Starting
  BY DEF Types
<1>2. starts[p][c].pc \in {"at", "init"} /\ starts[p][c] # Resting
  BY DEF AllStarted, InitWorkspace, InitFails, Resting
<1>3. comp' = comp /\ stops' = stops /\ overlap' = overlap
  BY DEF AllStarted, InitWorkspace, InitFails
<1>4. \A j \in 1..4 : On(p, j)' <=> On(p, j)
  BY <1>3 DEF On
<1> SUFFICES ASSUME ~overlap[p]
             PROVE  /\ \A d \in Callers : d # c => starts'[p][d] = starts[p][d]
                    /\ IF starts'[p][c] = Resting THEN AtRest(p)' ELSE StartPlace(p, c)'
  <2>1. CASE overlap[p]
    BY <1>3, <2>1 DEF Control
  <2>2. QED BY <1>2, <1>3, <2>1, StartMoves
<1>5. StartPlace(p, c) /\ life[p] = "starting"
  BY <1>2 DEF Control, StartPlace
<1>6. CASE AllStarted(p, c)
  <2>1. Goes(p, c, "init", 0) /\ active'[p] = TRUE /\ life' = life
    BY <1>6 DEF AllStarted, Types, TypeOK
  <2>2. starts'[p][c].pc = "init"
        /\ \A d \in Callers : d # c => starts'[p][d] = starts[p][d]
    BY <2>1, Went
  <2>3. i = 5 /\ starts[p][c].pc = "at"
    BY <1>1, <1>6, OrderFacts DEF AllStarted, Starting
  <2>4. AllOn(p)
    BY <1>5, <2>3 DEF StartPlace, AllOn
  <2>5. QED BY <1>4, <1>5, <2>1, <2>2, <2>4 DEF StartPlace, AllOn, Resting
<1>7. ASSUME InitWorkspace(p, c) \/ InitFails(p, c)
      PROVE  /\ active[p] /\ AllOn(p) /\ active' = active /\ starts'[p][c] = Resting
             /\ \A d \in Callers : d # c => starts'[p][d] = starts[p][d]
  <2>1. active[p] /\ AllOn(p)
    BY <1>5, <1>7 DEF StartPlace, InitWorkspace, InitFails
  <2>2. Ends(p, c) /\ active' = active
    BY <1>7 DEF InitWorkspace, InitFails
  <2>3. QED BY <2>1, <2>2 DEF Ends, Types
<1>8. CASE InitWorkspace(p, c)
  <2>1. life'[p] = "started"
    BY <1>8 DEF InitWorkspace, Types, TypeOK
  <2>2. AtRest(p)'
    BY <1>4, <1>7, <1>8, <2>1 DEF AtRest, AllOn
  <2>3. QED BY <1>7, <1>8, <2>2
<1>9. CASE InitFails(p, c)
  <2>1. life'[p] = "new" /\ halfUp'[p] = TRUE
    BY <1>9 DEF InitFails, Types, TypeOK
  <2>2. AtRest(p)'
    BY <1>4, <1>7, <1>9, <2>1 DEF AtRest, AllOn
  <2>3. QED BY <1>7, <1>9, <2>2
<1>10. QED BY <1>6, <1>8, <1>9

LEMMA UnwindControls ==
  ASSUME Types, NEW p \in Procs, NEW c \in Callers, Control(p), Unwind(p, c)
  PROVE  Control(p)'
<1> DEFINE i == starts[p][c].i
<1>1. starts[p][c] \in Starting /\ starts[p][c].pc = "unwind" /\ starts[p][c] # Resting
  BY DEF Types, Unwind, Resting
<1>2. i \in 0..4
  BY <1>1 DEF Starting
<1>3. active' = active /\ stops' = stops /\ overlap' = overlap /\ halfUp' = halfUp
  BY DEF Unwind
<1> SUFFICES ASSUME ~overlap[p]
             PROVE  /\ \A d \in Callers : d # c => starts'[p][d] = starts[p][d]
                    /\ IF starts'[p][c] = Resting THEN AtRest(p)' ELSE StartPlace(p, c)'
  <2>1. CASE overlap[p]
    BY <1>3, <2>1 DEF Control
  <2>2. QED BY <1>1, <1>3, <2>1, StartMoves
<1>4. StartPlace(p, c) /\ life[p] = "starting" /\ ~active[p]
  BY <1>1 DEF Control, StartPlace
<1>5. \A j \in 1..4 : IF j <= i THEN On(p, j) ELSE Off(p, j)
  BY <1>1, <1>4 DEF StartPlace
<1>6. CASE i = 0
  <2>1. Ends(p, c) /\ life'[p] = "new" /\ comp' = comp
    BY <1>6 DEF Unwind, Types, TypeOK
  <2>2. starts'[p][c] = Resting /\ \A d \in Callers : d # c => starts'[p][d] = starts[p][d]
    BY <2>1 DEF Ends, Types
  <2>3. AllOff(p)'
    BY <1>5, <1>6, <2>1 DEF AllOff, Off
  <2>4. QED BY <1>3, <1>4, <2>1, <2>2, <2>3 DEF AtRest
<1>7. CASE i # 0
  <2>1. i \in 1..4
    BY <1>2, <1>7
  <2>2. Becomes(p, Order[i], "stopped") /\ Goes(p, c, "unwind", i - 1) /\ life' = life
    BY <1>7 DEF Unwind, StopsComponent
  <2>3. starts'[p][c].pc = "unwind" /\ starts'[p][c].i = i - 1
        /\ \A d \in Callers : d # c => starts'[p][d] = starts[p][d]
    BY <2>2, Went
  <2>4. /\ comp'[p][Order[i]] = "stopped"
        /\ \A k \in 1..4 : k # i => comp'[p][Order[k]] = comp[p][Order[k]]
    BY <2>1, <2>2, OneBecomes
  <2> HIDE DEF i
  <2>5. \A j \in 1..4 : IF j <= i - 1 THEN On(p, j)' ELSE Off(p, j)'
    BY <1>5, <2>1, <2>4 DEF On, Off
  <2>6. QED BY <1>3, <1>4, <2>2, <2>3, <2>5 DEF StartPlace, Resting
<1>8. QED BY <1>6, <1>7

LEMMA StopStepControls ==
  ASSUME Types, NEW p \in Procs, NEW c \in Callers, Control(p), StopStep(p, c)
  PROVE  Control(p)'
<1> DEFINE i == stops[p][c].i
<1>1. /\ stops[p][c] \in Stopping /\ stops[p] \in [Callers -> Stopping]
      /\ stops[p][c].pc = "at" /\ stops[p][c] # Resting
  BY DEF Types, StopStep, Resting
<1>2. i \in 0..4
  BY <1>1 DEF Stopping
<1>3. active' = active /\ starts' = starts /\ overlap' = overlap /\ halfUp' = halfUp
  BY DEF StopStep
<1> SUFFICES ASSUME ~overlap[p]
             PROVE  /\ \A d \in Callers : d # c => stops'[p][d] = stops[p][d]
                    /\ IF stops'[p][c] = Resting THEN AtRest(p)' ELSE StopPlace(p, c)'
  <2>1. CASE overlap[p]
    BY <1>3, <2>1 DEF Control
  <2>2. QED BY <1>1, <1>3, <2>1, StopMoves
<1>4. StopPlace(p, c)
  BY <1>1 DEF Control
<1>5. \A j \in 1..4 : IF j <= i THEN On(p, j) ELSE Off(p, j)
  BY <1>4 DEF StopPlace
<1>6. CASE i = 0
  <2>1. life'[p] = "stopped" /\ comp' = comp
    BY <1>6 DEF StopStep, Types, TypeOK
  <2>2. stops'[p][c] = Resting /\ \A d \in Callers : d # c => stops'[p][d] = stops[p][d]
    BY <1>1, <1>6 DEF StopStep, Types
  <2>3. AllOff(p)'
    BY <1>5, <1>6, <2>1 DEF AllOff, Off
  <2>4. QED BY <1>3, <2>1, <2>2, <2>3 DEF AtRest
<1>7. CASE i # 0
  <2>1. i \in 1..4
    BY <1>2, <1>7
  <2>2. Becomes(p, Order[i], "stopped") /\ life' = life
        /\ stops' = [stops EXCEPT ![p][c].i = i - 1]
    BY <1>7 DEF StopStep, StopsComponent
  <2> DEFINE s == [stops[p][c] EXCEPT !.i = i - 1]
  <2>3. stops'[p][c] = s /\ \A d \in Callers : d # c => stops'[p][d] = stops[p][d]
    BY <1>1, <2>2 DEF Types
  <2>4. s.pc = "at" /\ s.i = i - 1
    BY <1>1 DEF Stopping
  <2> HIDE DEF s
  <2>5. /\ comp'[p][Order[i]] = "stopped"
        /\ \A k \in 1..4 : k # i => comp'[p][Order[k]] = comp[p][Order[k]]
    BY <2>1, <2>2, OneBecomes
  <2> HIDE DEF i
  <2>6. \A j \in 1..4 : IF j <= i - 1 THEN On(p, j)' ELSE Off(p, j)'
    BY <1>5, <2>1, <2>5 DEF On, Off
  <2>7. QED BY <1>3, <1>4, <2>2, <2>3, <2>4, <2>6 DEF StopPlace, Resting
<1>8. QED BY <1>6, <1>7

(* A call begins when none is under way, or overlaps.                       *)
LEMMA CallControls ==
  ASSUME Types, NEW p \in Procs, NEW c \in Callers, Control(p), Start(p, c) \/ Stop(p, c)
  PROVE  Control(p)'
<1>1. overlap'[p] = (overlap[p] \/ Calling(p))
  BY DEF Start, Stop, Types
<1>2. CASE overlap[p] \/ Calling(p)
  BY <1>1, <1>2 DEF Control
<1>3. CASE ~overlap[p] /\ ~Calling(p)
  <2>1. \A d \in Callers : starts[p][d] = Resting /\ stops[p][d] = Resting
    BY <1>3 DEF Calling
  <2>2. AtRest(p)
    BY <1>3, <2>1 DEF Control
  <2>3. comp' = comp /\ halfUp' = halfUp
    BY DEF Start, Stop
  <2>4. \A j \in 1..4 : (On(p, j)' <=> On(p, j)) /\ (Off(p, j)' <=> Off(p, j))
    BY <2>3 DEF On, Off
  <2>5. CASE Start(p, c)
    <3>1. life[p] = "new" /\ life'[p] = "starting" /\ active' = active /\ stops' = stops
      BY <2>2, <2>5 DEF Start, AtRest, Types, TypeOK
    <3>2. IF active[p] THEN Goes(p, c, "init", 0) ELSE Goes(p, c, "at", 1)
      BY <2>5 DEF Start
    <3>3. /\ starts'[p][c].pc = IF active[p] THEN "init" ELSE "at"
          /\ starts'[p][c].i = IF active[p] THEN 0 ELSE 1
          /\ \A d \in Callers : d # c => starts'[p][d] = starts[p][d]
      BY <3>2, Went
    <3>4. IF active[p] THEN AllOn(p)' ELSE \A j \in 1..4 : Off(p, j)'
      BY <2>2, <2>4, <3>1 DEF AtRest, AllOn, AllOff
    <3>5. StartPlace(p, c)'
      BY <3>1, <3>3, <3>4 DEF StartPlace
    <3>6. starts'[p][c] # Resting
      BY <3>3 DEF Resting
    <3>7. QED BY <2>1, <3>1, <3>3, <3>5, <3>6 DEF Control
  <2>6. CASE Stop(p, c) /\ life[p] = "new"
    <3>1. life'[p] = "stopped" /\ starts' = starts /\ stops' = stops
      BY <2>6 DEF Stop, Types, TypeOK
    <3>2. halfUp[p] \/ AllOff(p)
      BY <2>2, <2>6 DEF AtRest
    <3>3. AtRest(p)'
      BY <2>3, <2>4, <3>1, <3>2 DEF AtRest, AllOff
    <3>4. QED BY <2>1, <3>1, <3>3 DEF Control
  <2>7. CASE Stop(p, c) /\ life[p] # "new"
    <3>1. active[p] /\ AllOn(p)
      BY <2>2, <2>7 DEF AtRest, Stop
    <3>2. life'[p] = "stopping" /\ ~active'[p] /\ starts' = starts
      BY <2>7 DEF Stop, Types, TypeOK
    <3>3. stops' = [stops EXCEPT ![p][c] = [pc |-> "at", i |-> 4]]
      BY <2>7, <3>1, OrderFacts DEF Stop
    <3>4. /\ stops'[p][c] = [pc |-> "at", i |-> 4]
          /\ \A d \in Callers : d # c => stops'[p][d] = stops[p][d]
      BY <3>3 DEF Types
    <3>5. StopPlace(p, c)'
      BY <2>4, <3>1, <3>2, <3>4 DEF StopPlace, AllOn
    <3>6. stops'[p][c] # Resting
      BY <3>4 DEF Resting
    <3>7. QED BY <2>1, <3>2, <3>4, <3>5, <3>6 DEF Control
  <2>8. QED BY <2>5, <2>6, <2>7
<1>4. QED BY <1>2, <1>3

LEMMA FreshControls ==
  ASSUME NEW p \in Procs, left.up \in BOOLEAN,
         life[p] = Fresh, active[p] = left.up, comp[p] = AllFresh,
         starts[p] = NoCalls, stops[p] = NoCalls
  PROVE  Control(p)
<1>1. \A c \in Callers : starts[p][c] = Resting /\ stops[p][c] = Resting
  BY DEF NoCalls
<1>2. \A j \in 1..4 : comp[p][Order[j]] = Fresh
  BY OrderFacts DEF AllFresh
<1>3. AtRest(p)
  BY <1>2 DEF AtRest, AllOn, AllOff, On, Off, Fresh
<1>4. QED BY <1>1, <1>3 DEF Control

LEMMA ControlInductive ==
  ASSUME Types, \A p \in Procs : Control(p), [Next]_vars
  PROVE  \A p \in Procs : Control(p)'
<1> SUFFICES ASSUME NEW q \in Procs PROVE Control(q)'
  OBVIOUS
<1>1. ASSUME UNCHANGED cycle PROVE Control(q)'
  BY <1>1, ControlFrame DEF cycle
<1>2. ASSUME NEW p \in Procs, StartsAndStops(p) PROVE Control(q)'
  <2>1. PICK c \in Callers :
      \/ Start(p, c) \/ StartComponent(p, c) \/ ComponentStarted(p, c) \/ ComponentFails(p, c)
      \/ AllStarted(p, c) \/ InitWorkspace(p, c) \/ InitFails(p, c) \/ Unwind(p, c)
      \/ Stop(p, c) \/ StopStep(p, c)
    BY <1>2 DEF StartsAndStops
  <2>2. CASE q # p
    BY <2>1, <2>2, CycleFrame, ControlFrame
  <2>3. CASE q = p
    BY <2>1, <2>3, StartControls, InitControls, UnwindControls, StopStepControls, CallControls
  <2>4. QED BY <2>2, <2>3
<1>3. ASSUME NEW p \in Procs, Remembers(p) PROVE Control(q)'
  BY <1>1, <1>3 DEF Remembers, Access, Open, Written, PushRow, Flush, Delete, Add,
                   ReadTorn, Quarantine, RenameFails
<1>4. ASSUME NEW p \in Procs, Collects(p) PROVE Control(q)'
  BY <1>1, <1>4 DEF Collects, GcExpire, GcRead, GcEnd, GcPrune
<1>5. ASSUME NEW p \in Procs, Scribbles(p) PROVE Control(q)'
  BY <1>1, <1>5 DEF Scribbles, Lock, LockTimeout, TruncatePointer, Point, Unlock, Clear, Scratch
<1>6. ASSUME NEW p \in Procs, Crash(p) PROVE Control(q)'
  <2>1. left'.up = left.up /\ left.up \in BOOLEAN
    BY <1>6, SpendKeeps DEF Crash, Kinds, Types
  <2>2. CASE q # p
    BY <1>6, <2>2, ControlFrame DEF Crash, Types, TypeOK
  <2>3. CASE q = p
    <3>1. /\ life'[q] = Fresh /\ active'[q] = left.up /\ comp'[q] = AllFresh
          /\ starts'[q] = NoCalls /\ stops'[q] = NoCalls
      BY <1>6, <2>3 DEF Crash, Types, TypeOK
    <3>2. /\ life'[q] = Fresh' /\ active'[q] = left'.up /\ comp'[q] = AllFresh'
          /\ starts'[q] = NoCalls' /\ stops'[q] = NoCalls' /\ left'.up \in BOOLEAN
      BY <2>1, <3>1 DEF Fresh, AllFresh, NoCalls
    <3>3. \A c \in Callers : starts'[q][c] = Resting /\ stops'[q][c] = Resting
      BY <3>1 DEF NoCalls
    <3>4. \A j \in 1..4 : comp'[q][Order[j]] = Fresh
      BY <3>1, OrderFacts DEF AllFresh
    <3>5. AtRest(q)'
      BY <2>1, <3>1, <3>4 DEF AtRest, AllOn, AllOff, On, Off, Fresh
    <3>6. QED BY <3>3, <3>5 DEF Control
  <2>4. QED BY <2>2, <2>3
<1>7. ASSUME NEW n \in Nodes, Expire(n) PROVE Control(q)'
  BY <1>1, <1>7 DEF Expire
<1>8. CASE UNCHANGED vars
  BY <1>1, <1>8 DEF vars
<1>9. QED BY <1>2, <1>3, <1>4, <1>5, <1>6, <1>7, <1>8 DEF Next

-----------------------------------------------------------------------------
(* Rows and their contents                                                  *)

(* Every writer but p goes on; p is not writing, or to what has no name.    *)
OthersWrite(p) ==
  /\ writer[p].pc # "write" \/ writer[p].lost
  /\ \A q \in Procs : q # p => writer'[q] = writer[q]

LEMMA WritingStays ==
  ASSUME NEW p \in Procs, OthersWrite(p), NEW t, Writing(t)
  PROVE  Writing(t)'
BY DEF OthersWrite, Writing, OnIt

LEMMA TextType ==
  ASSUME Types, NEW p \in Procs, Shaped(writer[p]), writer[p].pc # "none"
  PROVE  writer[p].text \in Texts
<1>1. writer[p] \in Write
  BY DEF Types
<1>2. QED BY <1>1 DEF Write, Shaped

(* A blob is removed and a reason is noted; who has it open has lost it.    *)
LEMMA Removed ==
  ASSUME Types, NEW x \in Texts, NEW h, h # {}, Loses(x),
         blob' = [blob EXCEPT ![x] = "none"], harm' = [harm EXCEPT ![x] = h],
         NEW t \in Texts
  PROVE  (Hydrates(t) => Hydrates(t)') /\ (blob'[t] = "torn" => blob[t] = "torn")
<1>1. CASE t = x
  BY <1>1 DEF Hydrates, Types, TypeOK
<1>2. CASE t # x
  <2>1. blob'[t] = blob[t] /\ harm'[t] = harm[t]
    BY <1>2 DEF Types, TypeOK
  <2>2. ASSUME NEW q \in Procs, OnIt(q, t), ~writer[q].lost
        PROVE  OnIt(q, t)' /\ ~writer'[q].lost
    <3>1. writer[q] \in Write
      BY DEF Types
    <3>2. ~OnIt(q, x)
      BY <1>2, <2>2 DEF OnIt
    <3>3. writer'[q] = [writer[q] EXCEPT !.lost = writer[q].lost \/ OnIt(q, x)]
      BY DEF Loses
    <3> DEFINE b == writer[q].lost \/ OnIt(q, x)
    <3>4. ~b
      BY <2>2, <3>2
    <3> HIDE DEF b
    <3>5. writer'[q] = [writer[q] EXCEPT !.lost = b]
      BY <3>3 DEF b
    <3>6. QED BY <2>2, <3>1, <3>4, <3>5 DEF OnIt, Write
  <2>3. Writing(t) => Writing(t)'
    BY <2>2 DEF Writing
  <2>4. QED BY <2>1, <2>3 DEF Hydrates
<1>3. QED BY <1>1, <1>2

(* What has its content keeps it, and nothing is torn without a reason.     *)
LEMMA HydratesStays ==
  ASSUME Types, \A p \in Procs : Shaped(writer[p]), \A p \in Procs : gc[p].refs = gc[p].safe,
         [Next]_vars, NEW t \in Texts
  PROVE  (Hydrates(t) => Hydrates(t)') /\ (blob'[t] = "torn" => blob[t] = "torn" \/ Hydrates(t)')
<1> DEFINE Keeps == (Hydrates(t) => Hydrates(t)')
                    /\ (blob'[t] = "torn" => blob[t] = "torn" \/ Hydrates(t)')
<1>1. ASSUME NEW p \in Procs, OthersWrite(p), UNCHANGED blobs
      PROVE  Keeps
  <2>1. Writing(t) => Writing(t)'
    BY <1>1, WritingStays
  <2>2. QED BY <1>1, <2>1 DEF Hydrates, blobs
<1>0. ASSUME UNCHANGED <<blob, harm, writer>>
      PROVE  Keeps
  <2>1. Writing(t) => Writing(t)'
    BY <1>0 DEF Writing, OnIt
  <2>2. QED BY <1>0, <2>1 DEF Hydrates
<1>2. ASSUME UNCHANGED <<blobs, writer>>
      PROVE  Keeps
  BY <1>0, <1>2 DEF blobs
<1>3. ASSUME NEW p \in Procs, Open(p)
      PROVE  Keeps
  <2>1. writer[p] \in Write /\ Shaped(writer[p]) /\ writer[p].pc = "open"
    BY <1>3 DEF Types, Open
  <2>2. OthersWrite(p)
    BY <1>3, <2>1 DEF Open, Writer, OthersWrite, Types
  <2>3. Writing(t) => Writing(t)'
    BY <2>2, WritingStays
  <2>4. harm' = harm /\ blob' = [blob EXCEPT ![writer[p].text] = "torn"]
    BY <1>3 DEF Open
  <2>5. CASE t = writer[p].text
    <3>1. writer'[p] = [writer[p] EXCEPT !.pc = "write"]
      BY <1>3 DEF Open, Writer, Types
    <3>2. writer'[p].pc = "write" /\ writer'[p].text = t /\ ~writer'[p].lost
      BY <2>1, <2>5, <3>1 DEF Write, Shaped
    <3>3. Writing(t)'
      BY <3>2 DEF Writing, OnIt
    <3>4. QED BY <3>3 DEF Hydrates
  <2>6. CASE t # writer[p].text
    BY <2>3, <2>4, <2>6 DEF Hydrates, Types, TypeOK
  <2>7. QED BY <2>5, <2>6
<1>4. ASSUME NEW p \in Procs, Written(p)
      PROVE  Keeps
  <2>1. \A q \in Procs : q # p => writer'[q] = writer[q]
    BY <1>4 DEF Written, Types
  <2>2. CASE writer[p].lost
    BY <1>1, <1>4, <2>1, <2>2 DEF Written, OthersWrite
  <2>3. CASE ~writer[p].lost /\ t = writer[p].text
    BY <1>4, <2>3 DEF Written, Hydrates, Types, TypeOK
  <2>4. CASE ~writer[p].lost /\ t # writer[p].text
    <3>1. blob'[t] = blob[t] /\ harm'[t] = harm[t]
      BY <1>4, <2>4 DEF Written, Types, TypeOK
    <3>2. Writing(t) => Writing(t)'
      BY <2>1, <2>4 DEF Writing, OnIt
    <3>3. QED BY <3>1, <3>2 DEF Hydrates
  <2>5. QED BY <2>2, <2>3, <2>4
<1>5. ASSUME NEW p \in Procs, NEW x \in Texts, Quarantine(p, x)
      PROVE  Keeps
  <2>1. /\ Loses(x) /\ blob' = [blob EXCEPT ![x] = "none"]
        /\ harm' = [harm EXCEPT ![x] = harm[x] \cup {"quarantined"}]
    BY <1>5 DEF Quarantine
  <2> DEFINE h == harm[x] \cup {"quarantined"}
  <2>2. h # {}
    OBVIOUS
  <2>3. harm' = [harm EXCEPT ![x] = h]
    BY <2>1
  <2> HIDE DEF h
  <2>4. QED BY <2>1, <2>2, <2>3, Removed
<1>6. ASSUME NEW p \in Procs, NEW x \in Texts, GcPrune(p, x)
      PROVE  Keeps
  <2>1. CASE x \in gc[p].refs \/ blob[x] = "none"
    BY <1>2, <1>6, <2>1 DEF GcPrune
  <2>2. CASE ~ (x \in gc[p].refs \/ blob[x] = "none")
    <3> DEFINE h == harm[x] \cup {"collected"}
    <3>1. x \notin gc[p].safe
      BY <2>2
    <3>2. Loses(x) /\ blob' = [blob EXCEPT ![x] = "none"] /\ harm' = [harm EXCEPT ![x] = h]
      BY <1>6, <2>2, <3>1 DEF GcPrune
    <3>3. h # {}
      OBVIOUS
    <3> HIDE DEF h
    <3>4. QED BY <3>2, <3>3, Removed
  <2>3. QED BY <2>1, <2>2
<1>7. ASSUME NEW p \in Procs, Crash(p)
      PROVE  Keeps
  <2>1. \A q \in Procs : q # p => writer'[q] = writer[q]
    BY <1>7 DEF Crash, Types
  <2>2. blob' = blob
    BY <1>7 DEF Crash
  <2>3. CASE OnIt(p, t) /\ ~writer[p].lost
    <3>1. harm'[t] # {}
      BY <1>7, <2>3 DEF Crash, OnIt, Types
    <3>2. QED BY <2>2, <3>1 DEF Hydrates
  <2>4. CASE ~(OnIt(p, t) /\ ~writer[p].lost)
    <3>1. harm'[t] = harm[t]
      BY <1>7, <2>4 DEF Crash, OnIt, Types
    <3>2. Writing(t) => Writing(t)'
      BY <2>1, <2>4 DEF Writing, OnIt
    <3>3. QED BY <2>2, <3>1, <3>2 DEF Hydrates
  <2>5. QED BY <2>3, <2>4
<1> HIDE DEF Keeps
<1>8. ASSUME NEW p \in Procs, StartsAndStops(p)
      PROVE  Keeps
  BY <1>2, <1>8 DEF StartsAndStops, Start, StartComponent, ComponentStarted, ComponentFails,
                    AllStarted, InitWorkspace, InitFails, Unwind, Stop, StopStep
<1>9. ASSUME NEW p \in Procs, NEW w, writer' = [writer EXCEPT ![p] = w],
             writer[p].pc # "write", UNCHANGED blobs
      PROVE  Keeps
  BY <1>1, <1>9 DEF OthersWrite, Types
<1>10. ASSUME NEW p \in Procs, NEW pc, Writer(p, pc), writer[p].pc # "write", UNCHANGED blobs
       PROVE  Keeps
  BY <1>1, <1>10 DEF OthersWrite, Writer, Types
<1>11. ASSUME NEW p \in Procs, Remembers(p)
       PROVE  Keeps
  <2>1. CASE Access(p)
    BY <1>10, <2>1 DEF Access
  <2>2. CASE PushRow(p)
    BY <1>9, <2>2 DEF PushRow
  <2>3. CASE Flush(p)
    BY <1>2, <2>3 DEF Flush
  <2>4. ASSUME NEW n \in Nodes, Delete(p, n) PROVE Keeps
    BY <1>2, <2>4 DEF Delete
  <2>5. ASSUME NEW n \in Nodes, NEW x \in Texts, Add(p, n, x) PROVE Keeps
    <3>1. writer[p].pc # "write"
      BY <2>5 DEF Add, NoWrite
    <3>2. QED BY <1>9, <2>5, <3>1 DEF Add
  <2>6. ASSUME NEW x \in Texts, ReadTorn(p, x) \/ RenameFails(p, x) PROVE Keeps
    <3>1. UNCHANGED <<blob, harm, writer>>
      BY <2>6 DEF ReadTorn, RenameFails
    <3>2. QED BY <1>0, <3>1
  <2>7. QED BY <1>3, <1>4, <1>5, <1>11, <2>1, <2>2, <2>3, <2>4, <2>5, <2>6 DEF Remembers
<1>12. ASSUME NEW p \in Procs, Collects(p)
       PROVE  Keeps
  BY <1>2, <1>6, <1>12 DEF Collects, GcExpire, GcRead, GcEnd
<1>13. ASSUME NEW p \in Procs, Scribbles(p)
       PROVE  Keeps
  <2>1. CASE Lock(p)
    BY <1>10, <2>1 DEF Lock
  <2>2. CASE LockTimeout(p)
    BY <1>9, <2>2 DEF LockTimeout
  <2>3. CASE TruncatePointer(p)
    BY <1>10, <2>3 DEF TruncatePointer
  <2>4. CASE Point(p)
    BY <1>10, <2>4 DEF Point
  <2>5. CASE Unlock(p)
    BY <1>9, <2>5 DEF Unlock
  <2>6. ASSUME NEW f \in Files, Clear(p, f) PROVE Keeps
    BY <1>2, <2>6 DEF Clear
  <2>7. ASSUME NEW f \in Files, NEW x \in Texts, Scratch(p, f, x) PROVE Keeps
    <3>1. writer[p].pc # "write"
      BY <2>7 DEF Scratch, NoWrite
    <3>2. QED BY <1>9, <2>7, <3>1 DEF Scratch
  <2>8. QED BY <1>13, <2>1, <2>2, <2>3, <2>4, <2>5, <2>6, <2>7 DEF Scribbles
<1>14. ASSUME NEW n \in Nodes, Expire(n)
       PROVE  Keeps
  BY <1>2, <1>14 DEF Expire
<1>15. ASSUME UNCHANGED vars
       PROVE  Keeps
  <2>1. UNCHANGED <<blobs, writer>>
    BY <1>15 DEF vars
  <2>2. QED BY <1>2, <2>1
<1>16. Keeps
  BY <1>7, <1>8, <1>11, <1>12, <1>13, <1>14, <1>15 DEF Next
<1>17. QED BY <1>16 DEF Keeps

(* A collection that visits the blobs goes by the rows it has read.         *)
LEMMA CollectsWhatItRead ==
  ASSUME Types, \A p \in Procs : gc[p].refs = gc[p].safe, [Next]_vars
  PROVE  \A p \in Procs : gc'[p].refs = gc'[p].safe
<1>1. ASSUME NEW p \in Procs, NEW x, gc' = [gc EXCEPT ![p] = x], x.refs = x.safe
      PROVE  \A q \in Procs : gc'[q].refs = gc'[q].safe
  BY <1>1 DEF Types
<1>2. ASSUME gc' = gc
      PROVE  \A q \in Procs : gc'[q].refs = gc'[q].safe
  BY <1>2
<1>3. NoPass.refs = NoPass.safe /\ NoPass \in Collection
  BY DEF NoPass, Collection
<1>4. ASSUME NEW p \in Procs, Collects(p)
      PROVE  \A q \in Procs : gc'[q].refs = gc'[q].safe
  <2>1. CASE GcExpire(p)
    <3> DEFINE x == [NoPass EXCEPT !.pc = "read"]
    <3>1. gc' = [gc EXCEPT ![p] = x] /\ x.refs = x.safe
      BY <1>3, <2>1 DEF GcExpire, Pass, Collection
    <3> HIDE DEF x
    <3>2. QED BY <1>1, <3>1
  <2>2. CASE GcRead(p)
    <3> DEFINE x == [pc |-> "prune", todo |-> Texts, refs |-> SeenTexts(p), safe |-> SeenTexts(p)]
    <3>1. gc' = [gc EXCEPT ![p] = x] /\ x.refs = x.safe
      BY <2>2 DEF GcRead, Pass
    <3> HIDE DEF x
    <3>2. QED BY <1>1, <3>1
  <2>3. CASE GcEnd(p)
    BY <1>1, <1>3, <2>3 DEF GcEnd, Pass
  <2>4. ASSUME NEW t \in Texts, GcPrune(p, t)
        PROVE  \A q \in Procs : gc'[q].refs = gc'[q].safe
    <3> DEFINE x == [gc[p] EXCEPT !.todo = @ \ {t}]
    <3>1. gc[p] \in Collection
      BY DEF Types
    <3>2. gc' = [gc EXCEPT ![p] = x] /\ x.refs = x.safe
      BY <2>4, <3>1 DEF GcPrune, Types, Collection
    <3> HIDE DEF x
    <3>3. QED BY <1>1, <3>2
  <2>5. QED BY <1>4, <2>1, <2>2, <2>3, <2>4 DEF Collects
<1>5. ASSUME NEW p \in Procs, Crash(p)
      PROVE  \A q \in Procs : gc'[q].refs = gc'[q].safe
  BY <1>1, <1>3, <1>5 DEF Crash
<1>6. ASSUME NEW p \in Procs, StartsAndStops(p) PROVE gc' = gc
  BY <1>6 DEF StartsAndStops, Start, StartComponent, ComponentStarted, ComponentFails, AllStarted,
              InitWorkspace, InitFails, Unwind, Stop, StopStep
<1>7. ASSUME NEW p \in Procs, Remembers(p) PROVE gc' = gc
  BY <1>7 DEF Remembers, Access, Open, Written, PushRow, Flush, Delete, Add,
                   ReadTorn, Quarantine, RenameFails
<1>8. ASSUME NEW p \in Procs, Scribbles(p) PROVE gc' = gc
  BY <1>8 DEF Scribbles, Lock, LockTimeout, TruncatePointer, Point, Unlock, Clear, Scratch
<1>9. ASSUME NEW n \in Nodes, Expire(n) PROVE gc' = gc
  BY <1>9 DEF Expire
<1>10. CASE UNCHANGED vars
  BY <1>2, <1>10 DEF vars
<1>11. QED BY <1>2, <1>4, <1>5, <1>6, <1>7, <1>8, <1>9, <1>10 DEF Next

LEMMA LandedFrom ==
  ASSUME Types, NEW p \in Procs, NEW n \in Nodes, Landed(p)[n] # None
  PROVE  \/ Landed(p)[n] = row[n]
         \/ buf[p].put[n] \notin {None, "no"} /\ Landed(p)[n] = buf[p].put[n]
BY DEF Landed

(* Every value that appears in a row or a buffer was one before, or is what *)
(* a writer has just written.                                               *)
Referred(x) ==
  \/ \E n \in Nodes : row[n] = x /\ x # None
  \/ \E p \in Procs, n \in Nodes : buf[p].put[n] = x /\ x \notin {None, "no"}
  \/ \E p \in Procs : writer[p].pc = "written" /\ writer[p].text = x

LEMMA ReferredBefore ==
  ASSUME Types, [Next]_vars
  PROVE  /\ \A n \in Nodes : row'[n] # None => Referred(row'[n])
         /\ \A p \in Procs, n \in Nodes : buf'[p].put[n] \notin {None, "no"}
                                          => Referred(buf'[p].put[n])
<1> DEFINE RowsOld == \A n \in Nodes : row'[n] # None => Referred(row'[n])
<1> DEFINE BufsOld == \A p \in Procs, n \in Nodes :
                        buf'[p].put[n] \notin {None, "no"} => Referred(buf'[p].put[n])
<1>1. ASSUME UNCHANGED row PROVE RowsOld
  BY <1>1 DEF Referred
<1>2. ASSUME UNCHANGED buf PROVE BufsOld
  BY <1>2 DEF Referred
<1>3. ASSUME NEW p \in Procs, NEW b, buf' = [buf EXCEPT ![p] = b],
             \A n \in Nodes : b.put[n] \notin {None, "no"} => Referred(b.put[n])
      PROVE  BufsOld
  BY <1>3 DEF Referred, Types
<1>4. \A n \in Nodes : NoBuffer.put[n] = "no"
  BY DEF NoBuffer
<1>5. ASSUME NEW p \in Procs, row' = Landed(p), buf' = [buf EXCEPT ![p] = NoBuffer]
      PROVE  RowsOld /\ BufsOld
  <2>1. BufsOld
    BY <1>3, <1>4, <1>5
  <2>2. \A n \in Nodes : Landed(p)[n] # None => Referred(Landed(p)[n])
    BY LandedFrom DEF Referred
  <2>3. QED BY <1>5, <2>1, <2>2
<1>6. ASSUME NEW p \in Procs, NEW n \in Nodes, NEW t, Push(p, n, t),
             t \notin {None, "no"} => Referred(t)
      PROVE  BufsOld
  <2> DEFINE b == [buf[p] EXCEPT !.put[n] = t, !.sweep = @ \ {n},
                                 !.cut = IF t = None THEN @ \cup {n} ELSE @]
  <2>1. buf[p] \in Buffer
    BY DEF Types
  <2>2. buf' = [buf EXCEPT ![p] = b]
    BY <1>6 DEF Push, Types
  <2>3. \A m \in Nodes : b.put[m] = IF m = n THEN t ELSE buf[p].put[m]
    BY <2>1 DEF Buffer
  <2> HIDE DEF b
  <2>4. \A m \in Nodes : b.put[m] \notin {None, "no"} => Referred(b.put[m])
    BY <1>6, <2>3 DEF Referred
  <2>5. QED BY <1>3, <2>2, <2>4
<1> HIDE DEF RowsOld, BufsOld
<1>7. ASSUME NEW p \in Procs, StartsAndStops(p)
      PROVE  RowsOld /\ BufsOld
  <2>1. \/ UNCHANGED <<row, buf>>
        \/ row' = Landed(p) /\ buf' = [buf EXCEPT ![p] = NoBuffer]
    BY <1>7 DEF StartsAndStops, Start, StartComponent, ComponentStarted, ComponentFails,
                AllStarted, InitWorkspace, InitFails, Unwind, Stop, StopStep, rows, StopsComponent
  <2>2. QED BY <1>1, <1>2, <1>5, <2>1
<1>8. ASSUME NEW p \in Procs, Remembers(p)
      PROVE  RowsOld /\ BufsOld
  <2>1. CASE Flush(p)
    BY <1>5, <2>1 DEF Flush
  <2>2. CASE PushRow(p)
    <3>1. writer[p] \in Write /\ Referred(writer[p].text)
      BY <2>2 DEF PushRow, Referred, Types
    <3>2. writer[p].node \in Nodes /\ UNCHANGED row
      BY <2>2, <3>1 DEF PushRow, Write
    <3>3. Push(p, writer[p].node, writer[p].text) \/ UNCHANGED buf
      BY <2>2 DEF PushRow
    <3>4. QED BY <1>1, <1>2, <1>6, <3>1, <3>2, <3>3
  <2>3. ASSUME NEW n \in Nodes, Delete(p, n) PROVE RowsOld /\ BufsOld
    <3>1. Push(p, n, None) /\ UNCHANGED row
      BY <2>3 DEF Delete
    <3>2. QED BY <1>1, <1>6, <3>1
  <2>4. CASE UNCHANGED rows
    BY <1>1, <1>2, <2>4 DEF rows
  <2>5. QED
    BY <1>8, <2>1, <2>2, <2>3, <2>4 DEF Remembers, Access, Open, Written, Add,
       ReadTorn, Quarantine, RenameFails
<1>9. ASSUME NEW p \in Procs, Collects(p)
      PROVE  RowsOld /\ BufsOld
  <2>1. CASE GcExpire(p)
    <3> DEFINE b == [buf[p] EXCEPT !.sweep = @ \cup Swept, !.doomed = past]
    <3>1. buf' = [buf EXCEPT ![p] = b] \/ UNCHANGED buf
      BY <2>1 DEF GcExpire, Types
    <3>2. buf[p] \in Buffer
      BY DEF Types
    <3>3. b.put = buf[p].put
      BY <3>2 DEF Buffer
    <3> HIDE DEF b
    <3>4. \A m \in Nodes : b.put[m] \notin {None, "no"} => Referred(b.put[m])
      BY <3>3 DEF Referred
    <3>5. UNCHANGED row
      BY <2>1 DEF GcExpire
    <3>6. QED BY <1>1, <1>2, <1>3, <3>1, <3>4, <3>5
  <2>2. ASSUME UNCHANGED rows PROVE RowsOld /\ BufsOld
    BY <1>1, <1>2, <2>2 DEF rows
  <2>3. QED BY <1>9, <2>1, <2>2 DEF Collects, GcRead, GcEnd, GcPrune
<1>10. ASSUME NEW p \in Procs, Scribbles(p)
       PROVE  RowsOld /\ BufsOld
  <2>1. UNCHANGED rows
    BY <1>10 DEF Scribbles, Lock, LockTimeout, TruncatePointer, Point, Unlock, Clear, Scratch
  <2>2. QED BY <1>1, <1>2, <2>1 DEF rows
<1>11. ASSUME NEW p \in Procs, Crash(p)
       PROVE  RowsOld /\ BufsOld
  BY <1>1, <1>3, <1>4, <1>11 DEF Crash
<1>12. ASSUME NEW n \in Nodes, Expire(n)
       PROVE  RowsOld /\ BufsOld
  BY <1>1, <1>2, <1>12 DEF Expire
<1>13. ASSUME UNCHANGED vars
       PROVE  RowsOld /\ BufsOld
  BY <1>1, <1>2, <1>13 DEF vars, rows
<1>14. RowsOld /\ BufsOld
  BY <1>7, <1>8, <1>9, <1>10, <1>11, <1>12, <1>13 DEF Next
<1>15. QED BY <1>14 DEF RowsOld, BufsOld

(* A writer that has come to write or to have written has its blob.         *)
LEMMA WritersHydrate ==
  ASSUME Types, \A p \in Procs : Shaped(writer[p]), Rows, [Next]_vars, NEW q \in Procs,
         writer'[q].pc \in {"write", "written"}, NEW x, x = writer'[q].text
  PROVE  Hydrates(x)'
<1> DEFINE Same == x = writer[q].text /\ writer[q].pc \in {"write", "written"}
<1>0. writer[q] \in Write /\ Shaped(writer[q])
  BY DEF Types
<1>1. ASSUME writer'[q] = writer[q] PROVE Same
  BY <1>1
<1>2. ASSUME NEW t, Loses(t) PROVE Same
  <2> DEFINE b == writer[q].lost \/ OnIt(q, t)
  <2>1. writer'[q] = [writer[q] EXCEPT !.lost = b]
    BY <1>2 DEF Loses
  <2> HIDE DEF b
  <2>2. writer'[q].text = writer[q].text /\ writer'[q].pc = writer[q].pc
    BY <1>0, <2>1 DEF Write
  <2>3. QED BY <2>2
<1>3. CASE Access(q)
  <2>1. writer'[q] = [writer[q] EXCEPT !.pc = IF blob[writer[q].text] = "none" THEN "open" ELSE "written"]
        /\ writer[q].pc = "access"
    BY <1>3 DEF Access, Writer, Types
  <2>2. writer[q].text \in Texts
    BY <1>0, <2>1, TextType
  <2>3. x = writer[q].text /\ blob[x] # "none"
    BY <1>0, <2>1 DEF Write
  <2>4. x \in Texts /\ blob[x] \in {"torn", "whole"}
    BY <2>2, <2>3 DEF Types, TypeOK
  <2>5. Hydrates(x)
    BY <2>4 DEF Rows, Hydrates
  <2>6. QED BY <2>4, <2>5, HydratesStays DEF Rows
<1>4. CASE Open(q)
  <2>1. writer'[q] = [writer[q] EXCEPT !.pc = "write"] /\ writer[q].pc = "open"
    BY <1>4 DEF Open, Writer, Types
  <2>2. writer'[q].pc = "write" /\ ~writer'[q].lost
    BY <1>0, <2>1 DEF Write, Shaped
  <2>3. QED BY <2>2 DEF Hydrates, Writing, OnIt
<1>5. CASE Written(q)
  <2>1. writer'[q] = [writer[q] EXCEPT !.pc = "written", !.lost = FALSE] /\ writer[q].pc = "write"
    BY <1>5 DEF Written, Types
  <2>2. x = writer[q].text
    BY <1>0, <2>1 DEF Write
  <2>3. x \in Texts
    BY <1>0, <2>1, <2>2, TextType
  <2>4. Hydrates(x)
    BY <2>1, <2>2 DEF Rows
  <2>5. QED BY <2>2, <2>3, <2>4, HydratesStays DEF Rows
<1>6. ASSUME Same PROVE Hydrates(x)'
  <2>1. x \in Texts
    BY <1>0, <1>6, TextType
  <2>2. Hydrates(x)
    BY <1>6 DEF Rows
  <2>3. QED BY <1>6, <2>1, <2>2, HydratesStays DEF Rows
<1> HIDE DEF Same
<1>7. ASSUME NEW p \in Procs, NEW w, writer' = [writer EXCEPT ![p] = w],
             w.pc \notin {"write", "written"}
      PROVE  Same
  <2>1. p # q
    BY <1>7 DEF Types
  <2>2. QED BY <1>1, <1>7, <2>1 DEF Types
<1>8. ASSUME NEW p \in Procs, NEW pc, Writer(p, pc), pc \notin {"write", "written"}
      PROVE  Same
  <2>1. p # q
    BY <1>0, <1>8 DEF Types, Writer, Write
  <2>2. QED BY <1>1, <1>8, <2>1 DEF Types, Writer
<1>9. ASSUME NEW p \in Procs, p # q, Access(p) \/ Open(p) \/ Written(p)
      PROVE  Same
  BY <1>1, <1>9 DEF Access, Open, Written, Writer, Types
<1>10. NoWrite.pc = "none"
  BY DEF NoWrite
<1>11. ASSUME NEW p \in Procs, StartsAndStops(p) PROVE Same
  BY <1>1, <1>11 DEF StartsAndStops, Start, StartComponent, ComponentStarted, ComponentFails,
                AllStarted, InitWorkspace, InitFails, Unwind, Stop, StopStep
<1>12. ASSUME NEW p \in Procs, Remembers(p)
       PROVE  Same \/ (p = q /\ (Access(p) \/ Open(p) \/ Written(p)))
  <2>1. CASE PushRow(p)
    BY <1>7, <1>10, <2>1 DEF PushRow
  <2>2. ASSUME NEW n \in Nodes, NEW t \in Texts, Add(p, n, t) PROVE Same
    <3> DEFINE w == [NoWrite EXCEPT !.pc = "access", !.text = t, !.node = n]
    <3>1. writer' = [writer EXCEPT ![p] = w] /\ w.pc = "access"
      BY <2>2 DEF Add, NoWrite
    <3> HIDE DEF w
    <3>2. QED BY <1>7, <3>1
  <2>3. QED BY <1>1, <1>2, <1>9, <1>12, <2>1, <2>2 DEF Remembers, Flush, Delete,
       ReadTorn, Quarantine, RenameFails
<1>13. ASSUME NEW p \in Procs, Collects(p) PROVE Same
  BY <1>1, <1>2, <1>13 DEF Collects, GcExpire, GcRead, GcEnd, GcPrune
<1>14. ASSUME NEW p \in Procs, Scribbles(p) PROVE Same
  <2>1. CASE Lock(p)
    BY <1>8, <2>1 DEF Lock
  <2>2. CASE LockTimeout(p)
    BY <1>7, <1>10, <2>2 DEF LockTimeout
  <2>3. CASE TruncatePointer(p)
    BY <1>8, <2>3 DEF TruncatePointer
  <2>4. CASE Point(p)
    BY <1>8, <2>4 DEF Point
  <2>5. CASE Unlock(p)
    BY <1>7, <1>10, <2>5 DEF Unlock
  <2>6. ASSUME NEW f \in Files, NEW t \in Texts, Scratch(p, f, t) PROVE Same
    <3> DEFINE w == [NoWrite EXCEPT !.pc = "lock", !.text = t, !.file = f]
    <3>1. writer' = [writer EXCEPT ![p] = w] /\ w.pc = "lock"
      BY <2>6 DEF Scratch, NoWrite
    <3> HIDE DEF w
    <3>2. QED BY <1>7, <3>1
  <2>7. ASSUME NEW f \in Files, Clear(p, f) PROVE Same
    BY <1>1, <2>7 DEF Clear
  <2>8. QED BY <1>14, <2>1, <2>2, <2>3, <2>4, <2>5, <2>6, <2>7 DEF Scribbles
<1>15. ASSUME NEW p \in Procs, Crash(p) PROVE Same
  BY <1>7, <1>10, <1>15 DEF Crash
<1>16. ASSUME NEW n \in Nodes, Expire(n) PROVE Same
  BY <1>1, <1>16 DEF Expire
<1>17. ASSUME UNCHANGED vars PROVE Same
  BY <1>1, <1>17 DEF vars
<1>18. QED
  BY <1>3, <1>4, <1>5, <1>6, <1>11, <1>12, <1>13, <1>14, <1>15, <1>16, <1>17 DEF Next

LEMMA RowsInductive ==
  ASSUME Types, \A p \in Procs : Shaped(writer[p]), Rows, [Next]_vars, Types'
  PROVE  Rows'
<1>1. \A t \in Texts : blob'[t] = "torn" => Hydrates(t)'
  BY HydratesStays DEF Rows
<1>2. ASSUME NEW x, Referred(x), x \in Texts PROVE Hydrates(x)'
  <2>1. Hydrates(x)
    BY <1>2 DEF Referred, Rows
  <2>2. QED BY <1>2, <2>1, HydratesStays DEF Rows
<1>3. ASSUME NEW n \in Nodes, row'[n] # None PROVE Hydrates(row[n])'
  <2>1. row'[n] \in Texts
    BY <1>3 DEF Types, TypeOK
  <2>2. QED BY <1>2, <1>3, <2>1, ReferredBefore
<1>4. ASSUME NEW p \in Procs, NEW n \in Nodes, buf'[p].put[n] \notin {None, "no"}
      PROVE  Hydrates(buf[p].put[n])'
  <2>1. buf'[p] \in Buffer
    BY DEF Types
  <2>2. buf'[p].put[n] \in Texts
    BY <1>4, <2>1 DEF Buffer
  <2>3. QED BY <1>2, <1>4, <2>2, ReferredBefore
<1>5. \A p \in Procs : writer'[p].pc \in {"write", "written"} => Hydrates(writer[p].text)'
  <2> SUFFICES ASSUME NEW p \in Procs, writer'[p].pc \in {"write", "written"}
               PROVE  Hydrates(writer[p].text)'
    OBVIOUS
  <2>1. PICK x : x = writer'[p].text
    OBVIOUS
  <2>2. Hydrates(x)'
    BY <2>1, WritersHydrate
  <2>3. QED BY <2>1, <2>2
<1>6. \A p \in Procs : gc'[p].refs = gc'[p].safe
  BY CollectsWhatItRead DEF Rows
<1>7. QED BY <1>1, <1>3, <1>4, <1>5, <1>6 DEF Rows

-----------------------------------------------------------------------------
(* The scratchpad                                                           *)

(* Nothing changes that matters to scratchpad files.                        *)
LEMMA PadsFrame ==
  ASSUME Pads, UNCHANGED pad,
         \A q \in Procs : /\ writer'[q].file = writer[q].file /\ writer'[q].pc = writer[q].pc
                          /\ writer'[q].text = writer[q].text
  PROVE  Pads'
BY DEF Pads, Works, pad

(* One writer goes on, while the files stay as they are: it does not get a  *)
(* lock, and it did not point to anything yet.                              *)
LEMMA PadsMove ==
  ASSUME Types, Pads, UNCHANGED pad, NEW p \in Procs,
         \A q \in Procs : q # p => writer'[q] = writer[q],
         writer[p].pc \notin {"point", "unlock"}, writer'[p].pc # "unlock",
         \/ writer'[p].file = writer[p].file /\ writer[p].pc # "lock"
         \/ writer'[p].file \notin Files
         \/ writer'[p].pc = "lock"
  PROVE  Pads'
<1>1. \A q \in Procs : \A f \in Files : Works(q, f)' => Works(q, f)
  BY DEF Works
<1>2. \A q \in Procs : writer[q].pc \in {"point", "unlock"} => writer'[q] = writer[q]
  OBVIOUS
<1>3. \A f \in Files : disturbed'[f] \/ ptr'[f] = stands'[f]
         \/ \E q \in Procs : Works(q, f)' /\ writer'[q].pc \in {"point", "unlock"}
  BY <1>2 DEF Pads, Works, pad
<1>4. \A q \in Procs : writer'[q].pc = "unlock" => ptr'[writer'[q].file] \in {writer'[q].text, None}
  BY DEF Pads, pad
<1>5. /\ \A f \in Files : \A q \in Procs : Works(q, f)' => lock'[f]
      /\ \A f \in Files : \A q, r \in Procs : Works(q, f)' /\ Works(r, f)' => q = r
  BY <1>1 DEF Pads, pad
<1>6. QED BY <1>3, <1>4, <1>5 DEF Pads

LEMMA PadsScribble ==
  ASSUME Types, \A p \in Procs : Shaped(writer[p]), Pads, NEW p \in Procs, Scribbles(p)
  PROVE  Pads'
<1> DEFINE w == writer[p]
<1> DEFINE g == writer[p].file
<1>1. w \in Write /\ Shaped(w)
  BY DEF Types
<1>2. /\ NoWrite.pc = "none" /\ NoWrite.file = None /\ None \notin Files
      /\ None \notin Texts
  BY ContextAssumption DEF NoWrite
<1>3. ASSUME NEW pc, Writer(p, pc)
      PROVE  /\ writer'[p].pc = pc /\ writer'[p].file = g /\ writer'[p].text = w.text
             /\ \A q \in Procs : q # p => writer'[q] = writer[q]
  <2>1. writer'[p] = [w EXCEPT !.pc = pc] /\ \A q \in Procs : q # p => writer'[q] = writer[q]
    BY <1>3 DEF Writer, Types
  <2> HIDE DEF w
  <2>2. QED BY <1>1, <2>1 DEF Write, w
<1>4. ASSUME writer' = [writer EXCEPT ![p] = NoWrite]
      PROVE  /\ writer'[p].pc = "none" /\ writer'[p].file = None
             /\ \A q \in Procs : q # p => writer'[q] = writer[q]
  BY <1>2, <1>4 DEF Types
<1>5. w.pc \in {"lock", "point", "unlock", "fails"} => g \in Files
  BY <1>1 DEF Write, Shaped
<1>6. CASE Lock(p)
  <2>1. /\ w.pc = "lock" /\ ~lock[g] /\ lock' = [lock EXCEPT ![g] = TRUE]
        /\ UNCHANGED <<ptr, stands, disturbed>>
        /\ Writer(p, IF Up(p, "storage") THEN "access" ELSE "fails")
    BY <1>6 DEF Lock
  <2>2. /\ writer'[p].pc \in {"access", "fails"} /\ writer'[p].file = g
        /\ \A q \in Procs : q # p => writer'[q] = writer[q]
    BY <1>3, <2>1
  <2>3. \A q \in Procs : ~Works(q, g)
    BY <1>5, <2>1 DEF Pads
  <2>4. \A f \in Files : \A q \in Procs : Works(q, f)' => (Works(q, f) /\ f # g) \/ (q = p /\ f = g)
    BY <2>2, <2>3 DEF Works
  <2>5. lock'[g] /\ \A f \in Files : f # g => lock'[f] = lock[f]
    BY <1>5, <2>1 DEF Types, TypeOK
  <2>6. /\ \A f \in Files : \A q \in Procs : Works(q, f)' => lock'[f]
        /\ \A f \in Files : \A q, r \in Procs : Works(q, f)' /\ Works(r, f)' => q = r
    BY <2>4, <2>5 DEF Pads, Works
  <2>7. \A f \in Files : disturbed'[f] \/ ptr'[f] = stands'[f]
         \/ \E q \in Procs : Works(q, f)' /\ writer'[q].pc \in {"point", "unlock"}
    <3>1. \A q \in Procs : writer[q].pc \in {"point", "unlock"} => writer'[q] = writer[q]
      BY <2>1, <2>2
    <3>2. QED BY <2>1, <3>1 DEF Pads, Works
  <2>8. \A q \in Procs : writer'[q].pc = "unlock" => ptr'[writer'[q].file] \in {writer'[q].text, None}
    BY <2>1, <2>2 DEF Pads
  <2>9. QED BY <2>6, <2>7, <2>8 DEF Pads
<1>7. CASE LockTimeout(p)
  BY <1>2, <1>4, <1>7, PadsMove DEF LockTimeout
<1>8. CASE TruncatePointer(p)
  <2>1. /\ w.pc = "written" /\ g # None /\ ptr' = [ptr EXCEPT ![g] = "empty"] /\ Writer(p, "point")
        /\ UNCHANGED <<lock, stands, disturbed>>
    BY <1>8 DEF TruncatePointer
  <2>2. /\ writer'[p].pc = "point" /\ writer'[p].file = g
        /\ \A q \in Procs : q # p => writer'[q] = writer[q]
    BY <1>3, <2>1
  <2>3. g \in Files /\ Works(p, g)
    BY <1>1, <2>1 DEF Write, Works
  <2>4. \A f \in Files : \A q \in Procs : Works(q, f)' <=> Works(q, f)
    BY <2>1, <2>2 DEF Works
  <2>5. \A f \in Files : f # g => ptr'[f] = ptr[f]
    BY <2>1 DEF Types, TypeOK
  <2>6. /\ \A f \in Files : \A q \in Procs : Works(q, f)' => lock'[f]
        /\ \A f \in Files : \A q, r \in Procs : Works(q, f)' /\ Works(r, f)' => q = r
    BY <2>1, <2>4 DEF Pads
  <2>7. ASSUME NEW f \in Files
        PROVE  \/ disturbed'[f] \/ ptr'[f] = stands'[f]
               \/ \E q \in Procs : Works(q, f)' /\ writer'[q].pc \in {"point", "unlock"}
    <3>1. CASE f # g
      BY <2>1, <2>2, <2>4, <2>5, <3>1 DEF Pads
    <3>2. CASE f = g
      <4>1. Works(p, f)' /\ writer'[p].pc \in {"point", "unlock"}
        BY <2>2, <2>3, <2>4, <3>2
      <4>2. QED BY <4>1
    <3>3. QED BY <3>1, <3>2
  <2>8. \A q \in Procs : writer'[q].pc = "unlock" => ptr'[writer'[q].file] \in {writer'[q].text, None}
    <3> SUFFICES ASSUME NEW q \in Procs, writer'[q].pc = "unlock"
                 PROVE  ptr'[writer'[q].file] \in {writer'[q].text, None}
      OBVIOUS
    <3>1. q # p /\ writer'[q] = writer[q] /\ writer[q] \in Write /\ Shaped(writer[q])
      BY <2>2 DEF Types
    <3>2. writer[q].file \in Files /\ Works(q, writer[q].file)
      BY <3>1 DEF Write, Shaped, Works
    <3>3. writer[q].file # g
      BY <2>3, <3>1, <3>2 DEF Pads
    <3>4. QED BY <2>5, <3>1, <3>2, <3>3 DEF Pads
  <2>9. QED BY <2>6, <2>7, <2>8 DEF Pads
<1>9. CASE Point(p)
  <2>1. /\ w.pc = "point" /\ Writer(p, "unlock") /\ UNCHANGED <<lock, stands, disturbed>>
        /\ ptr' = [ptr EXCEPT ![g] = IF ptr[g] = None THEN ptr[g] ELSE w.text]
    BY <1>9 DEF Point
  <2>2. /\ writer'[p].pc = "unlock" /\ writer'[p].file = g /\ writer'[p].text = w.text
        /\ \A q \in Procs : q # p => writer'[q] = writer[q]
    BY <1>3, <2>1
  <2>3. g \in Files /\ Works(p, g)
    BY <1>5, <2>1 DEF Works
  <2>4. \A f \in Files : \A q \in Procs : Works(q, f)' <=> Works(q, f)
    BY <2>1, <2>2 DEF Works
  <2>5. /\ \A f \in Files : f # g => ptr'[f] = ptr[f]
        /\ ptr'[g] \in {w.text, None}
    BY <2>1, <2>3 DEF Types, TypeOK
  <2>6. /\ \A f \in Files : \A q \in Procs : Works(q, f)' => lock'[f]
        /\ \A f \in Files : \A q, r \in Procs : Works(q, f)' /\ Works(r, f)' => q = r
    BY <2>1, <2>4 DEF Pads
  <2>7. ASSUME NEW f \in Files
        PROVE  \/ disturbed'[f] \/ ptr'[f] = stands'[f]
               \/ \E q \in Procs : Works(q, f)' /\ writer'[q].pc \in {"point", "unlock"}
    <3>1. CASE f # g
      BY <2>1, <2>2, <2>4, <2>5, <3>1 DEF Pads
    <3>2. CASE f = g
      <4>1. Works(p, f)' /\ writer'[p].pc \in {"point", "unlock"}
        BY <2>2, <2>3, <2>4, <3>2
      <4>2. QED BY <4>1
    <3>3. QED BY <3>1, <3>2
  <2>8. \A q \in Procs : writer'[q].pc = "unlock" => ptr'[writer'[q].file] \in {writer'[q].text, None}
    <3> SUFFICES ASSUME NEW q \in Procs, writer'[q].pc = "unlock", q # p
                 PROVE  ptr'[writer'[q].file] \in {writer'[q].text, None}
      BY <2>2, <2>5
    <3>1. writer'[q] = writer[q] /\ writer[q] \in Write /\ Shaped(writer[q])
      BY <2>2 DEF Types
    <3>2. writer[q].file \in Files /\ Works(q, writer[q].file)
      BY <3>1 DEF Write, Shaped, Works
    <3>3. writer[q].file # g
      BY <2>3, <3>1, <3>2 DEF Pads
    <3>4. QED BY <2>5, <3>1, <3>2, <3>3 DEF Pads
  <2>9. QED BY <2>6, <2>7, <2>8 DEF Pads
<1>10. CASE Unlock(p)
  <2>1. /\ w.pc \in {"unlock", "fails"} /\ lock' = [lock EXCEPT ![g] = FALSE] /\ ptr' = ptr
        /\ writer' = [writer EXCEPT ![p] = NoWrite]
        /\ IF w.pc = "fails" THEN UNCHANGED <<stands, disturbed>>
           ELSE /\ stands' = [stands EXCEPT ![g] = w.text]
                /\ disturbed' = [disturbed EXCEPT ![g] = (ptr[g] = None)]
    BY <1>10 DEF Unlock
  <2>2. /\ writer'[p].pc = "none" /\ writer'[p].file = None
        /\ \A q \in Procs : q # p => writer'[q] = writer[q]
    BY <1>4, <2>1
  <2>3. g \in Files /\ Works(p, g)
    BY <1>5, <2>1 DEF Works
  <2>4. \A f \in Files : \A q \in Procs : Works(q, f)' => Works(q, f) /\ q # p /\ f # g
    <3>1. \A f \in Files : \A q \in Procs : Works(q, f)' => Works(q, f) /\ q # p
      BY <1>2, <2>2 DEF Works
    <3>2. QED BY <2>3, <3>1 DEF Pads
  <2>5. \A f \in Files : f # g => lock'[f] = lock[f] /\ stands'[f] = stands[f] /\ disturbed'[f] = disturbed[f]
    BY <2>1 DEF Types, TypeOK
  <2>6. /\ \A f \in Files : \A q \in Procs : Works(q, f)' => lock'[f]
        /\ \A f \in Files : \A q, r \in Procs : Works(q, f)' /\ Works(r, f)' => q = r
    BY <2>4, <2>5 DEF Pads
  <2>7. ASSUME NEW f \in Files
        PROVE  \/ disturbed'[f] \/ ptr'[f] = stands'[f]
               \/ \E q \in Procs : Works(q, f)' /\ writer'[q].pc \in {"point", "unlock"}
    <3>1. CASE f # g
      <4>1. \A q \in Procs : Works(q, f) => q # p /\ Works(q, f)' /\ writer'[q] = writer[q]
        BY <2>2, <3>1 DEF Works
      <4>2. QED BY <2>1, <2>5, <3>1, <4>1 DEF Pads
    <3>2. CASE f = g /\ w.pc = "unlock"
      <4>1. ptr[g] \in {w.text, None}
        BY <3>2 DEF Pads
      <4>2. stands'[g] = w.text /\ (disturbed'[g] <=> ptr[g] = None)
        BY <2>1, <2>3, <3>2 DEF Types
      <4>3. QED BY <2>1, <3>2, <4>1, <4>2
    <3>3. CASE f = g /\ w.pc = "fails"
      <4>1. \A q \in Procs : Works(q, g) => q = p
        BY <2>3 DEF Pads
      <4>2. disturbed[g] \/ ptr[g] = stands[g]
        BY <2>3, <3>3, <4>1 DEF Pads
      <4>3. UNCHANGED <<stands, disturbed>>
        BY <2>1, <3>3
      <4>4. QED BY <2>1, <3>3, <4>2, <4>3
    <3>4. QED BY <2>1, <3>1, <3>2, <3>3
  <2>8. \A q \in Procs : writer'[q].pc = "unlock" => ptr'[writer'[q].file] \in {writer'[q].text, None}
    BY <2>1, <2>2 DEF Pads
  <2>9. QED BY <2>6, <2>7, <2>8 DEF Pads
<1>11. ASSUME NEW f \in Files, Clear(p, f) PROVE Pads'
  <2>1. /\ ptr' = [ptr EXCEPT ![f] = None] /\ disturbed' = [disturbed EXCEPT ![f] = TRUE]
        /\ UNCHANGED <<lock, stands, writer>>
    BY <1>11 DEF Clear
  <2>2. /\ \A h \in Files : h # f => ptr'[h] = ptr[h] /\ disturbed'[h] = disturbed[h]
        /\ ptr'[f] = None /\ disturbed'[f]
    BY <2>1 DEF Types, TypeOK
  <2>3. \A q \in Procs : writer[q].pc = "unlock" => writer[q].file \in Files
    <3> SUFFICES ASSUME NEW q \in Procs, writer[q].pc = "unlock" PROVE writer[q].file \in Files
      OBVIOUS
    <3>1. writer[q] \in Write /\ Shaped(writer[q])
      BY DEF Types
    <3>2. QED BY <3>1 DEF Write, Shaped
  <2>4. \A q \in Procs : writer'[q].pc = "unlock" => ptr'[writer'[q].file] \in {writer'[q].text, None}
    BY <2>1, <2>2, <2>3 DEF Pads
  <2>5. QED BY <2>1, <2>2, <2>4 DEF Pads, Works
<1>12. ASSUME NEW f \in Files, NEW t \in Texts, Scratch(p, f, t) PROVE Pads'
  <2> DEFINE x == [NoWrite EXCEPT !.pc = "lock", !.text = t, !.file = f]
  <2>1. x.pc = "lock"
    BY DEF NoWrite
  <2>2. writer'[p] = x /\ \A q \in Procs : q # p => writer'[q] = writer[q]
    BY <1>12 DEF Scratch, Types
  <2>3. writer[p].pc = "none" /\ UNCHANGED pad
    BY <1>2, <1>12 DEF Scratch
  <2> HIDE DEF x
  <2>4. QED BY <2>1, <2>2, <2>3, PadsMove
<1>13. QED BY <1>6, <1>7, <1>8, <1>9, <1>10, <1>11, <1>12 DEF Scribbles

LEMMA PadsInductive ==
  ASSUME Types, \A p \in Procs : Shaped(writer[p]), Pads, [Next]_vars
  PROVE  Pads'
<1>1. ASSUME UNCHANGED <<pad, writer>> PROVE Pads'
  BY <1>1, PadsFrame
<1>2. ASSUME UNCHANGED pad, NEW t, Loses(t) PROVE Pads'
  <2>1. ASSUME NEW q \in Procs
        PROVE  /\ writer'[q].file = writer[q].file /\ writer'[q].pc = writer[q].pc
               /\ writer'[q].text = writer[q].text
    <3> DEFINE b == writer[q].lost \/ OnIt(q, t)
    <3>1. writer'[q] = [writer[q] EXCEPT !.lost = b] /\ writer[q] \in Write
      BY <1>2 DEF Loses, Types
    <3> HIDE DEF b
    <3>2. QED BY <3>1 DEF Write
  <2>2. QED BY <1>2, <2>1, PadsFrame
<1>3. NoWrite.pc = "none" /\ NoWrite.file = None /\ None \notin Files
  BY ContextAssumption DEF NoWrite
<1>4. ASSUME NEW p \in Procs, StartsAndStops(p) PROVE Pads'
  BY <1>1, <1>4 DEF StartsAndStops, Start, StartComponent, ComponentStarted, ComponentFails,
                AllStarted, InitWorkspace, InitFails, Unwind, Stop, StopStep
<1>5. ASSUME NEW p \in Procs, Remembers(p) PROVE Pads'
  <2>1. writer[p] \in Write /\ Shaped(writer[p])
    BY DEF Types
  <2>2. ASSUME NEW pc \in {"open", "write", "written"}, Writer(p, pc),
               writer[p].pc \in {"access", "open"}, UNCHANGED pad
        PROVE  Pads'
    <3>1. writer'[p] = [writer[p] EXCEPT !.pc = pc] /\ \A q \in Procs : q # p => writer'[q] = writer[q]
      BY <2>2 DEF Writer, Types
    <3>2. writer'[p].file = writer[p].file /\ writer'[p].pc = pc
      BY <2>1, <3>1 DEF Write
    <3>3. QED BY <2>2, <3>1, <3>2, PadsMove
  <2>3. CASE Access(p)
    BY <2>2, <2>3 DEF Access
  <2>4. CASE Open(p)
    BY <2>2, <2>4 DEF Open
  <2>5. CASE Written(p)
    <3>1. /\ writer'[p] = [writer[p] EXCEPT !.pc = "written", !.lost = FALSE]
          /\ \A q \in Procs : q # p => writer'[q] = writer[q]
          /\ UNCHANGED pad /\ writer[p].pc = "write"
      BY <2>5 DEF Written, Types
    <3>2. writer'[p].file = writer[p].file /\ writer'[p].pc = "written"
      BY <2>1, <3>1 DEF Write
    <3>3. QED BY <3>1, <3>2, PadsMove
  <2>6. CASE PushRow(p)
    <3>1. /\ writer'[p] = NoWrite /\ \A q \in Procs : q # p => writer'[q] = writer[q]
          /\ UNCHANGED pad /\ writer[p].pc = "written"
      BY <2>6 DEF PushRow, Types
    <3>2. QED BY <1>3, <3>1, PadsMove
  <2>7. ASSUME NEW n \in Nodes, NEW t \in Texts, Add(p, n, t) PROVE Pads'
    <3> DEFINE x == [NoWrite EXCEPT !.pc = "access", !.text = t, !.node = n]
    <3>1. x.file = None /\ x.pc = "access"
      BY DEF NoWrite
    <3>2. /\ writer'[p] = x /\ \A q \in Procs : q # p => writer'[q] = writer[q]
          /\ UNCHANGED pad /\ writer[p].pc = "none"
      BY <1>3, <2>7 DEF Add, Types
    <3> HIDE DEF x
    <3>3. QED BY <1>3, <3>1, <3>2, PadsMove
  <2>8. QED
    BY <1>1, <1>2, <1>5, <2>3, <2>4, <2>5, <2>6, <2>7 DEF Remembers, Flush, Delete,
       ReadTorn, Quarantine, RenameFails
<1>6. ASSUME NEW p \in Procs, Collects(p) PROVE Pads'
  BY <1>1, <1>2, <1>6 DEF Collects, GcExpire, GcRead, GcEnd, GcPrune
<1>7. ASSUME NEW p \in Procs, Crash(p) PROVE Pads'
  <2> DEFINE g == writer[p].file
  <2>1. /\ writer'[p] = NoWrite /\ \A q \in Procs : q # p => writer'[q] = writer[q]
        /\ UNCHANGED <<ptr, lock, stands>>
    BY <1>7 DEF Crash, Types
  <2>2. \A q \in Procs : \A f \in Files : Works(q, f)' <=> Works(q, f) /\ q # p
    BY <1>3, <2>1 DEF Works
  <2>3. \A f \in Files : /\ disturbed[f] => disturbed'[f]
                         /\ writer[p].pc \in {"point", "unlock"} /\ f = g => disturbed'[f]
    BY <1>7 DEF Crash, Types
  <2>4. ASSUME NEW f \in Files
        PROVE  \/ disturbed'[f] \/ ptr'[f] = stands'[f]
               \/ \E q \in Procs : Works(q, f)' /\ writer'[q].pc \in {"point", "unlock"}
    <3>1. CASE disturbed[f] \/ ptr[f] = stands[f]
      BY <2>1, <2>3, <3>1
    <3>2. CASE \E q \in Procs : Works(q, f) /\ writer[q].pc \in {"point", "unlock"}
      <4>1. PICK q \in Procs : Works(q, f) /\ writer[q].pc \in {"point", "unlock"}
        BY <3>2
      <4>2. CASE q = p
        BY <2>3, <4>1, <4>2 DEF Works
      <4>3. CASE q # p
        BY <2>1, <2>2, <4>1, <4>3
      <4>4. QED BY <4>2, <4>3
    <3>3. QED BY <3>1, <3>2 DEF Pads
  <2>5. \A q \in Procs : writer'[q].pc = "unlock" => ptr'[writer'[q].file] \in {writer'[q].text, None}
    BY <1>3, <2>1 DEF Pads
  <2>6. /\ \A f \in Files : \A q \in Procs : Works(q, f)' => lock'[f]
        /\ \A f \in Files : \A q, r \in Procs : Works(q, f)' /\ Works(r, f)' => q = r
    BY <2>1, <2>2 DEF Pads
  <2>7. QED BY <2>4, <2>5, <2>6 DEF Pads
<1>8. ASSUME NEW n \in Nodes, Expire(n) PROVE Pads'
  BY <1>1, <1>8 DEF Expire
<1>9. CASE UNCHANGED vars
  BY <1>1, <1>9 DEF vars
<1>10. QED BY <1>4, <1>5, <1>6, <1>7, <1>8, <1>9, PadsScribble DEF Next

-----------------------------------------------------------------------------
(* The theorems                                                             *)

LEMMA InvInit == Init => IInv
<1> SUFFICES ASSUME Init PROVE IInv
  OBVIOUS
<1>1. Types /\ \A p \in Procs : Shaped(writer[p])
  BY TypesInit
<1>2. \A p \in Procs : Control(p)
  <2> SUFFICES ASSUME NEW p \in Procs PROVE Control(p)
    OBVIOUS
  <2>1. /\ life[p] = Fresh /\ active[p] = left.up /\ comp[p] = AllFresh
        /\ starts[p] = NoCalls /\ stops[p] = NoCalls /\ left.up \in BOOLEAN
    BY <1>1 DEF Init, Types
  <2>2. QED BY <2>1, FreshControls
<1>3. /\ NoWrite.pc = "none" /\ NoWrite.file = None /\ NoPass.refs = NoPass.safe
      /\ \A n \in Nodes : NoBuffer.put[n] = "no"
  BY DEF NoWrite, NoPass, NoBuffer
<1>4. Rows
  BY <1>3 DEF Init, Rows
<1>5. Pads
  <2>1. \A p \in Procs : writer[p].pc = "none" /\ writer[p].file = None
    BY <1>3 DEF Init
  <2>2. \A f \in Files : ptr[f] = stands[f] /\ f # None
    BY ContextAssumption DEF Init
  <2>3. QED BY <2>1, <2>2 DEF Pads, Works
<1>6. QED BY <1>1, <1>2, <1>4, <1>5 DEF IInv

LEMMA InvInductive == IInv /\ [Next]_vars => IInv'
<1> SUFFICES ASSUME IInv, [Next]_vars PROVE IInv'
  OBVIOUS
<1>1. /\ Types /\ (\A p \in Procs : Control(p)) /\ (\A p \in Procs : Shaped(writer[p]))
      /\ Rows /\ Pads
  BY DEF IInv
<1>2. Types' /\ \A p \in Procs : Shaped(writer'[p])
  <2>1. ASSUME NEW p \in Procs, StartsAndStops(p)
        PROVE  Types' /\ \A q \in Procs : Shaped(writer'[q])
    <3>1. writer' = writer
      BY <2>1 DEF StartsAndStops, Start, StartComponent, ComponentStarted, ComponentFails,
                AllStarted, InitWorkspace, InitFails, Unwind, Stop, StopStep
    <3>2. QED BY <1>1, <2>1, <3>1, CycleTypes
  <2>2. QED BY <1>1, <2>1, MemoryTypes, OtherTypes DEF Next
<1>3. \A p \in Procs : Control(p)'
  BY <1>1, ControlInductive
<1>4. Rows'
  BY <1>1, <1>2, RowsInductive
<1>5. Pads'
  BY <1>1, PadsInductive
<1>6. QED BY <1>2, <1>3, <1>4, <1>5 DEF IInv

THEOREM InvHolds == Spec => []IInv
  BY InvInit, InvInductive, PTL DEF Spec

(* UpOrDown: a context that start() declared started has all components, one *)
(* that failed or was stopped none running (LifecycleRegistry.start, stop).  *)
THEOREM ContextUpOrDown == Spec => []UpOrDown
<1>1. IInv => UpOrDown
  <2> SUFFICES ASSUME IInv, NEW p \in Procs, ~overlap[p],
                      life[p] \in {"started", "new", "stopped"}
               PROVE  /\ life[p] = "started" => \A c \in Comps : Up(p, c)
                      /\ life[p] \in {"new", "stopped"} /\ ~halfUp[p] => Quiet(p)
    BY DEF UpOrDown
  <2>1. Control(p)
    BY DEF IInv
  <2>2. \A c \in Callers : starts[p][c] = Resting /\ stops[p][c] = Resting
    BY <2>1 DEF Control, StartPlace, StopPlace
  <2>3. AtRest(p)
    BY <2>1, <2>2 DEF Control
  <2>4. CASE AllOn(p)
    <3>1. \A c \in Comps : Up(p, c)
      BY <2>4, OrderFacts DEF AllOn, On, Up
    <3>2. life[p] = "new" => halfUp[p]
      BY <2>3, <2>4 DEF AtRest, AllOff, Off, AllOn, On
    <3>3. life[p] = "stopped" /\ ~halfUp[p] => FALSE
      BY <2>3, <2>4 DEF AtRest, AllOff, Off, AllOn, On
    <3>4. QED BY <3>1, <3>2, <3>3
  <2>5. CASE AllOff(p)
    <3>1. Quiet(p)
      BY <2>5, OrderFacts DEF AllOff, Off, Quiet
    <3>2. QED BY <2>3, <2>5, <3>1 DEF AtRest, AllOff, Off, AllOn, On
  <2>6. CASE life[p] = "stopped" /\ halfUp[p]
    BY <2>6
  <2>7. QED BY <2>3, <2>4, <2>5, <2>6 DEF AtRest
<1>2. QED BY <1>1, InvHolds, PTL

(* RowsHydrate: a row on disk or in a buffer has its content, or something   *)
(* is on record that took it away (addKnowledgeBatch, the collection).       *)
THEOREM RowsKeepContent == Spec => []RowsHydrate
<1>1. IInv => RowsHydrate
  <2> SUFFICES ASSUME IInv PROVE RowsHydrate
    OBVIOUS
  <2>1. Types /\ Rows
    BY DEF IInv
  <2>2. \A n \in Nodes : row[n] # None => Hydrates(row[n])
    BY <2>1 DEF Rows
  <2>3. ASSUME NEW n \in Nodes, NEW p \in Procs, Visible(p, n) # None
        PROVE  Hydrates(Visible(p, n))
    <3>1. \/ Visible(p, n) = row[n]
          \/ Visible(p, n) = buf[p].put[n] /\ buf[p].put[n] \notin {None, "no"}
      BY <2>3 DEF Visible
    <3>2. QED BY <2>1, <2>3, <3>1 DEF Rows
  <2>4. QED BY <2>1, <2>2, <2>3 DEF RowsHydrate, Types
<1>2. QED BY <1>1, InvHolds, PTL

(* LastWriteStands: a scratchpad file at which no writer works points to     *)
(* what the last write() that returned put there (Scratchpad.write).         *)
THEOREM ScratchpadStands == Spec => []LastWriteStands
<1>1. IInv => LastWriteStands
  BY DEF IInv, Pads, Works, LastWriteStands, AtWork
<1>2. QED BY <1>1, InvHolds, PTL
=============================================================================

----------------------------- MODULE TableBatch -----------------------------
(***************************************************************************)
(* What the operations of BufferedDbPool do to the rows of one table.      *)
(*                                                                         *)
(* A batch does not run in the order in which it was pushed: flush() sorts *)
(* it by type of operation, groupOps merges the updates of one id into the *)
(* first of them, and a read applies the buffers to what the disk returns. *)
(* DbPool has the interleavings of flush() with the other tasks and treats *)
(* an operation as an identifier; here flush() is a few steps of one task  *)
(* and the operations have contents.                                       *)
(*                                                                         *)
(* A row has a field that is assigned, val, and one that may be            *)
(* incremented, n.                                                         *)
(***************************************************************************)
EXTENDS Naturals, SequencesExt

CONSTANTS
    Keys,      \* values of the id column
    Vals,      \* values of the field val
    Writes,    \* the operations clients push
    Orderly,   \* clients push what a batch keeps the order of, see Phased
    MaxPushes, \* bound: operations pushed
    MaxBusy    \* bound: transactions that fail with SQLITE_BUSY

(* What an operation does to n. *)
Num == [kind: {"keep", "set", "inc"}, by: Nat]

(* An operation on the rows `ids'.  eq: an update whose condition is id = k *)
(* rather than id IN (...), so that it has a dedupKey.                      *)
Op == [type: {"insert", "upsert", "update", "delete"}, ids: SUBSET Keys, eq: BOOLEAN,
       val: Vals \cup {"keep"}, num: Num]

ASSUME TableBatchAssumption ==
    /\ Writes \subseteq Op
    /\ \A w \in Writes : w.type \in {"insert", "upsert"} => \E k \in Keys : w.ids = {k}
    /\ \A w \in Writes : w.type = "insert" => w.val # "keep" /\ w.num.kind = "set"
    /\ \A w \in Writes : w.eq => w.type = "update" /\ \E k \in Keys : w.ids = {k}
    /\ Orderly \in BOOLEAN /\ MaxPushes \in Nat /\ MaxBusy \in Nat

VARIABLES
    disk,     \* the rows of the table
    pushed,   \* history: the operations as they were pushed, in order
    objects,  \* the same objects as they are now
    active,   \* activeBuffer: references to objects, in the order of their pushes
    inflight, \* inFlightOps
    batch,    \* opsToFlush, and from groupOps on the operations to execute
    phase,    \* flush(): idle, a batch taken, grouped, or committed and not cleared
    busy,     \* transactions that failed with BUSY
    overrun   \* history: a batch left behind was swapped away

batchVars == <<disk, pushed, objects, active, inflight, batch, phase, busy, overrun>>

(* raw: n is still the Increment object itself, which is no number.         *)
NoRow == [val |-> "none", n |-> 0, raw |-> FALSE, exists |-> FALSE]
Row == [val: Vals \cup {"none"}, n: Nat, raw: BOOLEAN, exists: BOOLEAN]

\* The state is well typed: there is one object per pushed operation, and the
\* buffers hold references to those objects only.
TypeOK ==
    /\ disk \in [Keys -> Row]
    /\ pushed \in Seq(Op) /\ objects \in Seq(Op) /\ Len(objects) = Len(pushed)
    /\ \A refs \in {active, inflight, batch} : refs \in Seq(DOMAIN objects)
    /\ phase \in {"idle", "exec", "grouped", "written"}
    /\ busy \in 0..MaxBusy
    /\ overrun \in BOOLEAN

-----------------------------------------------------------------------------
(* One operation on the rows.                                               *)

(* The values of an operation assigned to a row, or to a new one; adding to *)
(* an Increment object starts from zero.                                    *)
Assign(row, op) ==
    [val |-> IF op.val = "keep" THEN row.val ELSE op.val,
     n |-> CASE op.num.kind = "keep" -> row.n
             [] op.num.kind = "set" -> op.num.by
             [] op.num.kind = "inc" -> (IF row.raw THEN 0 ELSE row.n) + op.num.by,
     raw |-> row.raw /\ op.num.kind = "keep",
     exists |-> TRUE]

(* executeSingleOp.  An insert of a key that exists fails and takes the     *)
(* transaction with it, which the second component records.                 *)
Run(result, op) ==
    LET rows == result[1] IN
    <<[k \in Keys |->
        IF k \notin op.ids THEN rows[k]
        ELSE CASE op.type = "delete" -> NoRow
               [] op.type = "update" -> IF rows[k].exists THEN Assign(rows[k], op) ELSE NoRow
               [] OTHER -> Assign(rows[k], op)],
      result[2] /\ (op.type = "insert" => \A k \in op.ids : ~rows[k].exists)>>

(* The rows after a sequence of operations, and whether none failed.        *)
Executed(rows, ops) == FoldLeft(Run, <<rows, TRUE>>, ops)

(* What the pushes mean to the client: each takes effect at once.           *)
InOrder == Executed([k \in Keys |-> NoRow], pushed)[1]

-----------------------------------------------------------------------------
(* A batch                                                                  *)

Contents(refs) == [i \in DOMAIN refs |-> objects[refs[i]]]

Priority(op) == CASE op.type = "insert" -> 0 [] op.type = "upsert" -> 1
                  [] op.type = "update" -> 2 [] op.type = "delete" -> 3

(* The comparison of flush() within a table and a layer: by type, then in   *)
(* the order of the pushes.                                                 *)
Before(r, q) ==
    LET first == Priority(objects[r])
        second == Priority(objects[q])
    IN  first < second \/ (first = second /\ r < q)
Sorted(refs) ==
    CHOOSE list \in SetToSeqs(ToSet(refs)) :
        \A i, j \in DOMAIN list : i < j => Before(list[i], list[j])

(* groupOps: the values of a later update override those of the first, an   *)
(* increment adds to what is there.  Mutated form: it replaces it.          *)
MergeReplacing(old, new) ==
    [old EXCEPT !.val = IF new.val = "keep" THEN @ ELSE new.val,
                !.num = IF new.num.kind = "keep" THEN @ ELSE new.num]
Merge(old, new) ==
    [old EXCEPT
        !.val = IF new.val = "keep" THEN @ ELSE new.val,
        !.num = CASE new.num.kind = "keep" -> @
                  [] new.num.kind = "inc" /\ @.kind # "keep" -> [@ EXCEPT !.by = @ + new.num.by]
                  [] OTHER -> new.num]

(* groupOps on one operation: an update by id is merged into the first one  *)
(* of the same id, an object the in-flight buffer shares, and dropped.      *)
Group(result, r) ==
    LET kept == result[1]
        objs == result[2]
        same == {q \in ToSet(kept) : objs[q].eq /\ objs[q].ids = objs[r].ids}
    IN  IF objs[r].eq /\ same # {}
        THEN LET q == CHOOSE q \in same : TRUE
             IN  <<kept, [objs EXCEPT ![q] = Merge(@, objs[r])]>>
        ELSE <<Append(kept, r), objs>>

Coalesced(refs) == FoldLeft(Group, <<<<>>, objects>>, refs)

(* Operations that share a key are pushed in the order of their types, and  *)
(* between two updates by id of one key nothing updates that key otherwise. *)
Phased(ops) ==
    \A i, j \in DOMAIN ops : i < j /\ ops[i].ids \cap ops[j].ids # {} =>
        /\ Priority(ops[i]) <= Priority(ops[j])
        /\ ops[i].eq /\ ops[j].eq =>
            \A m \in (i + 1)..(j - 1) : ops[m].ids \cap ops[i].ids # {} => ops[m].eq

-----------------------------------------------------------------------------
(* A read by id                                                             *)

(* selectWhere(id = k): the row on disk, if any, and on it applyOps of the  *)
(* in-flight and the active buffer.  An insert adds a row to the result     *)
(* without a look at what is there, and a new row holds the values of the   *)
(* operation as they are, Increment objects included.  Mutated form: the    *)
(* in-flight buffer is left out.                                            *)
NewRow(op) == [Assign(NoRow, op) EXCEPT !.raw = op.num.kind = "inc"]
ApplyOps(k, rows, op) ==
    IF k \notin op.ids THEN rows
    ELSE CASE op.type = "insert" -> Append(rows, NewRow(op))
           [] op.type = "upsert" ->
                IF rows = <<>> THEN <<NewRow(op)>> ELSE [rows EXCEPT ![1] = Assign(@, op)]
           [] op.type = "update" -> [i \in DOMAIN rows |-> Assign(rows[i], op)]
           [] op.type = "delete" -> <<>>

RowsOf(row) == IF row.exists THEN <<row>> ELSE <<>>

SelectActive(k) ==
    FoldLeft(LAMBDA rows, op : ApplyOps(k, rows, op), RowsOf(disk[k]), Contents(active))
Select(k) ==
    FoldLeft(LAMBDA rows, op : ApplyOps(k, rows, op), RowsOf(disk[k]),
             Contents(inflight \o active))

-----------------------------------------------------------------------------
(* The pool                                                                 *)

BatchInit ==
    /\ disk = [k \in Keys |-> NoRow]
    /\ pushed = <<>> /\ objects = <<>>
    /\ active = <<>> /\ inflight = <<>> /\ batch = <<>>
    /\ phase = "idle"
    /\ busy = 0
    /\ overrun = FALSE

(* A client pushes an operation.  It inserts only rows it knows are not     *)
(* there (ids are fresh UUIDs).                                             *)
Push(op) ==
    /\ Len(pushed) < MaxPushes
    /\ op.type = "insert" => \A k \in op.ids : ~InOrder[k].exists
    /\ Orderly => Phased(Append(Contents(active), op))
    /\ pushed' = Append(pushed, op)
    /\ objects' = Append(objects, op)
    /\ active' = Append(active, Len(objects'))
    /\ UNCHANGED <<disk, inflight, batch, phase, busy, overrun>>

(* flush() swaps the buffers, also over a batch that a BUSY transaction left *)
(* behind when something was pushed since: that batch is lost.              *)
Swap ==
    /\ phase = "idle" /\ phase' = "exec"
    /\ active # <<>>
    /\ inflight' = active
    /\ active' = <<>>
    /\ batch' = Sorted(active)
    /\ overrun' = (overrun \/ inflight # <<>>)
    /\ UNCHANGED <<disk, pushed, objects, busy>>

(* It takes the batch left behind, unsorted.                                *)
TakeInFlight ==
    /\ phase = "idle" /\ phase' = "exec"
    /\ active = <<>> /\ inflight # <<>>
    /\ batch' = inflight
    /\ UNCHANGED <<disk, pushed, objects, active, inflight, busy, overrun>>

(* The transaction begins with groupOps.                                    *)
GroupOps ==
    /\ phase = "exec" /\ phase' = "grouped"
    /\ batch' = Coalesced(batch)[1]
    /\ objects' = Coalesced(batch)[2]
    /\ UNCHANGED <<disk, pushed, active, inflight, busy, overrun>>

(* It commits, or an insert fails and the batch becomes dead letters.       *)
Execute ==
    LET result == Executed(disk, Contents(batch)) IN
    /\ phase = "grouped"
    /\ IF result[2]
       THEN disk' = result[1] /\ phase' = "written" /\ UNCHANGED inflight
       ELSE phase' = "idle" /\ inflight' = <<>> /\ UNCHANGED disk
    /\ batch' = <<>>
    /\ UNCHANGED <<pushed, objects, active, busy, overrun>>

(* It is rolled back with BUSY: the batch stays in flight.                  *)
Busy ==
    /\ phase \in {"exec", "grouped"} /\ phase' = "idle"
    /\ busy < MaxBusy /\ busy' = busy + 1
    /\ batch' = <<>>
    /\ UNCHANGED <<disk, pushed, objects, active, inflight, overrun>>

(* The in-flight buffer is cleared.                                         *)
Clear ==
    /\ phase = "written" /\ phase' = "idle"
    /\ inflight' = <<>>
    /\ UNCHANGED <<disk, pushed, objects, active, batch, busy, overrun>>

BatchNext ==
    (\E op \in Writes : Push(op)) \/ Swap \/ TakeInFlight \/ GroupOps \/ Execute \/ Busy \/ Clear

BatchSpec == BatchInit /\ [][BatchNext]_batchVars

-----------------------------------------------------------------------------
(* Properties                                                               *)

(* Applied twice in a row, or over its own merged form, it does the same.   *)
Repeatable(op) == op.type # "insert" /\ op.num.kind # "inc"

(* A BUSY retry groups operations that were merged already, and counts      *)
(* their increments again.                                                  *)
RetriedIncrement == busy > 0 /\ \E i \in DOMAIN pushed : pushed[i].num.kind = "inc"

(* With orderly clients, once everything is flushed the (well-typed) disk   *)
(* holds what the operations mean one by one, in the order of their pushes: *)
(* sorting and merging are invisible, and so are the retries unless they    *)
(* count an increment twice.  A batch that BUSY left behind is lost when    *)
(* something is pushed before the next flush: then the disk lacks it.       *)
FlushKeepsOrder ==
    /\ TypeOK
    /\ active = <<>> /\ inflight = <<>> => disk = InOrder \/ RetriedIncrement \/ overrun

(* The batch in flight may be applied again: it has not run yet, or does    *)
(* the same twice.                                                          *)
InFlightRepeatable ==
    \/ phase \in {"idle", "exec"}
    \/ \A i \in DOMAIN inflight : Repeatable(objects[inflight[i]])

ReadExact(k) ==
    InFlightRepeatable /\ ~RetriedIncrement /\ ~overrun => Select(k) = RowsOf(InOrder[k])

(* A buffered upsert increments a row that may be missing when it is read.  *)
FreshCounter(k) ==
    LET buffered == {op \in ToSet(Contents(inflight \o active)) : k \in op.ids}
    IN  /\ \E op \in buffered : op.type = "upsert" /\ op.num.kind = "inc"
        /\ ~disk[k].exists \/ \E op \in buffered : op.type = "delete"

(* With orderly clients, a read by id sees every operation pushed so far,   *)
(* wherever it is, and nothing twice, as long as what it overlays is still  *)
(* to be done or may be done again and no batch was lost; a counter that an *)
(* upsert creates is the exception.                                         *)
ReadById == \A k \in Keys : FreshCounter(k) \/ ReadExact(k)

(* Without the exception: recordUsage upserts increments of counters that   *)
(* getStats reads by id.                                                    *)
ReadCounters == \A k \in Keys : ReadExact(k)
=============================================================================

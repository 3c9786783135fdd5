---------------------------- MODULE MCTableBatch ----------------------------
(* Instances of TableBatch for TLC: operations of every kind on two rows.   *)
EXTENDS TableBatch
CONSTANTS k1, k2

Keep == [kind |-> "keep", by |-> 0]
SetTo(n) == [kind |-> "set", by |-> n]
Inc == [kind |-> "inc", by |-> 1]
Write(type, ids, eq, val, num) ==
    [type |-> type, ids |-> ids, eq |-> eq, val |-> val, num |-> num]

MCVals == {"a", "b"}
MCWrites ==
    {Write("insert", {k}, FALSE, "a", SetTo(0)) : k \in Keys}
    \cup {Write("upsert", {k1}, FALSE, "a", SetTo(0)), Write("upsert", {k1}, FALSE, "keep", Inc)}
    \cup {Write("update", {k1}, TRUE, "b", Keep), Write("update", {k1}, TRUE, "a", Inc),
          Write("update", {k1}, TRUE, "keep", SetTo(5)), Write("update", {k2}, TRUE, "keep", Inc)}
    \cup {Write("update", {k1, k2}, FALSE, "b", Inc)}
    \cup {Write("delete", {k}, FALSE, "keep", Keep) : k \in Keys}

(* What recordUsage of tracker.ts does to an aggregate. *)
MCCounters == {Write("upsert", {k1}, FALSE, "keep", Inc)}
=============================================================================

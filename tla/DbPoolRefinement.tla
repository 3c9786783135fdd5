-------------------------- MODULE DbPoolRefinement --------------------------
(* BufferedDbPool as an implementation of WriteBehind.                      *)
EXTENDS DbPool

(* What was handed over together: a plain write, or what a commitWork()     *)
(* moved out of its shadow.                                                 *)
Units == ({{o} : o \in accepted \cap PlainOps} \cup {committed[a] : a \in Agents}) \ {{}}

(* The units with a write in ops.                                           *)
UnitsOf(ops) == {u \in Units : u \cap ops # {}}

Phase == IF lifecycle = "crashed" THEN "lost" ELSE IF lifecycle = "stopped" THEN "closed" ELSE "open"
Unsealed == UnitsOf(buf[active])

(* The sealed batch is the in-flight Map until the transaction commits:     *)
(* clearing the Map afterwards is a stuttering step.                        *)
Sealed == UnitsOf(buf[inflight] \ (Applied \cup deadLetters))

Buffer == INSTANCE WriteBehind WITH
    phase <- Phase, unsealed <- Unsealed, sealed <- Sealed, durable <- Applied, reported <- deadLetters

(* A pool that meets no BUSY and no mutex timeout is a write-behind buffer: *)
(* two Maps, two mutexes and flushes that overlap with pushes, commits and  *)
(* stop() change nothing a user of the buffer can tell.                     *)
ImplementsWriteBehind == Buffer!Spec
=============================================================================

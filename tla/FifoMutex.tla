----------------------------- MODULE FifoMutex -----------------------------
(***************************************************************************)
(* The promise mutex at the top of BufferedDbPool.ts.  A mutex is a        *)
(* `locked' flag and a FIFO queue of waiting tasks; release() either hands *)
(* the lock to the head of the queue (the flag stays TRUE) or clears the   *)
(* flag.  It does not check who calls it.  The code's currentHolderId only *)
(* serves re-entrant calls made under runLocked, which neither the state   *)
(* mutex nor the flush mutex uses (every acquire() there draws a fresh     *)
(* identity), so it is left out.                                           *)
(***************************************************************************)
EXTENDS Naturals, SequencesExt

(* A mutex over a set of tasks. *)
Mutex(T) == [locked: BOOLEAN, queue: Seq(T)]

Unlocked == [locked |-> FALSE, queue |-> <<>>]

(* acquire() by task t: take the free lock, or queue behind the others. *)
Acquire(m, t) ==
    IF m.locked THEN [m EXCEPT !.queue = Append(@, t)]
                ELSE [m EXCEPT !.locked = TRUE]

(* Mutated forms: release() unlocks although it hands over; it unlocks and  *)
(* wakes nobody.                                                            *)
ReleaseUnlocks(m) ==
    IF m.queue # <<>> THEN [m EXCEPT !.queue = Tail(@), !.locked = FALSE]
                      ELSE [m EXCEPT !.locked = FALSE]
ReleaseNobody(m) == [m EXCEPT !.locked = FALSE]

(* release(): shift the first waiter off the queue, who thereby owns the    *)
(* lock, or unlock.                                                         *)
Release(m) ==
    IF m.queue # <<>> THEN [m EXCEPT !.queue = Tail(@)]
                      ELSE [m EXCEPT !.locked = FALSE]

(* The timeout callback of acquire(): the i-th waiter is spliced out of the *)
(* queue and its promise rejected.                                          *)
GiveUp(m, i) == [m EXCEPT !.queue = RemoveAt(@, i)]

(* Task t, whose acquire() has not returned yet, is still queued; a task    *)
(* that called acquire() and is not queued owns the lock.                   *)
Queued(m, t) == \E i \in 1..Len(m.queue) : m.queue[i] = t
=============================================================================

-------------------------- MODULE ToolsGraphProofs --------------------------
(***************************************************************************)
(* Theorems about QueryLoop and StreamingToolExecutor, for every answer    *)
(* the AI may give, every bound of turns and rounds and every window, and  *)
(* about the structural graph, for every set of files, texts and imports,  *)
(* every order of candidates and any number of bootstraps.                 *)
(*                                                                         *)
(* Tools.  The inductive invariant says where the calls of a round are     *)
(* (Batching): those whose results are taken are done, those in the window *)
(* are reads, the others have not started, except the one at next when the *)
(* window is empty.  So a call that changes the file is alone but for late *)
(* tools (Order), and what the file, the graph and the reads hold follows  *)
(* from which call changed the file last (Changed, Seen, Mirrored).        *)
(*                                                                         *)
(* Graph.  Every step's graph is one of a few operators on graphs, and     *)
(* each has a lemma that says which nodes, texts and dependents it leaves  *)
(* (UpdatedIs, RemovedIs, CoupledIs, BuiltIs, AuditedIs, PrunedIs) and one *)
(* that every edge is a dependent or loose.  What edges there are rests on *)
(* two facts of the resolver: it gives one file at most, and what a larger *)
(* graph resolves to a file of a smaller one the smaller one does too.     *)
(* The invariant (SpiderInv) adds what the registry, the inverse graph and *)
(* the ghost cache have of the graph: an entry of the cache was right for  *)
(* some texts of the imports that it met, and its signature, which has a   *)
(* place for each, tells two such texts apart.                             *)
(***************************************************************************)
EXTENDS ToolLoop, Spider, SequenceTheorems, FiniteSetTheorems, TLAPS

(* Calls whose results have been taken.                                     *)
Settled == base + Len(results)

Batching ==
    /\ results \in Seq(Nat)
    /\ Len(results) + Len(window) = next - 1 - base
    /\ \A i \in 1..Len(window) : window[i] = Settled + i
    /\ \A c \in Calls : c <= Settled => ex[c] = "done"
    /\ \A c \in Calls : c > Settled /\ c < next => calls[c] = "read" /\ ex[c] # "idle"
    /\ \A c \in Calls : c > next => ex[c] = "idle"
    /\ \A c \in Calls : c = next /\ (calls[c] = "read" \/ window # <<>>) => ex[c] = "idle"
    /\ pc # "batch" => next = Len(calls) + 1 /\ window = <<>>

(* A call has an answer when it is done, and then only; a read is over when *)
(* its tool has returned.                                                   *)
Answered ==
    \A c \in Calls :
        /\ answer[c] = "none" <=> ex[c] # "done"
        /\ calls[c] = "read" => ex[c] \notin {"readback", "apply", "fallback"}

Acting == {"ran", "readback", "apply", "fallback"}

(* Who changed the file last: a late tool answered with an error, or the    *)
(* last change that was not.                                                *)
Changed ==
    /\ \A c \in late : calls[c] # "read" /\ ex[c] = "done" /\ answer[c] = "error"
    /\ writer # 0 => calls[writer] # "read" /\ ex[writer] \in Acting \cup {"done"}
    /\ \A c \in Calls : calls[c] # "read" /\ ex[c] \in Acting =>
          writer = c \/ (writer # 0 /\ answer[writer] = "error")
    /\ writer = 0 \/ answer[writer] # "error" =>
          \A k \in Calls : k > writer /\ calls[k] # "read" /\ ex[k] = "done" => answer[k] = "error"

(* What ReadsInOrder says of one read.                                      *)
InOrder(c) ==
    /\ saw[c] < c
    /\ saw[c] = 0 \/ answer[saw[c]] # "error" =>
          \A k \in saw[c] + 1 .. c - 1 : calls[k] # "read" => answer[k] = "error"

(* A read that has seen the file saw it in order, and what it saw is over.  *)
Seen ==
    \A c \in Calls : calls[c] = "read" /\ (ex[c] = "ran" \/ answer[c] = "ok") =>
        /\ saw[c] \in 0..Len(calls)
        /\ saw[c] # 0 => ex[saw[c]] = "done"
        /\ InOrder(c)

(* What the graph will show when the call in progress is mirrored.          *)
Mirrored ==
    /\ \A c \in Calls : ex[c] = "apply" /\ writer = c => saw[c] = file
    /\ \A c \in Calls : ex[c] = "fallback" /\ writer = c /\ ~broken => file = Gone
    /\ MirrorFresh

IInv == TypeOK /\ Batching /\ Answered /\ Changed /\ Seen /\ Mirrored

ExStates == {"idle", "checked", "running", "ran", "readback", "apply", "fallback", "done"}
Answers == {"none", "ok", "unmirrored", "error"}

-----------------------------------------------------------------------------
(* What a step preserves                                                    *)

(* A call that changes the file is alone: when it has started, all earlier  *)
(* calls are done, and when a later call has, it is done itself.            *)
LEMMA Order ==
    ASSUME TypeOK, Batching, NEW c \in Calls, NEW k \in Calls,
           ex[c] # "idle", k < c, calls[k] # "read" \/ calls[c] # "read"
    PROVE  ex[k] = "done"
<1>1. /\ Len(calls) \in Nat /\ base \in Nat /\ Len(results) \in Nat /\ next \in Nat
      /\ Len(window) \in Nat /\ c \in Nat /\ k \in Nat
  BY DEF TypeOK, Batching, Calls
<1>2. c <= next
  BY <1>1 DEF Batching
<1>3. ~(k > Settled) => ex[k] = "done"
  BY <1>1 DEF Batching, Settled
<1>4. CASE k > Settled
  <2>1. k < next
    BY <1>1, <1>2
  <2>2. calls[k] = "read"
    BY <1>4, <2>1 DEF Batching
  <2>3. calls[c] # "read"
    BY <2>2
  <2>4. c > Settled
    BY <1>1, <1>4 DEF Settled
  <2>5. c = next
    BY <1>1, <1>2, <2>3, <2>4 DEF Batching
  <2>6. window = <<>>
    BY <1>1, <2>5, <2>3 DEF Batching
  <2>7. Len(window) = 0
    BY <2>6
  <2>8. QED
    BY <1>1, <1>4, <2>1, <2>7 DEF Batching, Settled
<1>5. QED
  BY <1>3, <1>4

(* What a read saw stays as it was, in order and over.                      *)
LEMMA SeenStays ==
    ASSUME TypeOK, Answered, Seen,
           Len(calls') \in Nat, Len(calls) <= Len(calls'),
           \A d \in Calls : calls'[d] = calls[d],
           \A d \in Calls : ex[d] = "done" => ex'[d] = "done" /\ answer'[d] = answer[d],
           \A d \in Calls' : calls'[d] = "read" /\ (ex'[d] = "ran" \/ answer'[d] = "ok") =>
              d \in Calls /\ saw'[d] = saw[d] /\ (ex[d] = "ran" \/ answer[d] = "ok")
    PROVE  Seen'
<1>1. SUFFICES ASSUME NEW d \in Calls', calls'[d] = "read", ex'[d] = "ran" \/ answer'[d] = "ok"
               PROVE  /\ saw'[d] \in 0..Len(calls')
                      /\ saw'[d] # 0 => ex'[saw'[d]] = "done"
                      /\ InOrder(d)'
  BY DEF Seen
<1>2. d \in Calls /\ saw'[d] = saw[d] /\ (ex[d] = "ran" \/ answer[d] = "ok")
  BY <1>1
<1>3. /\ saw[d] \in 0..Len(calls)
      /\ saw[d] # 0 => ex[saw[d]] = "done"
      /\ InOrder(d)
  BY <1>1, <1>2 DEF Seen
<1>4. Len(calls) \in Nat /\ d \in Nat /\ saw[d] \in Nat
  BY <1>2, <1>3 DEF TypeOK, Calls
<1>5. saw[d] # 0 => saw[d] \in Calls
  BY <1>3, <1>4 DEF Calls
<1>6. saw[d] # 0 => ex'[saw[d]] = "done" /\ answer'[saw[d]] = answer[saw[d]]
  BY <1>3, <1>5
<1>7. ASSUME saw[d] = 0 \/ answer'[saw[d]] # "error",
             NEW k \in saw[d] + 1 .. d - 1, calls'[k] # "read"
      PROVE  answer'[k] = "error"
  <2>1. k \in Calls
    BY <1>2, <1>4 DEF Calls
  <2>2. calls[k] # "read"
    BY <2>1, <1>7
  <2>3. answer[k] = "error"
    BY <1>3, <1>6, <1>7, <2>2 DEF InOrder
  <2>4. ex[k] = "done"
    BY <2>1, <2>3 DEF Answered
  <2>5. QED
    BY <2>1, <2>3, <2>4
<1>8. InOrder(d)'
  BY <1>2, <1>3, <1>7 DEF InOrder
<1>9. QED
  BY <1>2, <1>3, <1>4, <1>6, <1>8

(* Who changed the file last stays known while nobody changes it.           *)
LEMMA ChangedStays ==
    ASSUME TypeOK, Answered, Changed,
           Len(calls') \in Nat, Len(calls) <= Len(calls'),
           \A d \in Calls : calls'[d] = calls[d],
           \A d \in Calls : ex[d] = "done" => ex'[d] = "done" /\ answer'[d] = answer[d],
           \A d \in Calls : ex[d] \in Acting => ex'[d] \in Acting \cup {"done"},
           \A d \in Calls' : calls'[d] # "read" /\ ex'[d] \in Acting => d \in Calls /\ ex[d] \in Acting,
           \A d \in Calls' : ex'[d] = "done" =>
              d \in Calls /\ (ex[d] = "done" \/ answer'[d] = "error" \/ ex[d] \in Acting
                              \/ calls[d] = "read"),
           \A d \in late' : d \in late \/ (calls'[d] # "read" /\ ex'[d] = "done" /\ answer'[d] = "error"),
           writer' = writer
    PROVE  Changed'
<1>1. late \subseteq Calls /\ writer \in 0..Len(calls) /\ Len(calls) \in Nat
  BY DEF TypeOK
<1>2. writer # 0 => writer \in Calls
  BY <1>1 DEF Calls
<1>3. \A d \in late' : calls'[d] # "read" /\ ex'[d] = "done" /\ answer'[d] = "error"
  BY <1>1 DEF Changed
<1>4. writer # 0 => calls'[writer] # "read" /\ ex'[writer] \in Acting \cup {"done"}
  BY <1>2 DEF Changed
<1>5. writer # 0 /\ answer[writer] = "error" => answer'[writer] = "error"
  BY <1>2 DEF Answered
<1>6. \A d \in Calls' : calls'[d] # "read" /\ ex'[d] \in Acting =>
          writer = d \/ (writer # 0 /\ answer'[writer] = "error")
  BY <1>5 DEF Changed
<1>7. ASSUME writer = 0 \/ answer'[writer] # "error",
             NEW k \in Calls', k > writer, calls'[k] # "read", ex'[k] = "done"
      PROVE  answer'[k] = "error"
  <2>1. k \in Calls /\ calls[k] # "read"
    BY <1>7
  <2>2. writer = 0 \/ answer[writer] # "error"
    BY <1>5, <1>7
  <2>3. CASE ex[k] = "done"
    <3>1. answer[k] = "error"
      BY <2>1, <2>2, <2>3, <1>7 DEF Changed
    <3>2. QED
      BY <2>1, <2>3, <3>1
  <2>4. ex[k] \notin Acting
    BY <1>1, <1>7, <2>1, <2>2 DEF Changed, Calls
  <2>5. QED
    BY <1>7, <2>1, <2>3, <2>4
<1>8. QED
  BY <1>3, <1>4, <1>6, <1>7 DEF Changed

(* What the graph shows stays right while file and graph do not change.     *)
LEMMA MirroredStays ==
    ASSUME Mirrored,
           \A d \in Calls' : ex'[d] = "apply" => d \in Calls /\ ex[d] = "apply" /\ saw'[d] = saw[d],
           \A d \in Calls' : ex'[d] = "fallback" => d \in Calls /\ ex[d] = "fallback",
           writer = 0 \/ answer'[writer] = "ok" => writer = 0 \/ answer[writer] = "ok",
           UNCHANGED <<file, writer, mirror, broken>>
    PROVE  Mirrored'
BY DEF Mirrored, MirrorFresh, Gone

-----------------------------------------------------------------------------
(* The steps of a call                                                      *)

(* A call in progress is the one at next or a read in the window, and its   *)
(* steps leave the round as it is.                                          *)
LEMMA BatchingStays ==
    ASSUME TypeOK, Batching, NEW c \in Calls, ex[c] \notin {"idle", "done"},
           NEW e, e # "idle", ex' = [ex EXCEPT ![c] = e],
           UNCHANGED <<pc, calls, base, batchVars>>
    PROVE  Batching'
<1>1. UNCHANGED <<pc, calls, base, next, window, results>> /\ Settled' = Settled /\ Calls' = Calls
  BY DEF batchVars, Settled, Calls
<1>2. ex'[c] = e /\ \A d \in Calls : d # c => ex'[d] = ex[d]
  BY DEF TypeOK
<1>3. c \in Nat /\ next \in Nat /\ Settled \in Nat
  <2>1. base \in Nat /\ next \in Nat
    BY DEF TypeOK
  <2>2. Len(results) \in Nat
    BY DEF Batching
  <2>3. QED
    BY <2>1, <2>2 DEF Settled, Calls
<1>4. ~(c <= Settled) /\ ~(c > next)
  BY DEF Batching
<1>5. ~(c = next /\ (calls[c] = "read" \/ window # <<>>))
  BY DEF Batching
<1>6. \A d \in Calls : d <= Settled => ex'[d] = "done"
  BY <1>2, <1>4 DEF Batching
<1>7. \A d \in Calls : d > Settled /\ d < next => calls[d] = "read" /\ ex'[d] # "idle"
  BY <1>2 DEF Batching
<1>8. \A d \in Calls : d > next => ex'[d] = "idle"
  BY <1>2, <1>4 DEF Batching
<1>9. \A d \in Calls : d = next /\ (calls[d] = "read" \/ window # <<>>) => ex'[d] = "idle"
  BY <1>2, <1>5 DEF Batching
<1>10. QED
  BY <1>1, <1>6, <1>7, <1>8, <1>9 DEF Batching

(* A call moves on, or is over with its answer.                             *)
LEMMA AnsweredStays ==
    ASSUME TypeOK, Answered, NEW c \in Calls, NEW e, NEW a,
           ex' = [ex EXCEPT ![c] = e], answer' = [answer EXCEPT ![c] = a], calls' = calls,
           a = "none" <=> e # "done",
           calls[c] = "read" => e \notin {"readback", "apply", "fallback"}
    PROVE  Answered'
<1>1. ex'[c] = e /\ \A d \in Calls : d # c => ex'[d] = ex[d]
  BY DEF TypeOK
<1>2. answer'[c] = a /\ \A d \in Calls : d # c => answer'[d] = answer[d]
  BY DEF TypeOK
<1>3. Calls' = Calls
  BY DEF Calls
<1>4. QED
  BY <1>1, <1>2, <1>3 DEF Answered

(* The types of the variables a call changes.                               *)
LEMMA CallTypes ==
    ASSUME TypeOK, CallOnly,
           ex' \in [Calls -> ExStates], answer' \in [Calls -> Answers],
           saw' \in [Calls -> Contents], late' \subseteq Calls, file' \in Contents,
           writer' \in 0..Len(calls), mirror' \in Contents, broken' \in BOOLEAN
    PROVE  TypeOK'
<1>1. UNCHANGED <<pc, status, turn, rounds, calls, base, next, window, results>>
      /\ Calls' = Calls /\ Contents' = Contents
  BY DEF CallOnly, loopVars, batchVars, Calls, Contents
<1>2. QED
  BY <1>1 DEF TypeOK, ExStates, Answers

(* A step of a call that changes neither the file nor the graph, and in     *)
(* which it does not look at the file.                                      *)
LEMMA QuietCall ==
    ASSUME IInv, NEW c \in Calls, NEW e \in {"running", "readback", "done"}, NEW a \in Answers,
           ex[c] \notin {"idle", "done"}, CallOnly,
           UNCHANGED <<saw, file, writer, mirror, broken>>,
           ex' = [ex EXCEPT ![c] = e], answer' = [answer EXCEPT ![c] = a],
           a = "none" <=> e # "done",
           e = "running" => ex[c] = "checked",
           e = "readback" => ex[c] = "ran" /\ calls[c] # "read",
           e = "done" => \/ a = "error"
                         \/ a = "ok" /\ calls[c] = "read" /\ ex[c] = "ran"
                         \/ a = "unmirrored" /\ ex[c] \in Acting /\ calls[c] # "read",
           late' = late \/ (late' = late \cup {c} /\ calls[c] # "read" /\ a = "error")
    PROVE  IInv'
<1>1. TypeOK /\ Batching /\ Answered /\ Changed /\ Seen /\ Mirrored
  BY DEF IInv
<1>2. UNCHANGED <<pc, calls, base, batchVars>> /\ Calls' = Calls
  BY DEF CallOnly, loopVars, Calls
<1>3. ex'[c] = e /\ \A d \in Calls : d # c => ex'[d] = ex[d]
  BY <1>1 DEF TypeOK
<1>4. answer'[c] = a /\ \A d \in Calls : d # c => answer'[d] = answer[d]
  BY <1>1 DEF TypeOK
<1>5. Len(calls) \in Nat /\ Len(calls') \in Nat /\ Len(calls) <= Len(calls')
  BY <1>1, <1>2 DEF TypeOK
<1>6. TypeOK'
  <2>1. ex' \in [Calls -> ExStates]
    BY <1>1 DEF TypeOK, ExStates
  <2>2. answer' \in [Calls -> Answers]
    BY <1>1 DEF TypeOK, Answers
  <2>3. late' \subseteq Calls
    BY <1>1 DEF TypeOK
  <2>4. QED
    BY <1>1, <2>1, <2>2, <2>3, CallTypes DEF TypeOK
<1>7. Batching'
  BY <1>1, <1>2, BatchingStays
<1>8. Answered'
  BY <1>1, <1>2, AnsweredStays
<1>9. \A d \in Calls : ex[d] = "done" => ex'[d] = "done" /\ answer'[d] = answer[d]
  BY <1>3, <1>4
<1>10. Changed'
  <2>1. \A d \in Calls : ex[d] \in Acting => ex'[d] \in Acting \cup {"done"}
    BY <1>3 DEF Acting
  <2>2. \A d \in Calls' : calls'[d] # "read" /\ ex'[d] \in Acting => d \in Calls /\ ex[d] \in Acting
    BY <1>2, <1>3 DEF Acting
  <2>3. \A d \in Calls' : ex'[d] = "done" =>
           d \in Calls /\ (ex[d] = "done" \/ answer'[d] = "error" \/ ex[d] \in Acting
                           \/ calls[d] = "read")
    BY <1>2, <1>3, <1>4
  <2>4. \A d \in late' : d \in late \/ (calls'[d] # "read" /\ ex'[d] = "done" /\ answer'[d] = "error")
    BY <1>2, <1>3, <1>4
  <2>5. QED
    BY <1>1, <1>2, <1>5, <1>9, <2>1, <2>2, <2>3, <2>4, ChangedStays
<1>11. Seen'
  <2>1. \A d \in Calls' : calls'[d] = "read" /\ (ex'[d] = "ran" \/ answer'[d] = "ok") =>
           d \in Calls /\ saw'[d] = saw[d] /\ (ex[d] = "ran" \/ answer[d] = "ok")
    BY <1>2, <1>3, <1>4
  <2>2. QED
    BY <1>1, <1>2, <1>5, <1>9, <2>1, SeenStays
<1>12. Mirrored'
  <2>1. writer = c => calls[c] # "read"
    BY <1>1, <1>5 DEF Changed, Calls
  <2>2. writer = 0 \/ writer \in Calls
    BY <1>1, <1>5 DEF TypeOK, Calls
  <2>3. writer = 0 \/ answer'[writer] = "ok" => writer = 0 \/ answer[writer] = "ok"
    BY <1>4, <2>1, <2>2
  <2>4. \A d \in Calls' : ex'[d] = "apply" => d \in Calls /\ ex[d] = "apply" /\ saw'[d] = saw[d]
    BY <1>2, <1>3
  <2>5. \A d \in Calls' : ex'[d] = "fallback" => d \in Calls /\ ex[d] = "fallback"
    BY <1>2, <1>3
  <2>6. QED
    BY <1>1, <2>3, <2>4, <2>5, MirroredStays
<1>13. QED
  BY <1>6, <1>7, <1>8, <1>10, <1>11, <1>12 DEF IInv

(* The quiet steps: refusing and starting a call, its tool's return or      *)
(* error, its timeout, and the answer with the content it carried.          *)
LEMMA QuietSteps ==
    ASSUME IInv, NEW c \in Calls,
           Refuse(c) \/ Admit(c) \/ ToolReturns(c) \/ ToolThrows(c) \/ TimesOut(c) \/ FallbackInline(c)
    PROVE  IInv'
<1>1. /\ ex \in [Calls -> ExStates] /\ answer \in [Calls -> Answers]
      /\ \A d \in Calls : answer[d] = "none" <=> ex[d] # "done"
      /\ \A d \in Calls : calls[d] = "read" => ex[d] \notin {"readback", "apply", "fallback"}
  BY DEF IInv, TypeOK, Answered, ExStates, Answers
<1>2. \A d \in Calls : answer[d] = "none" => answer = [answer EXCEPT ![d] = "none"]
  BY <1>1
<1>3. CASE Refuse(c)
  <2>1. CallOnly /\ UNCHANGED <<saw, late, file, writer, mirror, broken>>
    BY <1>3 DEF Refuse, Untouched
  <2>2. ex[c] = "checked" /\ ex' = [ex EXCEPT ![c] = "done"] /\ answer' = [answer EXCEPT ![c] = "error"]
    BY <1>3 DEF Refuse, Finish
  <2>3. QED
    BY <2>1, <2>2, QuietCall DEF Answers
<1>4. CASE Admit(c)
  <2>1. CallOnly /\ UNCHANGED <<saw, late, file, writer, mirror, broken>>
    BY <1>4 DEF Admit, Untouched
  <2>2. ex[c] = "checked" /\ ex' = [ex EXCEPT ![c] = "running"] /\ answer' = [answer EXCEPT ![c] = "none"]
    BY <1>1, <1>2, <1>4 DEF Admit, Goto
  <2>3. QED
    BY <2>1, <2>2, QuietCall DEF Answers
<1>5. CASE ToolReturns(c)
  <2>1. CallOnly /\ UNCHANGED <<saw, late, file, writer, mirror, broken>> /\ ex[c] = "ran"
    BY <1>5 DEF ToolReturns, Untouched
  <2>2. CASE calls[c] = "read"
    <3>1. ex' = [ex EXCEPT ![c] = "done"] /\ answer' = [answer EXCEPT ![c] = "ok"]
      BY <1>5, <2>2 DEF ToolReturns, Finish
    <3>2. QED
      BY <2>1, <2>2, <3>1, QuietCall DEF Answers
  <2>3. CASE calls[c] # "read"
    <3>1. ex' = [ex EXCEPT ![c] = "readback"] /\ answer' = [answer EXCEPT ![c] = "none"]
      BY <1>1, <1>2, <1>5, <2>1, <2>3 DEF ToolReturns, Goto
    <3>2. QED
      BY <2>1, <2>3, <3>1, QuietCall DEF Answers
  <2>4. QED
    BY <2>2, <2>3
<1>6. CASE ToolThrows(c)
  <2>1. CallOnly /\ UNCHANGED <<saw, late, file, writer, mirror, broken>>
    BY <1>6 DEF ToolThrows, Untouched
  <2>2. ex[c] \in {"running", "ran"} /\ ex' = [ex EXCEPT ![c] = "done"]
        /\ answer' = [answer EXCEPT ![c] = "error"]
    BY <1>6 DEF ToolThrows, Finish
  <2>3. QED
    BY <2>1, <2>2, QuietCall DEF Answers
<1>7. CASE TimesOut(c)
  <2>1. CallOnly /\ UNCHANGED <<saw, file, writer, mirror, broken>>
    BY <1>7 DEF TimesOut
  <2>2. ex[c] \in {"running", "ran"} /\ ex' = [ex EXCEPT ![c] = "done"]
        /\ answer' = [answer EXCEPT ![c] = "error"]
    BY <1>7 DEF TimesOut, CanTimeOut, Finish
  <2>3. late' = late \/ (late' = late \cup {c} /\ calls[c] # "read")
    BY <1>7 DEF TimesOut
  <2>4. QED
    BY <2>1, <2>2, <2>3, QuietCall DEF Answers
<1>8. CASE FallbackInline(c)
  <2>1. CallOnly /\ UNCHANGED <<saw, late, file, writer, mirror, broken>>
    BY <1>8 DEF FallbackInline, Untouched
  <2>2. ex[c] = "fallback" /\ calls[c] # "read" /\ ex' = [ex EXCEPT ![c] = "done"]
        /\ answer' = [answer EXCEPT ![c] = "unmirrored"]
    BY <1>8 DEF FallbackInline, Finish
  <2>3. QED
    BY <2>1, <2>2, QuietCall DEF Answers, Acting
<1>9. QED
  BY <1>3, <1>4, <1>5, <1>6, <1>7, <1>8

(* A read sees the file: nothing later has changed it, and the last change  *)
(* before it that was not answered with an error is what it sees.           *)
LEMMA ReadSees ==
    ASSUME IInv, NEW c \in Calls, ToolReads(c)
    PROVE  IInv'
<1>1. TypeOK /\ Batching /\ Answered /\ Changed /\ Seen /\ Mirrored
  BY DEF IInv
<1>2. CallOnly /\ UNCHANGED <<answer, late, file, writer, mirror, broken>>
  BY DEF ToolReads, Goto
<1>3. UNCHANGED <<pc, calls, base, batchVars>> /\ Calls' = Calls
  BY <1>2 DEF CallOnly, loopVars, Calls
<1>4. /\ ex[c] = "running" /\ calls[c] = "read"
      /\ ex' = [ex EXCEPT ![c] = "ran"] /\ saw' = [saw EXCEPT ![c] = writer]
  BY DEF ToolReads, Goto
<1>5. ex'[c] = "ran" /\ \A d \in Calls : d # c => ex'[d] = ex[d]
  BY <1>1, <1>4 DEF TypeOK
<1>6. saw'[c] = writer /\ \A d \in Calls : d # c => saw'[d] = saw[d]
  BY <1>1, <1>4 DEF TypeOK
<1>7. /\ Len(calls) \in Nat /\ Len(calls') \in Nat /\ Len(calls) <= Len(calls')
      /\ writer \in 0..Len(calls) /\ c \in Nat /\ answer \in [Calls -> Answers]
  BY <1>1, <1>3 DEF TypeOK, Calls, Answers
<1>8. TypeOK'
  <2>1. ex' \in [Calls -> ExStates]
    BY <1>1, <1>4 DEF TypeOK, ExStates
  <2>2. writer \in Contents
    BY <1>7 DEF Contents
  <2>3. saw' \in [Calls -> Contents]
    BY <1>1, <1>4, <2>2 DEF TypeOK
  <2>4. QED
    BY <1>1, <1>2, <1>7, <2>1, <2>3, CallTypes DEF TypeOK
<1>9. Batching'
  BY <1>1, <1>3, <1>4, BatchingStays
<1>10. Answered'
  <2>1. \A d \in Calls : (answer[d] = "none" <=> ex'[d] # "done")
    BY <1>1, <1>4, <1>5 DEF Answered
  <2>2. \A d \in Calls : calls[d] = "read" => ex'[d] \notin {"readback", "apply", "fallback"}
    BY <1>1, <1>5 DEF Answered
  <2>3. QED
    BY <1>2, <1>3, <2>1, <2>2 DEF Answered
<1>11. Changed'
  <2>1. writer # c
    BY <1>1, <1>4, <1>7 DEF Changed, Calls
  <2>2. writer # 0 => writer \in Calls
    BY <1>7 DEF Calls
  <2>3. QED
    BY <1>1, <1>2, <1>3, <1>4, <1>5, <2>1, <2>2 DEF Changed
<1>12. writer # 0 => writer \in Calls /\ writer < c /\ ex[writer] = "done"
  <2>1. SUFFICES ASSUME writer # 0
                 PROVE  writer \in Calls /\ writer < c /\ ex[writer] = "done"
    OBVIOUS
  <2>2. writer \in Calls /\ calls[writer] # "read" /\ ex[writer] # "idle" /\ writer \in Nat
    BY <1>1, <1>7, <2>1 DEF Changed, Calls, Acting
  <2>3. writer # c
    BY <1>4, <2>2
  <2>4. ~(c < writer)
    BY <1>1, <1>4, <2>2, Order
  <2>5. writer < c
    BY <1>7, <2>2, <2>3, <2>4
  <2>6. QED
    BY <1>1, <1>4, <2>2, <2>5, Order
<1>13. ASSUME writer = 0 \/ answer[writer] # "error",
              NEW k \in writer + 1 .. c - 1, calls[k] # "read"
       PROVE  answer[k] = "error"
  <2>1. k \in Calls /\ k < c /\ k > writer
    BY <1>7 DEF Calls
  <2>2. ex[k] = "done"
    BY <1>1, <1>4, <1>13, <2>1, Order
  <2>3. QED
    BY <1>1, <1>13, <2>1, <2>2 DEF Changed
<1>14. Seen'
  <2>1. SUFFICES ASSUME NEW d \in Calls, calls[d] = "read", ex'[d] = "ran" \/ answer[d] = "ok"
                 PROVE  /\ saw'[d] \in 0..Len(calls)
                        /\ saw'[d] # 0 => ex'[saw'[d]] = "done"
                        /\ InOrder(d)'
    BY <1>2, <1>3 DEF Seen
  <2>2. CASE d = c
    <3>1. writer # 0 => ex'[writer] = "done"
      BY <1>5, <1>7, <1>12
    <3>2. writer < c
      BY <1>7, <1>12 DEF Calls
    <3>3. QED
      BY <1>2, <1>3, <1>6, <1>7, <1>13, <2>2, <3>1, <3>2 DEF InOrder
  <2>3. CASE d # c
    <3>1. /\ saw[d] \in 0..Len(calls)
          /\ saw[d] # 0 => ex[saw[d]] = "done"
          /\ InOrder(d)
      BY <1>1, <1>5, <2>1, <2>3 DEF Seen
    <3>2. saw'[d] = saw[d]
      BY <1>6, <2>3
    <3>3. saw[d] # 0 => ex'[saw[d]] = "done"
      BY <1>4, <1>5, <1>7, <3>1 DEF Calls
    <3>4. QED
      BY <1>2, <1>3, <3>1, <3>2, <3>3 DEF InOrder
  <2>4. QED
    BY <2>2, <2>3
<1>15. Mirrored'
  <2>1. \A d \in Calls' : ex'[d] = "apply" => d \in Calls /\ ex[d] = "apply" /\ saw'[d] = saw[d]
    BY <1>3, <1>5, <1>6
  <2>2. \A d \in Calls' : ex'[d] = "fallback" => d \in Calls /\ ex[d] = "fallback"
    BY <1>3, <1>5
  <2>3. QED
    BY <1>1, <1>2, <2>1, <2>2, MirroredStays
<1>16. QED
  BY <1>8, <1>9, <1>10, <1>11, <1>14, <1>15 DEF IInv

(* A tool changes the file in time.                                         *)
LEMMA ToolChangesFile ==
    ASSUME IInv, NEW c \in Calls, ToolChanges(c)
    PROVE  IInv'
<1>1. TypeOK /\ Batching /\ Answered /\ Changed /\ Seen /\ Mirrored
  BY DEF IInv
<1>2. CallOnly /\ UNCHANGED <<answer, saw, late, mirror, broken>>
  BY DEF ToolChanges, Goto
<1>3. UNCHANGED <<pc, calls, base, batchVars>> /\ Calls' = Calls
  BY <1>2 DEF CallOnly, loopVars, Calls
<1>4. /\ ex[c] = "running" /\ calls[c] # "read" /\ writer' = c
      /\ ex' = [ex EXCEPT ![c] = "ran"]
      /\ file' = IF calls[c] = "remove" THEN Gone ELSE c
  BY DEF ToolChanges, Goto, Changes
<1>5. ex'[c] = "ran" /\ \A d \in Calls : d # c => ex'[d] = ex[d]
  BY <1>1, <1>4 DEF TypeOK
<1>6. /\ Len(calls) \in Nat /\ Len(calls') \in Nat /\ Len(calls) <= Len(calls')
      /\ c \in 1..Len(calls) /\ answer[c] = "none" /\ answer \in [Calls -> Answers]
  BY <1>1, <1>3, <1>4 DEF TypeOK, Calls, Answers, Answered
<1>7. TypeOK'
  <2>1. ex' \in [Calls -> ExStates]
    BY <1>1, <1>4 DEF TypeOK, ExStates
  <2>2. file' \in Contents
    BY <1>4, <1>6 DEF Contents
  <2>3. writer' \in 0..Len(calls)
    BY <1>4, <1>6
  <2>4. QED
    BY <1>1, <1>2, <1>6, <2>1, <2>2, <2>3, CallTypes DEF TypeOK
<1>8. Batching'
  BY <1>1, <1>3, <1>4, BatchingStays
<1>9. Answered'
  BY <1>1, <1>2, <1>3, <1>4, <1>5 DEF Answered
<1>10. Changed'
  <2>1. \A d \in late' : calls'[d] # "read" /\ ex'[d] = "done" /\ answer'[d] = "error"
    <3>1. \A d \in late : d \in Calls /\ ex[d] = "done"
      BY <1>1 DEF TypeOK, Changed
    <3>2. QED
      BY <1>1, <1>2, <1>3, <1>4, <1>5, <3>1 DEF Changed
  <2>2. ASSUME NEW d \in Calls, d # c, calls[d] # "read", ex'[d] \in Acting
        PROVE  FALSE
    <3>1. ex[d] \in Acting
      BY <1>5, <2>2
    <3>2. d < c => ex[d] = "done"
      BY <1>1, <1>4, <2>2, Order
    <3>3. c < d => ex[c] = "done"
      BY <1>1, <1>4, <2>2, <3>1, Order DEF Acting
    <3>4. QED
      BY <1>4, <1>6, <2>2, <3>1, <3>2, <3>3 DEF Acting, Calls
  <2>3. ASSUME NEW k \in Calls, k > c, ex'[k] = "done", calls[k] # "read"
        PROVE  FALSE
    <3>1. ex[k] = "done"
      BY <1>5, <1>6, <2>3 DEF Calls
    <3>2. ex[c] = "done"
      BY <1>1, <1>4, <2>3, <3>1, Order
    <3>3. QED
      BY <1>4, <3>2
  <2>4. QED
    BY <1>2, <1>3, <1>4, <1>5, <2>1, <2>2, <2>3 DEF Changed, Acting
<1>11. Seen'
  <2>1. \A d \in Calls : ex[d] = "done" => ex'[d] = "done" /\ answer'[d] = answer[d]
    BY <1>2, <1>4, <1>5
  <2>2. \A d \in Calls' : calls'[d] = "read" /\ (ex'[d] = "ran" \/ answer'[d] = "ok") =>
           d \in Calls /\ saw'[d] = saw[d] /\ (ex[d] = "ran" \/ answer[d] = "ok")
    BY <1>2, <1>3, <1>4, <1>5
  <2>3. QED
    BY <1>1, <1>3, <1>6, <2>1, <2>2, SeenStays
<1>12. Mirrored'
  BY <1>2, <1>3, <1>4, <1>5, <1>6 DEF Mirrored, MirrorFresh
<1>13. QED
  BY <1>7, <1>8, <1>9, <1>10, <1>11, <1>12 DEF IInv

(* A tool that has timed out changes the file: everyone knows that it was   *)
(* answered with an error.                                                  *)
LEMMA LateToolChangesFile ==
    ASSUME IInv, NEW c \in Calls, LateChange(c)
    PROVE  IInv'
<1>1. TypeOK /\ Batching /\ Answered /\ Changed /\ Seen /\ Mirrored
  BY DEF IInv
<1>2. CallOnly /\ UNCHANGED <<ex, answer, saw, mirror, broken>>
  BY DEF LateChange
<1>3. UNCHANGED <<pc, calls, base, next, window, results>> /\ Calls' = Calls
  BY <1>2 DEF CallOnly, loopVars, batchVars, Calls
<1>4. /\ c \in late /\ late' = late \ {c} /\ writer' = c
      /\ file' = IF calls[c] = "remove" THEN Gone ELSE c
  BY DEF LateChange, Changes
<1>5. calls[c] # "read" /\ ex[c] = "done" /\ answer[c] = "error"
  BY <1>1, <1>4 DEF Changed
<1>6. c \in 1..Len(calls) /\ Len(calls) \in Nat
  BY <1>1 DEF TypeOK, Calls
<1>7. TypeOK'
  <2>1. file' \in Contents
    BY <1>4, <1>6 DEF Contents
  <2>2. writer' \in 0..Len(calls)
    BY <1>4, <1>6
  <2>3. late' \subseteq Calls /\ ex' \in [Calls -> ExStates] /\ answer' \in [Calls -> Answers]
    BY <1>1, <1>2, <1>4 DEF TypeOK, ExStates, Answers
  <2>4. QED
    BY <1>1, <1>2, <2>1, <2>2, <2>3, CallTypes DEF TypeOK
<1>8. Batching' /\ Answered' /\ Seen'
  BY <1>1, <1>2, <1>3 DEF Batching, Answered, Seen, InOrder, Settled
<1>9. Changed'
  BY <1>1, <1>2, <1>3, <1>4, <1>5, <1>6 DEF Changed
<1>10. Mirrored'
  BY <1>2, <1>3, <1>4, <1>5, <1>6 DEF Mirrored, MirrorFresh
<1>11. QED
  BY <1>7, <1>8, <1>9, <1>10 DEF IInv

(* The steps that mirror a change: all but what the graph shows.            *)
LEMMA MirrorFrame ==
    ASSUME IInv, NEW c \in Calls, NEW e \in {"apply", "fallback", "done"}, NEW a \in Answers,
           ex[c] \in {"readback", "apply", "fallback"}, CallOnly,
           UNCHANGED <<late, file, writer>>, mirror' \in Contents, broken' \in BOOLEAN,
           saw' \in [Calls -> Contents], \A d \in Calls : d # c => saw'[d] = saw[d],
           ex' = [ex EXCEPT ![c] = e], answer' = [answer EXCEPT ![c] = a],
           a = "none" <=> e # "done"
    PROVE  TypeOK' /\ Batching' /\ Answered' /\ Changed' /\ Seen'
<1>1. TypeOK /\ Batching /\ Answered /\ Changed /\ Seen
  BY DEF IInv
<1>2. UNCHANGED <<pc, calls, base, batchVars>> /\ Calls' = Calls
  BY DEF CallOnly, loopVars, Calls
<1>3. ex'[c] = e /\ \A d \in Calls : d # c => ex'[d] = ex[d]
  BY <1>1 DEF TypeOK
<1>4. answer'[c] = a /\ \A d \in Calls : d # c => answer'[d] = answer[d]
  BY <1>1 DEF TypeOK
<1>5. Len(calls) \in Nat /\ Len(calls') \in Nat /\ Len(calls) <= Len(calls')
  BY <1>1, <1>2 DEF TypeOK
<1>6. calls[c] # "read"
  BY <1>1 DEF Answered
<1>7. TypeOK'
  <2>1. ex' \in [Calls -> ExStates]
    BY <1>1 DEF TypeOK, ExStates
  <2>2. answer' \in [Calls -> Answers]
    BY <1>1 DEF TypeOK, Answers
  <2>3. late' \subseteq Calls /\ file' \in Contents /\ writer' \in 0..Len(calls)
    BY <1>1 DEF TypeOK
  <2>4. QED
    BY <1>1, <2>1, <2>2, <2>3, CallTypes
<1>8. Batching'
  <2>1. ex[c] \notin {"idle", "done"} /\ e # "idle"
    OBVIOUS
  <2>2. QED
    BY <1>1, <1>2, <2>1, BatchingStays
<1>9. Answered'
  BY <1>1, <1>2, <1>6, AnsweredStays
<1>10. \A d \in Calls : ex[d] = "done" => ex'[d] = "done" /\ answer'[d] = answer[d]
  BY <1>3, <1>4
<1>11. Changed'
  <2>1. \A d \in Calls : ex[d] \in Acting => ex'[d] \in Acting \cup {"done"}
    BY <1>3 DEF Acting
  <2>2. \A d \in Calls' : calls'[d] # "read" /\ ex'[d] \in Acting => d \in Calls /\ ex[d] \in Acting
    BY <1>2, <1>3 DEF Acting
  <2>3. \A d \in Calls' : ex'[d] = "done" =>
           d \in Calls /\ (ex[d] = "done" \/ answer'[d] = "error" \/ ex[d] \in Acting
                           \/ calls[d] = "read")
    BY <1>2, <1>3 DEF Acting
  <2>4. QED
    BY <1>1, <1>2, <1>5, <1>10, <2>1, <2>2, <2>3, ChangedStays
<1>12. Seen'
  <2>1. \A d \in Calls' : calls'[d] = "read" /\ (ex'[d] = "ran" \/ answer'[d] = "ok") =>
           d \in Calls /\ saw'[d] = saw[d] /\ (ex[d] = "ran" \/ answer[d] = "ok")
    BY <1>2, <1>3, <1>4, <1>6
  <2>2. QED
    BY <1>1, <1>2, <1>5, <1>10, <2>1, SeenStays
<1>13. QED
  BY <1>7, <1>8, <1>9, <1>11, <1>12

(* The file is read back, the graph is updated or throws.                   *)
LEMMA MirrorSteps ==
    ASSUME IInv, NEW c \in Calls,
           ReadBack(c) \/ Apply(c) \/ ApplyThrows(c) \/ Fallback(c) \/ FallbackThrows(c)
    PROVE  IInv'
<1>1. TypeOK /\ Batching /\ Answered /\ Changed /\ Seen /\ Mirrored
  BY DEF IInv
<1>2. /\ ex \in [Calls -> ExStates] /\ answer \in [Calls -> Answers] /\ saw \in [Calls -> Contents]
      /\ file \in Contents /\ mirror \in Contents /\ broken \in BOOLEAN /\ Gone \in Contents
      /\ writer \in 0..Len(calls) /\ Len(calls) \in Nat
  BY <1>1 DEF TypeOK, ExStates, Answers, Contents
<1>3. ex[c] # "done" => answer = [answer EXCEPT ![c] = "none"]
  BY <1>1, <1>2 DEF Answered
<1>4. ex[c] \in Acting /\ calls[c] # "read" =>
         writer = c \/ (writer \in Calls /\ answer[writer] = "error")
  BY <1>1, <1>2 DEF Changed, Calls
<1>5. ex[c] \in {"readback", "apply", "fallback"} => calls[c] # "read"
  BY <1>1 DEF Answered
<1>6. CallOnly => Calls' = Calls
  BY DEF CallOnly, loopVars, Calls
<1>7. CASE ReadBack(c)
  <2>1. /\ ex[c] = "readback" /\ CallOnly /\ UNCHANGED <<answer, late, file, writer, mirror, broken>>
        /\ ex' = [ex EXCEPT ![c] = IF file = Gone THEN "fallback" ELSE "apply"]
        /\ saw' = [saw EXCEPT ![c] = file]
    BY <1>7 DEF ReadBack, Goto
  <2>2. answer' = [answer EXCEPT ![c] = "none"]
    BY <1>3, <2>1
  <2>3. saw' \in [Calls -> Contents] /\ \A d \in Calls : d # c => saw'[d] = saw[d]
    BY <1>2, <2>1
  <2>4. TypeOK' /\ Batching' /\ Answered' /\ Changed' /\ Seen'
    <3>1. CASE file = Gone
      <4>1. ex' = [ex EXCEPT ![c] = "fallback"]
        BY <2>1, <3>1
      <4>2. QED
        BY <1>2, <2>1, <2>2, <2>3, <4>1, MirrorFrame DEF Answers
    <3>2. CASE file # Gone
      <4>1. ex' = [ex EXCEPT ![c] = "apply"]
        BY <2>1, <3>2
      <4>2. QED
        BY <1>2, <2>1, <2>2, <2>3, <4>1, MirrorFrame DEF Answers
    <3>3. QED
      BY <3>1, <3>2
  <2>5. Mirrored'
    BY <1>1, <1>2, <1>6, <2>1 DEF Mirrored, MirrorFresh
  <2>6. QED
    BY <2>4, <2>5 DEF IInv
<1>8. CASE Apply(c)
  <2>1. /\ ex[c] = "apply" /\ CallOnly /\ UNCHANGED <<saw, late, file, writer, broken>>
        /\ ex' = [ex EXCEPT ![c] = "done"] /\ answer' = [answer EXCEPT ![c] = "ok"]
        /\ mirror' = saw[c]
    BY <1>8 DEF Apply, Finish
  <2>2. TypeOK' /\ Batching' /\ Answered' /\ Changed' /\ Seen'
    BY <1>2, <2>1, MirrorFrame DEF Answers
  <2>3. ex'[c] = "done" /\ \A d \in Calls : d # c => ex'[d] = ex[d] /\ answer'[d] = answer[d]
    BY <1>2, <2>1
  <2>4. writer = c => mirror' = file
    BY <1>1, <2>1 DEF Mirrored
  <2>5. writer # c => writer # 0 /\ answer'[writer] = "error"
    BY <1>4, <1>5, <2>1, <2>3 DEF Acting, Calls
  <2>6. MirrorFresh'
    BY <2>1, <2>4, <2>5 DEF MirrorFresh
  <2>7. Mirrored'
    BY <1>1, <1>6, <2>1, <2>3, <2>6 DEF Mirrored
  <2>8. QED
    BY <2>2, <2>7 DEF IInv
<1>9. CASE ApplyThrows(c)
  <2>1. /\ ex[c] = "apply" /\ CallOnly /\ UNCHANGED <<answer, saw, late, file, writer, mirror>>
        /\ ex' = [ex EXCEPT ![c] = "fallback"] /\ broken' = TRUE
    BY <1>9 DEF ApplyThrows, Goto
  <2>2. answer' = [answer EXCEPT ![c] = "none"]
    BY <1>3, <2>1
  <2>3. TypeOK' /\ Batching' /\ Answered' /\ Changed' /\ Seen'
    BY <1>2, <2>1, <2>2, MirrorFrame DEF Answers
  <2>4. Mirrored'
    BY <1>1, <1>2, <1>6, <2>1 DEF Mirrored, MirrorFresh
  <2>5. QED
    BY <2>3, <2>4 DEF IInv
<1>10. CASE Fallback(c)
  <2>1. /\ ex[c] = "fallback" /\ CallOnly /\ UNCHANGED <<saw, late, file, writer, broken>>
        /\ ex' = [ex EXCEPT ![c] = "done"] /\ answer' = [answer EXCEPT ![c] = "ok"]
        /\ mirror' = Gone
    BY <1>10 DEF Fallback, Finish, Forget
  <2>2. TypeOK' /\ Batching' /\ Answered' /\ Changed' /\ Seen'
    BY <1>2, <2>1, MirrorFrame DEF Answers
  <2>3. ex'[c] = "done" /\ \A d \in Calls : d # c => ex'[d] = ex[d] /\ answer'[d] = answer[d]
    BY <1>2, <2>1
  <2>4. writer = c /\ ~broken => mirror' = file
    BY <1>1, <2>1 DEF Mirrored
  <2>5. writer # c => writer # 0 /\ answer'[writer] = "error"
    BY <1>4, <1>5, <2>1, <2>3 DEF Acting, Calls
  <2>6. MirrorFresh'
    BY <2>1, <2>4, <2>5 DEF MirrorFresh
  <2>7. Mirrored'
    BY <1>1, <1>6, <2>1, <2>3, <2>6 DEF Mirrored
  <2>8. QED
    BY <2>2, <2>7 DEF IInv
<1>11. CASE FallbackThrows(c)
  <2>1. /\ ex[c] = "fallback" /\ CallOnly /\ UNCHANGED <<saw, late, file, writer, mirror>>
        /\ ex' = [ex EXCEPT ![c] = "done"] /\ answer' = [answer EXCEPT ![c] = "error"]
        /\ broken' = TRUE
    BY <1>11 DEF FallbackThrows, Finish
  <2>2. TypeOK' /\ Batching' /\ Answered' /\ Changed' /\ Seen'
    BY <1>2, <2>1, MirrorFrame DEF Answers
  <2>3. Mirrored'
    BY <1>1, <1>2, <1>6, <2>1 DEF Mirrored, MirrorFresh
  <2>4. QED
    BY <2>2, <2>3 DEF IInv
<1>12. QED
  BY <1>7, <1>8, <1>9, <1>10, <1>11

-----------------------------------------------------------------------------
(* The steps of a round                                                     *)

(* Starting a call and taking results changes no answer.                    *)
LEMMA RoundFrame ==
    ASSUME IInv, UNCHANGED <<loopVars, answer, saw, late, file, writer, mirror, broken>>,
           ex' = ex \/ \E c \in Calls : ex[c] = "idle" /\ ex' = [ex EXCEPT ![c] = "checked"]
    PROVE  Answered' /\ Changed' /\ Seen' /\ Mirrored' /\ ex' \in [Calls -> ExStates]
<1>1. TypeOK /\ Answered /\ Changed /\ Seen /\ Mirrored
  BY DEF IInv
<1>2. UNCHANGED <<pc, calls, base>> /\ Calls' = Calls
  BY DEF loopVars, Calls
<1>3. \A d \in Calls : ex'[d] = ex[d] \/ (ex[d] = "idle" /\ ex'[d] = "checked")
  BY <1>1 DEF TypeOK
<1>4. Len(calls) \in Nat /\ Len(calls') \in Nat /\ Len(calls) <= Len(calls')
  BY <1>1, <1>2 DEF TypeOK
<1>5. \A d \in Calls : ex[d] = "done" => ex'[d] = "done" /\ answer'[d] = answer[d]
  BY <1>3
<1>6. Answered'
  BY <1>1, <1>2, <1>3 DEF Answered
<1>7. Changed'
  <2>1. \A d \in Calls : ex[d] \in Acting => ex'[d] \in Acting \cup {"done"}
    BY <1>3 DEF Acting
  <2>2. \A d \in Calls' : calls'[d] # "read" /\ ex'[d] \in Acting => d \in Calls /\ ex[d] \in Acting
    BY <1>2, <1>3 DEF Acting
  <2>3. \A d \in Calls' : ex'[d] = "done" => d \in Calls /\ ex[d] = "done"
    BY <1>2, <1>3
  <2>4. QED
    BY <1>1, <1>2, <1>4, <1>5, <2>1, <2>2, <2>3, ChangedStays
<1>8. Seen'
  <2>1. \A d \in Calls' : calls'[d] = "read" /\ (ex'[d] = "ran" \/ answer'[d] = "ok") =>
           d \in Calls /\ saw'[d] = saw[d] /\ (ex[d] = "ran" \/ answer[d] = "ok")
    BY <1>2, <1>3
  <2>2. QED
    BY <1>1, <1>2, <1>4, <1>5, <2>1, SeenStays
<1>9. Mirrored'
  <2>1. \A d \in Calls' : ex'[d] = "apply" => d \in Calls /\ ex[d] = "apply" /\ saw'[d] = saw[d]
    BY <1>2, <1>3
  <2>2. \A d \in Calls' : ex'[d] = "fallback" => d \in Calls /\ ex[d] = "fallback"
    BY <1>2, <1>3
  <2>3. QED
    BY <1>1, <2>1, <2>2, MirroredStays
<1>10. ex' \in [Calls -> ExStates]
  BY <1>1 DEF TypeOK, ExStates
<1>11. QED
  BY <1>6, <1>7, <1>8, <1>9, <1>10

(* The types of what executeBatch changes.                                  *)
LEMMA RoundTypes ==
    ASSUME TypeOK, UNCHANGED <<loopVars, answer, saw, late, file, writer, mirror, broken>>,
           ex' \in [Calls -> ExStates], next' \in base + 1 .. Len(calls) + 1,
           window' \in Seq(base + 1 .. Len(calls)), Len(window') <= MaxParallelReads,
           Len(results') <= Len(calls) - base, \A i \in DOMAIN results' : results'[i] = base + i
    PROVE  TypeOK'
<1>1. UNCHANGED <<pc, status, turn, rounds, calls, base>> /\ Calls' = Calls /\ Contents' = Contents
  BY DEF loopVars, Calls, Contents
<1>2. QED
  BY <1>1 DEF TypeOK, ExStates

(* The numbers of a round.                                                  *)
LEMMA RoundNumbers ==
    ASSUME TypeOK, Batching
    PROVE  /\ Len(calls) \in Nat /\ base \in Nat /\ Len(results) \in Nat /\ next \in Nat
           /\ Len(window) \in Nat /\ Settled \in Nat /\ Settled + Len(window) = next - 1
           /\ next <= Len(calls) + 1 /\ base < next /\ window \in Seq(base + 1 .. Len(calls))
           /\ results \in Seq(Nat)
<1>1. base \in Nat /\ next \in Nat /\ Len(calls) \in Nat /\ next <= Len(calls) + 1 /\ base < next
  BY DEF TypeOK
<1>2. results \in Seq(Nat) /\ Len(results) \in Nat
  BY DEF Batching
<1>3. window \in Seq(base + 1 .. Len(calls)) /\ Len(window) \in Nat
  BY DEF TypeOK
<1>4. QED
  BY <1>1, <1>2, <1>3 DEF Batching, Settled

(* A read joins the window.                                                 *)
LEMMA ReadJoins ==
    ASSUME IInv, LaunchRead
    PROVE  IInv'
<1>1. TypeOK /\ Batching
  BY DEF IInv
<1>2. UNCHANGED <<loopVars, answer, saw, late, file, writer, mirror, broken>>
  BY DEF LaunchRead, BatchOnly
<1>3. UNCHANGED <<pc, calls, base>> /\ Calls' = Calls
  BY <1>2 DEF loopVars, Calls
<1>4. /\ pc = "batch" /\ next \in Calls /\ calls[next] = "read" /\ ~(Len(window) >= MaxParallelReads)
      /\ ex' = [ex EXCEPT ![next] = "checked"] /\ window' = Append(window, next)
      /\ next' = next + 1 /\ results' = results
  BY DEF LaunchRead, AtRead, WindowFull
<1>5. ex[next] = "idle"
  BY <1>1, <1>4 DEF Batching
<1>6. /\ Len(calls) \in Nat /\ base \in Nat /\ Len(results) \in Nat /\ next \in Nat
      /\ Len(window) \in Nat /\ Settled \in Nat /\ Settled + Len(window) = next - 1
      /\ next <= Len(calls) + 1 /\ base < next /\ window \in Seq(base + 1 .. Len(calls))
      /\ results \in Seq(Nat)
  BY <1>1, RoundNumbers
<1>7. Answered' /\ Changed' /\ Seen' /\ Mirrored' /\ ex' \in [Calls -> ExStates]
  BY <1>2, <1>4, <1>5, RoundFrame
<1>8. next <= Len(calls) /\ next \in base + 1 .. Len(calls)
  BY <1>4, <1>6 DEF Calls
<1>9. /\ window' \in Seq(base + 1 .. Len(calls)) /\ Len(window') = Len(window) + 1
      /\ \A i \in 1..Len(window) : window'[i] = window[i]
      /\ window'[Len(window) + 1] = next
  BY <1>4, <1>6, <1>8
<1>10. MaxParallelReads \in Nat
  BY ToolLoopAssumption
<1>11. TypeOK'
  <2>1. next' \in base + 1 .. Len(calls) + 1
    BY <1>4, <1>6, <1>8
  <2>2. Len(window') <= MaxParallelReads
    BY <1>4, <1>6, <1>9, <1>10
  <2>3. Len(results') <= Len(calls) - base /\ \A i \in DOMAIN results' : results'[i] = base + i
    BY <1>1, <1>4 DEF TypeOK
  <2>4. QED
    BY <1>1, <1>2, <1>7, <1>9, <2>1, <2>2, <2>3, RoundTypes
<1>12. ex'[next] = "checked" /\ \A d \in Calls : d # next => ex'[d] = ex[d]
  BY <1>1, <1>4 DEF TypeOK
<1>13. Settled' = Settled
  BY <1>3, <1>4 DEF Settled
<1>14. Batching'
  <2>1. results' \in Seq(Nat)
    BY <1>4, <1>6
  <2>2. Len(results') + Len(window') = next' - 1 - base'
    <3>1. Len(results') = Len(results) /\ Settled = base + Len(results)
      BY <1>4 DEF Settled
    <3>2. base' = base /\ next' = next + 1 /\ Len(window') = Len(window) + 1
      BY <1>3, <1>4, <1>9
    <3>3. QED
      BY <1>6, <3>1, <3>2
  <2>3. ASSUME NEW i \in 1..Len(window')
        PROVE  window'[i] = Settled + i
    <3>1. CASE i \in 1..Len(window)
      BY <1>1, <1>9, <3>1 DEF Batching
    <3>2. CASE i = Len(window) + 1
      BY <1>6, <1>9, <3>2
    <3>3. QED
      BY <1>6, <1>9, <3>1, <3>2
  <2>4. \A d \in Calls : d <= Settled => ex'[d] = "done"
    BY <1>1, <1>6, <1>12 DEF Batching
  <2>5. \A d \in Calls : d > Settled /\ d < next + 1 => calls[d] = "read" /\ ex'[d] # "idle"
    <3>1. \A d \in Calls : d \in Nat
      BY DEF Calls
    <3>2. QED
      BY <1>1, <1>4, <1>6, <1>12, <3>1 DEF Batching
  <2>6. \A d \in Calls : d >= next + 1 => ex'[d] = "idle"
    <3>1. \A d \in Calls : d \in Nat
      BY DEF Calls
    <3>2. QED
      BY <1>1, <1>6, <1>12, <3>1 DEF Batching
  <2>7. QED
    <3>1. \A d \in Calls : d \in Nat
      BY DEF Calls
    <3>2. \A d \in Calls : d > next' => ex'[d] = "idle"
      BY <1>4, <1>6, <2>6, <3>1
    <3>3. \A d \in Calls : d = next' => ex'[d] = "idle"
      BY <1>4, <1>6, <2>6, <3>1
    <3>4. QED
      BY <1>3, <1>4, <1>13, <2>1, <2>2, <2>3, <2>4, <2>5, <3>2, <3>3 DEF Batching
<1>15. QED
  BY <1>7, <1>11, <1>14 DEF IInv

(* The results of the window are taken.                                     *)
LEMMA ReadsFlushed ==
    ASSUME IInv, FlushReads
    PROVE  IInv'
<1>1. TypeOK /\ Batching
  BY DEF IInv
<1>2. UNCHANGED <<loopVars, answer, saw, late, file, writer, mirror, broken>>
  BY DEF FlushReads, BatchOnly
<1>3. UNCHANGED <<pc, calls, base>> /\ Calls' = Calls
  BY <1>2 DEF loopVars, Calls
<1>4. /\ pc = "batch" /\ window # <<>> /\ \A c \in ToSet(window) : ex[c] = "done"
      /\ results' = results \o window /\ window' = <<>> /\ next' = next /\ ex' = ex
  BY DEF FlushReads
<1>6. /\ Len(calls) \in Nat /\ base \in Nat /\ Len(results) \in Nat /\ next \in Nat
      /\ Len(window) \in Nat /\ Settled \in Nat /\ Settled + Len(window) = next - 1
      /\ next <= Len(calls) + 1 /\ base < next /\ window \in Seq(base + 1 .. Len(calls))
      /\ results \in Seq(Nat)
  BY <1>1, RoundNumbers
<1>7. Answered' /\ Changed' /\ Seen' /\ Mirrored' /\ ex' \in [Calls -> ExStates]
  BY <1>2, <1>4, RoundFrame
<1>8. window \in Seq(Nat)
  BY <1>6, \A i \in base + 1 .. Len(calls) : i \in Nat, SeqMonotonic
<1>9. /\ results' \in Seq(Nat) /\ Len(results') = Len(results) + Len(window)
      /\ \A i \in 1..Len(results) : results'[i] = results[i]
      /\ \A i \in 1..Len(window) : results'[Len(results) + i] = window[i]
  BY <1>4, <1>6, <1>8
<1>10. Len(window') = 0 /\ window' \in Seq(base + 1 .. Len(calls))
  BY <1>4
<1>11. Settled' = next - 1
  BY <1>3, <1>6, <1>9 DEF Settled
<1>12. TypeOK'
  <2>1. ASSUME NEW i \in 1..Len(results')
        PROVE  results'[i] = base + i
    <3>1. CASE i \in 1..Len(results)
      <4>1. i \in DOMAIN results
        BY <1>6, <3>1
      <4>2. results[i] = base + i
        BY <1>1, <4>1 DEF TypeOK
      <4>3. QED
        BY <1>9, <3>1, <4>2
    <3>2. CASE i \notin 1..Len(results)
      <4>1. i - Len(results) \in 1..Len(window)
        BY <1>6, <1>9, <3>2
      <4>2. PICK j \in 1..Len(window) : j = i - Len(results)
        BY <4>1
      <4>3. i = Len(results) + j
        BY <1>6, <4>2
      <4>4. results'[i] = window[j]
        BY <1>9, <4>3
      <4>5. window[j] = Settled + j
        BY <1>1 DEF Batching
      <4>6. QED
        BY <1>6, <4>3, <4>4, <4>5 DEF Settled
    <3>3. QED
      BY <3>1, <3>2
  <2>2. DOMAIN results' = 1..Len(results')
    BY <1>9
  <2>3. Len(results') <= Len(calls) - base
    BY <1>6, <1>9 DEF Settled
  <2>4. next' \in base + 1 .. Len(calls) + 1 /\ Len(window') <= MaxParallelReads
    BY <1>4, <1>6, <1>10, ToolLoopAssumption
  <2>5. QED
    BY <1>1, <1>2, <1>7, <1>10, <2>1, <2>2, <2>3, <2>4, RoundTypes
<1>13. ASSUME NEW d \in Calls, d <= next - 1
       PROVE  ex[d] = "done"
  <2>1. CASE d <= Settled
    BY <1>1, <2>1 DEF Batching
  <2>2. CASE ~(d <= Settled)
    <3>1. d \in Nat
      BY DEF Calls
    <3>2. d - Settled \in 1..Len(window)
      BY <1>6, <1>13, <2>2, <3>1
    <3>3. window[d - Settled] = Settled + (d - Settled)
      BY <1>1, <3>2 DEF Batching
    <3>4. window[d - Settled] = d
      BY <1>6, <3>1, <3>3
    <3>5. d \in ToSet(window)
      BY <1>6, <3>2, <3>4 DEF ToSet
    <3>6. QED
      BY <1>4, <3>5
  <2>3. QED
    BY <2>1, <2>2
<1>14. Batching'
  <2>1. Len(results') + Len(window') = next' - 1 - base'
    BY <1>3, <1>4, <1>6, <1>9, <1>10 DEF Settled
  <2>2. \A d \in Calls : d > Settled' /\ d < next' => FALSE
    BY <1>4, <1>6, <1>11 DEF Calls
  <2>3. \A d \in Calls : d <= Settled' => ex[d] = "done"
    BY <1>11, <1>13
  <2>4. \A d \in Calls' : d = next' /\ (calls'[d] = "read" \/ window' # <<>>) => ex'[d] = "idle"
    BY <1>1, <1>3, <1>4 DEF Batching
  <2>5. \A d \in Calls' : d > next' => ex'[d] = "idle"
    BY <1>1, <1>3, <1>4 DEF Batching
  <2>6. \A i \in 1..Len(window') : window'[i] = Settled' + i
    BY <1>10
  <2>7. pc' = "batch"
    BY <1>3, <1>4
  <2>8. QED
    BY <1>3, <1>4, <1>9, <2>1, <2>2, <2>3, <2>4, <2>5, <2>6, <2>7 DEF Batching
<1>15. QED
  BY <1>7, <1>12, <1>14 DEF IInv

(* Another call starts, alone.                                              *)
LEMMA ChangeStarts ==
    ASSUME IInv, LaunchChange
    PROVE  IInv'
<1>1. TypeOK /\ Batching
  BY DEF IInv
<1>2. UNCHANGED <<loopVars, answer, saw, late, file, writer, mirror, broken>>
  BY DEF LaunchChange, LaunchAnyway, BatchOnly
<1>3. UNCHANGED <<pc, calls, base, next, window, results>> /\ Calls' = Calls /\ Settled' = Settled
  BY <1>2 DEF LaunchChange, LaunchAnyway, batchVars, loopVars, Calls, Settled
<1>4. /\ pc = "batch" /\ next \in Calls /\ calls[next] # "read" /\ ex[next] = "idle"
      /\ window = <<>> /\ ex' = [ex EXCEPT ![next] = "checked"]
  BY DEF LaunchChange, LaunchAnyway, AtChange
<1>5. Answered' /\ Changed' /\ Seen' /\ Mirrored' /\ ex' \in [Calls -> ExStates]
  BY <1>2, <1>4, RoundFrame
<1>6. TypeOK'
  BY <1>1, <1>2, <1>3, <1>5, RoundTypes DEF TypeOK
<1>7. ex'[next] = "checked" /\ \A d \in Calls : d # next => ex'[d] = ex[d]
  BY <1>1, <1>4 DEF TypeOK
<1>8. Settled \in Nat /\ next \in Nat /\ Len(window) = 0 /\ Settled = next - 1
  <2>1. Settled \in Nat /\ next \in Nat /\ Settled + Len(window) = next - 1
    BY <1>1, RoundNumbers
  <2>2. Len(window) = 0
    BY <1>4
  <2>3. QED
    BY <2>1, <2>2
<1>9. Batching'
  <2>1. \A d \in Calls : d <= Settled => ex'[d] = "done"
    BY <1>1, <1>7, <1>8 DEF Batching
  <2>2. \A d \in Calls : d > Settled /\ d < next => FALSE
    BY <1>8 DEF Calls
  <2>3. \A d \in Calls : d > next => ex'[d] = "idle"
    BY <1>1, <1>7, <1>8 DEF Batching
  <2>4. QED
    BY <1>1, <1>3, <1>4, <2>1, <2>2, <2>3 DEF Batching
<1>10. QED
  BY <1>5, <1>6, <1>9 DEF IInv

(* The result of a call that was alone is taken.                            *)
LEMMA ChangeYields ==
    ASSUME IInv, YieldChange
    PROVE  IInv'
<1>1. TypeOK /\ Batching
  BY DEF IInv
<1>2. UNCHANGED <<loopVars, answer, saw, late, file, writer, mirror, broken>>
  BY DEF YieldChange, BatchOnly
<1>3. UNCHANGED <<pc, calls, base>> /\ Calls' = Calls
  BY <1>2 DEF loopVars, Calls
<1>4. /\ pc = "batch" /\ next \in Calls /\ window = <<>> /\ ex[next] = "done"
      /\ results' = Append(results, next) /\ next' = next + 1 /\ window' = window /\ ex' = ex
  BY DEF YieldChange, AtChange
<1>5. Answered' /\ Changed' /\ Seen' /\ Mirrored' /\ ex' \in [Calls -> ExStates]
  BY <1>2, <1>4, RoundFrame
<1>6. /\ Len(calls) \in Nat /\ base \in Nat /\ Len(results) \in Nat /\ next \in Nat
      /\ Settled \in Nat /\ Settled + Len(window) = next - 1 /\ results \in Seq(Nat)
  BY <1>1, RoundNumbers
<1>7. Len(window) = 0 /\ window' = <<>> /\ Len(window') = 0
  BY <1>4
<1>8. Settled = next - 1 /\ next <= Len(calls) /\ next = base + Len(results) + 1
  BY <1>4, <1>6, <1>7 DEF Calls, Settled
<1>9. /\ results' \in Seq(Nat) /\ Len(results') = Len(results) + 1
      /\ \A i \in 1..Len(results) : results'[i] = results[i]
      /\ results'[Len(results) + 1] = next
  BY <1>4, <1>6
<1>10. TypeOK'
  <2>1. ASSUME NEW i \in 1..Len(results')
        PROVE  results'[i] = base + i
    <3>1. CASE i \in 1..Len(results)
      <4>1. i \in DOMAIN results
        BY <1>6, <3>1
      <4>2. results[i] = base + i
        BY <1>1, <4>1 DEF TypeOK
      <4>3. QED
        BY <1>9, <3>1, <4>2
    <3>2. CASE i = Len(results) + 1
      BY <1>6, <1>8, <1>9, <3>2
    <3>3. QED
      BY <1>6, <1>9, <3>1, <3>2
  <2>2. DOMAIN results' = 1..Len(results')
    BY <1>9
  <2>3. Len(results') <= Len(calls) - base
    BY <1>6, <1>8, <1>9
  <2>4. next' \in base + 1 .. Len(calls) + 1
    BY <1>4, <1>6, <1>8
  <2>5. window' \in Seq(base + 1 .. Len(calls)) /\ Len(window') <= MaxParallelReads
    BY <1>1, <1>4 DEF TypeOK
  <2>6. QED
    BY <1>1, <1>2, <1>5, <2>1, <2>2, <2>3, <2>4, <2>5, RoundTypes
<1>11. Settled' = next
  BY <1>3, <1>6, <1>8, <1>9 DEF Settled
<1>12. Batching'
  <2>1. \A d \in Calls : d \in Nat
    BY DEF Calls
  <2>2. Len(results') + Len(window') = next' - 1 - base'
    BY <1>3, <1>4, <1>6, <1>7, <1>8, <1>9
  <2>3. \A d \in Calls : d <= next => ex[d] = "done"
    BY <1>1, <1>4, <1>6, <1>8, <2>1 DEF Batching
  <2>4. \A d \in Calls : d > next /\ d < next' => FALSE
    BY <1>4, <1>6, <2>1
  <2>5. \A d \in Calls : d >= next' => ex[d] = "idle"
    BY <1>1, <1>4, <1>6, <2>1 DEF Batching
  <2>6. \A d \in Calls : (d > next' => ex[d] = "idle") /\ (d = next' => ex[d] = "idle")
    BY <1>4, <1>6, <2>1, <2>5
  <2>7. \A i \in 1..Len(window') : window'[i] = Settled' + i
    BY <1>7
  <2>8. QED
    BY <1>3, <1>4, <1>9, <1>11, <2>2, <2>3, <2>4, <2>6, <2>7 DEF Batching
<1>13. QED
  BY <1>5, <1>10, <1>12 DEF IInv

(* Answers without a round, and the end of one.                             *)
LEMMA LoopMoves ==
    ASSUME IInv, UNCHANGED <<calls, base, batchVars, toolVars>>,
           pc' \in {"turn", "ai", "ended"}, pc # "batch" \/ (next = Len(calls) + 1 /\ window = <<>>),
           status' \in {"active", "completed", "failed"}, turn' \in 0..MaxTurns, rounds' = rounds
    PROVE  IInv'
<1>1. UNCHANGED <<calls, base, next, window, results, ex, answer, saw, late, file, writer, mirror, broken>>
      /\ Calls' = Calls /\ Contents' = Contents
  BY DEF batchVars, toolVars, Calls, Contents
<1>2. TypeOK /\ Batching /\ Answered /\ Changed /\ Seen /\ Mirrored
  BY DEF IInv
<1>3. TypeOK'
  BY <1>1, <1>2 DEF TypeOK
<1>4. Batching'
  BY <1>1, <1>2 DEF Batching, Settled
<1>5. Answered' /\ Changed' /\ Seen' /\ Mirrored'
  BY <1>1, <1>2 DEF Answered, Changed, Seen, InOrder, Mirrored, MirrorFresh
<1>6. QED
  BY <1>3, <1>4, <1>5 DEF IInv

(* The steps of run() that start no round.                                  *)
LEMMA LoopSteps ==
    ASSUME IInv, StartTurn \/ EndLoop \/ NoAnswer \/ PlainAnswer \/ TooManyRounds \/ EndBatch
    PROVE  IInv'
<1>1. TypeOK
  BY DEF IInv
<1>2. MaxTurns \in Nat /\ turn \in 0..MaxTurns /\ status \in {"active", "completed", "failed"}
  BY <1>1, ToolLoopAssumption DEF TypeOK
<1>3. CASE StartTurn \/ EndLoop \/ NoAnswer \/ PlainAnswer \/ TooManyRounds
  <2>1. UNCHANGED <<calls, base, batchVars, toolVars>> /\ rounds' = rounds
    BY <1>3 DEF StartTurn, EndLoop, NoAnswer, PlainAnswer, TooManyRounds, LoopOnly
  <2>2. pc # "batch" /\ pc' \in {"turn", "ai", "ended"}
    BY <1>3 DEF StartTurn, EndLoop, NoAnswer, PlainAnswer, TooManyRounds
  <2>3. status' \in {"active", "completed", "failed"} /\ turn' \in 0..MaxTurns
    BY <1>2, <1>3 DEF StartTurn, EndLoop, NoAnswer, PlainAnswer, TooManyRounds
  <2>4. QED
    BY <2>1, <2>2, <2>3, LoopMoves
<1>4. CASE EndBatch
  BY <1>2, <1>4, LoopMoves DEF EndBatch
<1>5. QED
  BY <1>3, <1>4

(* New calls are added after the old ones, all in the same state.           *)
LEMMA Extended ==
    ASSUME NEW S, NEW f \in Seq(S), NEW h \in Seq(S)
    PROVE  /\ f \o h \in [1..Len(f) + Len(h) -> S]
           /\ \A d \in 1..Len(f) : (f \o h)[d] = f[d]
           /\ \A d \in 1..Len(f) + Len(h) : d \notin 1..Len(f) =>
                 \E i \in 1..Len(h) : (f \o h)[d] = h[i]
<1>1. Len(f) \in Nat /\ Len(h) \in Nat
  OBVIOUS
<1>2. /\ f \o h \in Seq(S) /\ Len(f \o h) = Len(f) + Len(h)
      /\ \A d \in 1..Len(f) + Len(h) : (f \o h)[d] = IF d <= Len(f) THEN f[d] ELSE h[d - Len(f)]
  BY ConcatProperties
<1>3. f \o h \in [1..Len(f) + Len(h) -> S]
  BY <1>2, LenProperties
<1>4. \A d \in 1..Len(f) : (f \o h)[d] = f[d]
  BY <1>1, <1>2
<1>5. ASSUME NEW d \in 1..Len(f) + Len(h), d \notin 1..Len(f)
      PROVE  \E i \in 1..Len(h) : (f \o h)[d] = h[i]
  <2>1. ~(d <= Len(f)) /\ d - Len(f) \in 1..Len(h)
    BY <1>1, <1>5
  <2>2. (f \o h)[d] = h[d - Len(f)]
    BY <1>2, <2>1
  <2>3. QED
    BY <2>1, <2>2
<1>6. QED
  BY <1>3, <1>4, <1>5

(* A round of calls is added; none has started.                             *)
LEMMA RoundStarts ==
    ASSUME IInv, NEW batch \in Batches, StartBatch(batch)
    PROVE  IInv'
<1>1. TypeOK /\ Batching /\ Answered /\ Changed /\ Seen /\ Mirrored
  BY DEF IInv
<1>2. batch \in Seq(Kinds) /\ Len(batch) \in Nat /\ calls \in Seq(Kinds) /\ Len(calls) \in Nat
      /\ DOMAIN batch = 1..Len(batch)
  BY <1>1, ToolLoopAssumption DEF TypeOK
<1>3. /\ pc = "ai" /\ pc' = "batch" /\ rounds < MaxToolRounds /\ rounds' = rounds + 1
      /\ calls' = calls \o batch /\ base' = Len(calls) /\ next' = Len(calls) + 1
      /\ window' = <<>> /\ results' = <<>>
      /\ ex' = ex \o [i \in DOMAIN batch |-> "idle"]
      /\ answer' = answer \o [i \in DOMAIN batch |-> "none"]
      /\ saw' = saw \o [i \in DOMAIN batch |-> 0]
      /\ UNCHANGED <<status, turn, late, file, writer, mirror, broken>>
  BY DEF StartBatch
<1>4. Len(window') = 0 /\ Len(results') = 0
  BY <1>3
<1>5. /\ calls' \in Seq(Kinds) /\ Len(calls') = Len(calls) + Len(batch)
      /\ \A d \in Calls : calls'[d] = calls[d]
  BY <1>2, <1>3 DEF Calls
<1>6. Calls' = 1 .. Len(calls) + Len(batch) /\ Len(calls') \in Nat /\ Len(calls) <= Len(calls')
      /\ Calls \subseteq Calls'
  BY <1>2, <1>5 DEF Calls
<1>7. next = Len(calls) + 1 /\ window = <<>> /\ base \in Nat /\ Len(results) \in Nat /\ Settled = Len(calls)
  <2>1. Len(window) = 0 /\ next = Len(calls) + 1 /\ window = <<>>
    BY <1>1, <1>3 DEF Batching
  <2>2. QED
    BY <1>1, <1>2, <2>1, RoundNumbers
<1>9. /\ ex' \in [Calls' -> ExStates]
      /\ \A d \in Calls : ex'[d] = ex[d]
      /\ \A d \in Calls' \ Calls : ex'[d] = "idle"
  <2>1. ex \in [1..Len(calls) -> ExStates] /\ "idle" \in ExStates
    BY <1>1 DEF TypeOK, ExStates, Calls
  <2> DEFINE h == [i \in 1..Len(batch) |-> "idle"]
  <2>2. ex \in Seq(ExStates) /\ Len(ex) = Len(calls)
    BY <1>2, <2>1
  <2>3. /\ ex' = ex \o h /\ h \in Seq(ExStates) /\ Len(h) = Len(batch)
        /\ \A i \in 1..Len(h) : h[i] = "idle"
    BY <1>2, <1>3, <2>1
  <2> HIDE DEF h
  <2>4. /\ ex' \in [1..Len(ex) + Len(h) -> ExStates]
        /\ \A d \in 1..Len(ex) : ex'[d] = ex[d]
        /\ \A d \in 1..Len(ex) + Len(h) : d \notin 1..Len(ex) => \E i \in 1..Len(h) : ex'[d] = h[i]
    BY <2>2, <2>3, Extended
  <2>5. Calls = 1..Len(calls)
    BY DEF Calls
  <2>6. QED
    BY <1>6, <2>2, <2>3, <2>4, <2>5
<1>10. /\ answer' \in [Calls' -> Answers]
       /\ \A d \in Calls : answer'[d] = answer[d]
       /\ \A d \in Calls' \ Calls : answer'[d] = "none"
  <2>1. answer \in [1..Len(calls) -> Answers] /\ "none" \in Answers
    BY <1>1 DEF TypeOK, Answers, Calls
  <2> DEFINE h == [i \in 1..Len(batch) |-> "none"]
  <2>2. answer \in Seq(Answers) /\ Len(answer) = Len(calls)
    BY <1>2, <2>1
  <2>3. /\ answer' = answer \o h /\ h \in Seq(Answers) /\ Len(h) = Len(batch)
        /\ \A i \in 1..Len(h) : h[i] = "none"
    BY <1>2, <1>3, <2>1
  <2> HIDE DEF h
  <2>4. /\ answer' \in [1..Len(answer) + Len(h) -> Answers]
        /\ \A d \in 1..Len(answer) : answer'[d] = answer[d]
        /\ \A d \in 1..Len(answer) + Len(h) : d \notin 1..Len(answer) => \E i \in 1..Len(h) : answer'[d] = h[i]
    BY <2>2, <2>3, Extended
  <2>5. Calls = 1..Len(calls)
    BY DEF Calls
  <2>6. QED
    BY <1>6, <2>2, <2>3, <2>4, <2>5
<1>11. /\ saw' \in [Calls' -> Contents]
       /\ \A d \in Calls : saw'[d] = saw[d]
  <2>1. saw \in [1..Len(calls) -> Contents] /\ 0 \in Contents
    BY <1>1, <1>2 DEF TypeOK, Contents, Calls
  <2> DEFINE h == [i \in 1..Len(batch) |-> 0]
  <2>2. saw \in Seq(Contents) /\ Len(saw) = Len(calls)
    BY <1>2, <2>1
  <2>3. /\ saw' = saw \o h /\ h \in Seq(Contents) /\ Len(h) = Len(batch)
        /\ \A i \in 1..Len(h) : h[i] = 0
    BY <1>2, <1>3, <2>1
  <2> HIDE DEF h
  <2>4. /\ saw' \in [1..Len(saw) + Len(h) -> Contents]
        /\ \A d \in 1..Len(saw) : saw'[d] = saw[d]
        /\ \A d \in 1..Len(saw) + Len(h) : d \notin 1..Len(saw) => \E i \in 1..Len(h) : saw'[d] = h[i]
    BY <2>2, <2>3, Extended
  <2>5. Calls = 1..Len(calls)
    BY DEF Calls
  <2>6. QED
    BY <1>6, <2>2, <2>3, <2>4, <2>5
<1>12. Contents \subseteq Contents'
  BY <1>2, <1>6 DEF Contents
<1>13. TypeOK'
  <2>1. saw' \in [Calls' -> Contents']
    BY <1>11, <1>12
  <2>2. file' \in Contents' /\ mirror' \in Contents' /\ broken' \in BOOLEAN
    BY <1>1, <1>3, <1>12 DEF TypeOK
  <2>3. late' \subseteq Calls' /\ writer' \in 0..Len(calls')
    BY <1>1, <1>2, <1>3, <1>6 DEF TypeOK
  <2>4. rounds' \in 0..MaxToolRounds /\ turn' \in 0..MaxTurns
        /\ status' \in {"active", "completed", "failed"}
    BY <1>1, <1>3, ToolLoopAssumption DEF TypeOK
  <2>5. base' \in 0..Len(calls') /\ next' \in base' + 1 .. Len(calls') + 1
    BY <1>2, <1>3, <1>6
  <2>6. window' \in Seq(base' + 1 .. Len(calls')) /\ Len(window') <= MaxParallelReads
    BY <1>3, <1>4, ToolLoopAssumption
  <2>7. Len(results') <= Len(calls') - base' /\ \A i \in DOMAIN results' : results'[i] = base' + i
    BY <1>2, <1>3, <1>4, <1>6
  <2>8. QED
    BY <1>3, <1>5, <1>9, <1>10, <2>1, <2>2, <2>3, <2>4, <2>5, <2>6, <2>7 DEF TypeOK, ExStates, Answers
<1>14. Batching'
  <2>1. Settled' = Len(calls) /\ results' \in Seq(Nat)
    BY <1>2, <1>3, <1>4 DEF Settled
  <2>2. \A d \in Calls : ex[d] = "done"
    BY <1>1, <1>2, <1>7 DEF Batching, Calls
  <2>3. \A d \in Calls' : d <= Len(calls) => ex'[d] = "done"
    BY <1>2, <1>6, <1>9, <2>2 DEF Calls
  <2>4. \A d \in Calls' : d > Len(calls) => ex'[d] = "idle"
    BY <1>2, <1>6, <1>9 DEF Calls
  <2>5. \A d \in Calls' : d \in Nat
    BY <1>6
  <2>6. \A d \in Calls' : ~(d > Len(calls) /\ d < next')
    BY <1>2, <1>3, <2>5
  <2>7. \A d \in Calls' : d > next' \/ d = next' => ex'[d] = "idle"
    <3>1. \A d \in Calls' : d > next' \/ d = next' => d > Len(calls)
      BY <1>2, <1>3, <2>5
    <3>2. QED
      BY <2>4, <3>1
  <2>8. Len(results') + Len(window') = next' - 1 - base'
    BY <1>2, <1>3, <1>4
  <2>9. \A i \in 1..Len(window') : window'[i] = Settled' + i
    BY <1>4
  <2>10. pc' = "batch"
    BY <1>3
  <2>11. QED
    BY <2>1, <2>3, <2>6, <2>7, <2>8, <2>9, <2>10 DEF Batching
<1>15. Answered'
  <2>1. SUFFICES ASSUME NEW d \in Calls'
                 PROVE  /\ answer'[d] = "none" <=> ex'[d] # "done"
                        /\ calls'[d] = "read" => ex'[d] \notin {"readback", "apply", "fallback"}
    BY DEF Answered
  <2>2. CASE d \in Calls
    BY <1>1, <1>5, <1>9, <1>10, <2>2 DEF Answered
  <2>3. CASE d \notin Calls
    BY <1>9, <1>10, <2>3
  <2>4. QED
    BY <2>2, <2>3
<1>16. \A d \in Calls : ex[d] = "done" => ex'[d] = "done" /\ answer'[d] = answer[d]
  BY <1>9, <1>10
<1>17. Changed'
  <2>1. \A d \in Calls : ex[d] \in Acting => ex'[d] \in Acting \cup {"done"}
    BY <1>9
  <2>2. \A d \in Calls' : calls'[d] # "read" /\ ex'[d] \in Acting => d \in Calls /\ ex[d] \in Acting
    BY <1>9 DEF Acting
  <2>3. \A d \in Calls' : ex'[d] = "done" => d \in Calls /\ ex[d] = "done"
    BY <1>9
  <2>4. late' = late /\ writer' = writer
    BY <1>3
  <2>5. QED
    BY <1>1, <1>5, <1>6, <1>16, <2>1, <2>2, <2>3, <2>4, ChangedStays
<1>18. Seen'
  <2>1. \A d \in Calls' : calls'[d] = "read" /\ (ex'[d] = "ran" \/ answer'[d] = "ok") =>
           d \in Calls /\ saw'[d] = saw[d] /\ (ex[d] = "ran" \/ answer[d] = "ok")
    BY <1>9, <1>10, <1>11
  <2>2. QED
    BY <1>1, <1>5, <1>6, <1>16, <2>1, SeenStays
<1>19. Mirrored'
  <2>1. \A d \in Calls' : ex'[d] = "apply" => d \in Calls /\ ex[d] = "apply" /\ saw'[d] = saw[d]
    BY <1>9, <1>11
  <2>2. \A d \in Calls' : ex'[d] = "fallback" => d \in Calls /\ ex[d] = "fallback"
    BY <1>9
  <2>3. writer = 0 \/ writer \in Calls
    BY <1>1, <1>2 DEF TypeOK, Calls
  <2>4. UNCHANGED <<file, writer, mirror, broken>>
    BY <1>3
  <2>5. writer = 0 \/ answer'[writer] = "ok" => writer = 0 \/ answer[writer] = "ok"
    BY <1>10, <2>3
  <2>6. QED
    BY <1>1, <2>1, <2>2, <2>4, <2>5, MirroredStays
<1>20. QED
  BY <1>13, <1>14, <1>15, <1>17, <1>18, <1>19 DEF IInv

-----------------------------------------------------------------------------
(* The invariant and the theorems                                           *)

(* Before the first turn there are no calls.                                *)
LEMMA InitInv == Init => IInv
<1>1. SUFFICES ASSUME Init PROVE IInv
  OBVIOUS
<1>2. Len(calls) = 0 /\ Len(window) = 0 /\ Len(results) = 0 /\ Len(ex) = 0 /\ Len(answer) = 0 /\ Len(saw) = 0
  BY <1>1, EmptySeq DEF Init
<1>3. Calls = {} /\ 1..0 = {}
  BY <1>2 DEF Calls
<1>4. /\ pc = "turn" /\ status = "active" /\ turn = 0 /\ rounds = 0 /\ base = 0 /\ next = 1 /\ late = {}
      /\ file = 0 /\ writer = 0 /\ mirror = 0 /\ broken = FALSE /\ window = <<>> /\ results = <<>>
      /\ calls = <<>> /\ ex = <<>> /\ answer = <<>> /\ saw = <<>>
  BY <1>1 DEF Init
<1>5. TypeOK
  <2>1. ex \in Seq(ExStates) /\ answer \in Seq(Answers) /\ saw \in Seq(Contents)
    BY <1>4, EmptySeq
  <2>2. ex \in [{} -> ExStates] /\ answer \in [{} -> Answers] /\ saw \in [{} -> Contents]
    BY <1>2, <1>3, <2>1, LenProperties
  <2>3. calls \in Seq(Kinds) /\ window \in Seq(base + 1 .. Len(calls)) /\ results \in Seq(Nat)
    BY <1>4, EmptySeq
  <2>4. DOMAIN results = {}
    BY <1>2, <1>3, <2>3, LenProperties
  <2>5. file \in Contents /\ mirror \in Contents
    BY <1>2, <1>4 DEF Contents
  <2>6. turn \in 0..MaxTurns /\ rounds \in 0..MaxToolRounds /\ Len(window) <= MaxParallelReads
    BY <1>2, <1>4, ToolLoopAssumption
  <2>7. base \in 0..Len(calls) /\ next \in base + 1 .. Len(calls) + 1 /\ writer \in 0..Len(calls)
        /\ Len(results) <= Len(calls) - base
    BY <1>2, <1>4
  <2>8. QED
    BY <1>3, <1>4, <2>2, <2>3, <2>4, <2>5, <2>6, <2>7 DEF TypeOK, ExStates, Answers
<1>6. Batching
  <2>1. results \in Seq(Nat)
    BY <1>4, EmptySeq
  <2>2. 1..Len(window) = {}
    BY <1>2, <1>3
  <2>3. next = Len(calls) + 1 /\ Len(results) + Len(window) = next - 1 - base
    BY <1>2, <1>4
  <2>4. QED
    BY <1>3, <1>4, <2>1, <2>2, <2>3 DEF Batching
<1>7. Answered /\ Seen
  BY <1>3 DEF Answered, Seen
<1>8. Changed
  BY <1>3, <1>4 DEF Changed
<1>9. Mirrored
  BY <1>3, <1>4 DEF Mirrored, MirrorFresh
<1>10. QED
  BY <1>5, <1>6, <1>7, <1>8, <1>9 DEF IInv

(* Every step preserves the invariant.                                      *)
LEMMA NextInv == IInv /\ [Next]_vars => IInv'
<1>1. SUFFICES ASSUME IInv, [Next]_vars PROVE IInv'
  OBVIOUS
<1>2. CASE LoopStep
  BY <1>1, <1>2, LoopSteps, RoundStarts DEF LoopStep
<1>3. CASE BatchStep
  BY <1>1, <1>3, ReadJoins, ReadsFlushed, ChangeStarts, ChangeYields, LoopSteps DEF BatchStep
<1>4. ASSUME NEW c \in Calls, ToolStep(c)
      PROVE  IInv'
  BY <1>1, <1>4, ReadSees, ToolChangesFile, LateToolChangesFile, QuietSteps DEF ToolStep
<1>5. ASSUME NEW c \in Calls, CallStep(c)
      PROVE  IInv'
  BY <1>1, <1>5, QuietSteps, MirrorSteps DEF CallStep
<1>6. CASE UNCHANGED vars
  <2>1. UNCHANGED <<pc, status, turn, rounds, calls, base, next, window, results, ex, answer, saw, late,
                    file, writer, mirror, broken>>
    BY <1>6 DEF vars, loopVars, batchVars, toolVars
  <2>2. Calls' = Calls /\ Contents' = Contents /\ Settled' = Settled
    BY <2>1 DEF Calls, Contents, Settled
  <2>3. TypeOK' /\ Batching'
    BY <1>1, <2>1, <2>2 DEF IInv, TypeOK, Batching
  <2>4. Answered' /\ Changed' /\ Seen' /\ Mirrored'
    BY <1>1, <2>1, <2>2 DEF IInv, Answered, Changed, Seen, InOrder, Mirrored, MirrorFresh
  <2>5. QED
    BY <2>3, <2>4 DEF IInv
<1>7. QED
  BY <1>1, <1>2, <1>3, <1>4, <1>5, <1>6 DEF Next, Ended

(* The invariant holds in every reachable state.                            *)
LEMMA Invariance == Spec => []IInv
  BY InitInv, NextInv, PTL DEF Spec

(* executeBatch: whatever times out, throws or comes late, a read that is   *)
(* answered with its result saw what its place among the calls says, for    *)
(* any answers of the AI and any window of parallel reads.                  *)
THEOREM ReadsSeeOrder == Spec => []ReadsInOrder
<1>1. IInv => ReadsInOrder
  BY DEF IInv, Seen, InOrder, ReadsInOrder
<1>2. QED
  BY <1>1, Invariance, PTL

(* The graph shows the file as the last mirrored change left it, also when  *)
(* tools that timed out have changed the file in between.                   *)
THEOREM MirrorShowsFile == Spec => []MirrorFresh
<1>1. IInv => MirrorFresh
  BY DEF IInv, Mirrored
<1>2. QED
  BY <1>1, Invariance, PTL

-----------------------------------------------------------------------------
(* Spider: what imports resolve to                                          *)

Known == Texts \cup {NoFile}

LEMMA TextFacts ==
  /\ NoFile \notin Texts
  /\ \A f \in Files : TextsOf[f] \subseteq Texts
  /\ \A t \in Known : SpecsOf(t) \subseteq Specs
  /\ \A t \in Known : \A s : s \in SpecsOf(t) <=> t # NoFile /\ \E x \in Symbols : <<s, x>> \in Imports[t]
<1>1. \A f \in Files : TextsOf[f] \subseteq Texts
  BY DEF Texts
<1>2. \A t \in Texts : Imports[t] \subseteq Specs \X Symbols
  BY SpiderAssumption
<1>3. ASSUME NEW t \in Texts, NEW s
      PROVE  s \in SpecsOf(t) <=> \E x \in Symbols : <<s, x>> \in Imports[t]
  <2>1. SpecsOf(t) = {i[1] : i \in Imports[t]}
    BY SpiderAssumption DEF SpecsOf
  <2>2. \A i \in Imports[t] : i = <<i[1], i[2]>> /\ i[2] \in Symbols
    BY <1>2
  <2>3. \A x : <<s, x>>[1] = s
    OBVIOUS
  <2>4. ASSUME s \in SpecsOf(t)
        PROVE  \E x \in Symbols : <<s, x>> \in Imports[t]
    <3>1. PICK i \in Imports[t] : s = i[1]
      BY <2>1, <2>4
    <3>2. i = <<s, i[2]>> /\ i[2] \in Symbols
      BY <2>2, <3>1
    <3> QED BY <3>1, <3>2
  <2>5. ASSUME NEW x, <<s, x>> \in Imports[t]
        PROVE  s \in SpecsOf(t)
    BY <2>1, <2>3, <2>5
  <2> QED BY <2>4, <2>5
<1>4. SpecsOf(NoFile) = {}
  BY DEF SpecsOf
<1>5. NoFile \notin Texts
  BY SpiderAssumption
<1>6. ASSUME NEW t \in Texts, NEW s \in SpecsOf(t)
      PROVE  s \in Specs
  <2>1. PICK x \in Symbols : <<s, x>> \in Imports[t]
    BY <1>3
  <2> QED BY <1>2, <2>1
<1> QED BY <1>1, <1>3, <1>4, <1>5, <1>6 DEF Known

(* The first candidate there is, so one at most.                            *)
LEMMA ResolveFacts ==
  ASSUME NEW s \in Specs, NEW K, NEW g, g \in Resolve(s, K)
  PROVE  g \in Files \cap K /\ Resolve(s, K) = {g}
<1> DEFINE C == Candidates[s]
<1> DEFINE hits == {i \in DOMAIN C : C[i] \in K}
<1>1. C \in Seq(Files) /\ \A i \in DOMAIN C : C[i] \in Files /\ i \in Nat
  BY SpiderAssumption
<1>2. PICK i \in {k \in hits : \A m \in hits : k <= m} : g = C[i]
  BY DEF Resolve
<1>3. \A k \in {j \in hits : \A m \in hits : j <= m} : k = i
  BY <1>1, <1>2
<1>4. Resolve(s, K) = {C[k] : k \in {j \in hits : \A m \in hits : j <= m}}
  BY DEF Resolve
<1>5. Resolve(s, K) = {g}
  BY <1>2, <1>3, <1>4
<1> QED BY <1>1, <1>2, <1>5

(* What a larger graph resolves to a file of a smaller one, the smaller one *)
(* does too.                                                                *)
LEMMA ResolveLess ==
  ASSUME NEW s \in Specs, NEW K, NEW L, K \subseteq L, NEW g \in K, g \in Resolve(s, L)
  PROVE  g \in Resolve(s, K)
<1> DEFINE C == Candidates[s]
<1>1. PICK i \in DOMAIN C : g = C[i] /\ C[i] \in L /\ \A m \in DOMAIN C : C[m] \in L => i <= m
  BY DEF Resolve
<1>2. C[i] \in K /\ \A m \in DOMAIN C : C[m] \in K => i <= m
  BY <1>1
<1> QED BY <1>1, <1>2 DEF Resolve

(* Only candidates matter.                                                  *)
LEMMA ResolveAlike ==
  ASSUME NEW s \in Specs, NEW K, NEW L,
         \A f \in Range(Candidates[s]) : f \in K <=> f \in L
  PROVE  Resolve(s, K) = Resolve(s, L)
<1> DEFINE C == Candidates[s]
<1>1. \A i \in DOMAIN C : C[i] \in Range(C)
  BY DEF Range
<1>2. \A i \in DOMAIN C : C[i] \in K <=> C[i] \in L
  BY <1>1
<1>3. {i \in DOMAIN C : C[i] \in K} = {i \in DOMAIN C : C[i] \in L}
  BY <1>2
<1> QED BY <1>3 DEF Resolve

LEMMA LinksAre ==
  ASSUME NEW d, NEW t, NEW K
  PROVE  /\ \A s, g : <<d, s, g>> \in Links(d, t, K) <=> s \in SpecsOf(t) /\ g \in Resolve(s, K)
         /\ \A l \in Links(d, t, K) : l = <<d, l[2], l[3]>>
<1> DEFINE L(s) == {d} \X {s} \X Resolve(s, K)
<1>1. Links(d, t, K) = UNION {L(s) : s \in SpecsOf(t)}
  BY DEF Links
<1>2. \A s, r, g : <<d, r, g>> \in L(s) <=> r = s /\ g \in Resolve(s, K)
  OBVIOUS
<1>3. \A s : \A l \in L(s) : l = <<d, l[2], l[3]>>
  OBVIOUS
<1> HIDE DEF L
<1> QED BY <1>1, <1>2, <1>3

(* The same for all links of a graph, and for the edges they make.          *)
LEMMA AllLinksAre ==
  ASSUME NEW ns
  PROVE  /\ \A d, s, g : <<d, s, g>> \in AllLinks(ns) <=>
              d \in Ids(ns) /\ s \in SpecsOf(ns.text[d]) /\ g \in Resolve(s, Ids(ns))
         /\ \A l \in AllLinks(ns) : l = <<l[1], l[2], l[3]>>
<1> DEFINE L(d) == Links(d, ns.text[d], Ids(ns))
<1>1. AllLinks(ns) = UNION {L(d) : d \in Ids(ns)}
  BY DEF AllLinks
<1>2. \A d : /\ \A s, g : <<d, s, g>> \in L(d) <=> s \in SpecsOf(ns.text[d]) /\ g \in Resolve(s, Ids(ns))
             /\ \A l \in L(d) : l = <<d, l[2], l[3]>>
  BY LinksAre
<1> HIDE DEF L
<1>3. \A d, e, s, g : <<d, s, g>> \in L(e) => e = d
  BY <1>2
<1> QED BY <1>1, <1>2, <1>3

LEMMA PairsAre ==
  ASSUME NEW links, \A l \in links : l = <<l[1], l[2], l[3]>>
  PROVE  /\ \A d, g : <<d, g>> \in Pairs(links) <=> \E s : <<d, s, g>> \in links
         /\ \A p \in Pairs(links) : p = <<p[1], p[2]>>
<1>1. \A d, g : <<d, g>> \in Pairs(links) => \E s : <<d, s, g>> \in links
  <2> TAKE d, g
  <2> HAVE <<d, g>> \in Pairs(links)
  <2>1. PICK l \in links : <<d, g>> = <<l[1], l[3]>>
    BY DEF Pairs
  <2>2. l[1] = d /\ l[3] = g
    BY <2>1
  <2>3. l = <<d, l[2], g>>
    BY <2>2
  <2> QED BY <2>3
<1>2. \A d, s, g : <<d, s, g>> \in links => <<d, g>> \in Pairs(links)
  <2> TAKE d, s, g
  <2> HAVE <<d, s, g>> \in links
  <2>1. <<d, s, g>>[1] = d /\ <<d, s, g>>[3] = g
    OBVIOUS
  <2> QED BY <2>1 DEF Pairs
<1>3. \A p \in Pairs(links) : p = <<p[1], p[2]>>
  BY DEF Pairs
<1> QED BY <1>1, <1>2, <1>3

LEMMA EdgesAre ==
  ASSUME NEW ns
  PROVE  /\ \A d, g : <<d, g>> \in Edges(ns) <=>
              d \in Ids(ns) /\ \E s \in SpecsOf(ns.text[d]) : g \in Resolve(s, Ids(ns))
         /\ \A p \in Edges(ns) : p = <<p[1], p[2]>>
<1>1. \A d, g : <<d, g>> \in Edges(ns) <=> \E s : <<d, s, g>> \in AllLinks(ns)
  BY AllLinksAre, PairsAre DEF Edges
<1>2. \A p \in Edges(ns) : p = <<p[1], p[2]>>
  BY AllLinksAre, PairsAre DEF Edges
<1> QED BY <1>1, <1>2, AllLinksAre

(* What the links of one file make of it.                                   *)
LEMMA FilePairsAre ==
  ASSUME NEW f, NEW t, NEW K
  PROVE  /\ \A d, g : <<d, g>> \in Pairs(Links(f, t, K)) <=>
              d = f /\ \E s \in SpecsOf(t) : g \in Resolve(s, K)
         /\ \A p \in Pairs(Links(f, t, K)) : p = <<p[1], p[2]>>
<1>1. \A l \in Links(f, t, K) : l = <<l[1], l[2], l[3]>> /\ l[1] = f
  <2> TAKE l \in Links(f, t, K)
  <2>1. l = <<f, l[2], l[3]>>
    BY LinksAre
  <2>2. l[1] = f
    BY <2>1
  <2> QED BY <2>1, <2>2
<1>2. \A d, g : <<d, g>> \in Pairs(Links(f, t, K)) <=> \E s : <<d, s, g>> \in Links(f, t, K)
  BY <1>1, PairsAre
<1>3. \A d, s, g : <<d, s, g>> \in Links(f, t, K) => d = f
  BY <1>1
<1>4. \A p \in Pairs(Links(f, t, K)) : p = <<p[1], p[2]>>
  BY <1>1, PairsAre
<1> QED BY <1>2, <1>3, <1>4, LinksAre

-----------------------------------------------------------------------------
(* Spider: graphs and what becomes of them                                  *)

Tree(t) == t \in [Files -> Known] /\ \A f \in Files : t[f] \in TextsOf[f] \cup {NoFile}
GraphSet ==
  [text : [Files -> Known], before : SUBSET (Files \X Files),
   links : SUBSET (Files \X Specs \X Files), dependents : SUBSET (Files \X Files),
   old : SUBSET Files]
Graph(ns) ==
  /\ ns \in GraphSet
  /\ Tree(ns.text)
  /\ ns.before \subseteq Ids(ns) \X Ids(ns)
  /\ ns.links \subseteq Ids(ns) \X Specs \X Files
  /\ ns.dependents \subseteq Files \X Ids(ns)
  /\ ns.old \subseteq Ids(ns)

(* A file outside the set is not in the tree.                               *)
TreeOf(S, t) == Tree(t) /\ \A f \in Files : f \in S <=> t[f] # NoFile

LEMMA GraphOf ==
  ASSUME NEW t, NEW S \in SUBSET Files, TreeOf(S, t), NEW b \in SUBSET (S \X S),
         NEW l \in SUBSET (S \X Specs \X Files), NEW p \in SUBSET (Files \X S), NEW o \in SUBSET S
  PROVE  /\ Graph([text |-> t, before |-> b, links |-> l, dependents |-> p, old |-> o])
         /\ Ids([text |-> t, before |-> b, links |-> l, dependents |-> p, old |-> o]) = S
<1> DEFINE ns == [text |-> t, before |-> b, links |-> l, dependents |-> p, old |-> o]
<1>1. /\ ns.text = t /\ ns.before = b /\ ns.links = l /\ ns.dependents = p /\ ns.old = o
  OBVIOUS
<1>2. Ids(ns) = S
  BY <1>1 DEF Ids, Present, TreeOf
<1>3. b \in SUBSET (Files \X Files) /\ p \in SUBSET (Files \X Files) /\ o \in SUBSET Files
  OBVIOUS
<1>4. l \in SUBSET (Files \X Specs \X Files)
  OBVIOUS
<1>5. ns \in GraphSet
  BY <1>3, <1>4 DEF GraphSet, TreeOf, Tree
<1>6. Tree(t)
  BY DEF TreeOf
<1> HIDE DEF ns
<1>7. Tree(ns.text) /\ ns.before \subseteq Ids(ns) \X Ids(ns)
  BY <1>1, <1>2, <1>6
<1>8. ns.links \subseteq Ids(ns) \X Specs \X Files
  BY <1>1, <1>2
<1>9. ns.dependents \subseteq Files \X Ids(ns) /\ ns.old \subseteq Ids(ns)
  BY <1>1, <1>2
<1>10. Graph(ns)
  BY <1>5, <1>7, <1>8, <1>9 DEF Graph
<1> QED BY <1>2, <1>10 DEF ns

LEMMA GraphFacts ==
  ASSUME NEW ns, Graph(ns)
  PROVE  /\ ns = [text |-> ns.text, before |-> ns.before, links |-> ns.links,
                  dependents |-> ns.dependents, old |-> ns.old]
         /\ Ids(ns) \in SUBSET Files /\ TreeOf(Ids(ns), ns.text)
         /\ ns.before \in SUBSET (Ids(ns) \X Ids(ns))
         /\ ns.links \in SUBSET (Ids(ns) \X Specs \X Files)
         /\ ns.dependents \in SUBSET (Files \X Ids(ns))
         /\ ns.old \in SUBSET Ids(ns)
<1>1. \A f \in Files : f \in Ids(ns) <=> ns.text[f] # NoFile
  BY DEF Ids, Present
<1>2. Ids(ns) \in SUBSET Files
  BY DEF Ids, Present
<1>3. ns = [text |-> ns.text, before |-> ns.before, links |-> ns.links,
            dependents |-> ns.dependents, old |-> ns.old]
  BY DEF Graph, GraphSet
<1> QED BY <1>1, <1>2, <1>3 DEF Graph, TreeOf

(* What the links of a file's text are.                                     *)
LEMMA LinksTyped ==
  ASSUME NEW f, NEW t \in Known, NEW K
  PROVE  /\ Links(f, t, K) \subseteq {f} \X Specs \X (Files \cap K)
         /\ Pairs(Links(f, t, K)) \subseteq {f} \X (Files \cap K)
<1>1. \A s \in SpecsOf(t) : s \in Specs /\ \A g \in Resolve(s, K) : g \in Files \cap K
  BY TextFacts, ResolveFacts
<1>2. ASSUME NEW l \in Links(f, t, K)
      PROVE  l \in {f} \X Specs \X (Files \cap K)
  <2>1. l = <<f, l[2], l[3]>> /\ l[2] \in SpecsOf(t) /\ l[3] \in Resolve(l[2], K)
    BY LinksAre
  <2> QED BY <1>1, <2>1
<1>3. ASSUME NEW p \in Pairs(Links(f, t, K))
      PROVE  p \in {f} \X (Files \cap K)
  <2>1. p = <<p[1], p[2]>>
    BY FilePairsAre
  <2>2. p[1] = f /\ \E s \in SpecsOf(t) : p[2] \in Resolve(s, K)
    BY <2>1, FilePairsAre
  <2> QED BY <1>1, <2>1, <2>2
<1> QED BY <1>2, <1>3

LEMMA AllLinksTyped ==
  ASSUME NEW ns, NEW S \in SUBSET Files, TreeOf(S, ns.text)
  PROVE  /\ Ids(ns) = S
         /\ AllLinks(ns) \in SUBSET (S \X Specs \X S)
         /\ Edges(ns) \in SUBSET (S \X S)
<1>1. Ids(ns) = S
  BY DEF Ids, Present, TreeOf
<1>2. \A d \in S : ns.text[d] \in Known
  BY DEF TreeOf, Tree
<1>3. \A d \in S : \A s \in SpecsOf(ns.text[d]) : s \in Specs /\ \A g \in Resolve(s, S) : g \in S
  BY <1>2, TextFacts, ResolveFacts
<1>4. ASSUME NEW l \in AllLinks(ns)
      PROVE  l \in S \X Specs \X S
  <2>1. l = <<l[1], l[2], l[3]>>
    BY AllLinksAre
  <2>2. l[1] \in S /\ l[2] \in SpecsOf(ns.text[l[1]]) /\ l[3] \in Resolve(l[2], S)
    BY <1>1, <2>1, AllLinksAre
  <2> QED BY <1>3, <2>1, <2>2
<1>5. ASSUME NEW p \in Edges(ns)
      PROVE  p \in S \X S
  <2>1. p = <<p[1], p[2]>>
    BY EdgesAre
  <2>2. p[1] \in S /\ \E s \in SpecsOf(ns.text[p[1]]) : p[2] \in Resolve(s, S)
    BY <1>1, <2>1, EdgesAre
  <2> QED BY <1>3, <2>1, <2>2
<1> QED BY <1>1, <1>4, <1>5

LEMMA UpdatedText ==
  ASSUME NEW ns, Graph(ns), NEW f \in Files, NEW t \in TextsOf[f]
  PROVE  /\ Updated(ns, f, t).text[f] = t
         /\ \A g \in Files \ {f} : Updated(ns, f, t).text[g] = ns.text[g]
<1>1. ns.text \in [Files -> Known]
  BY DEF Graph, Tree
<1>2. Updated(ns, f, t).text = [ns.text EXCEPT ![f] = t]
  BY <1>1 DEF Updated
<1> QED BY <1>1, <1>2

LEMMA UpdatedIs ==
  ASSUME NEW ns, Graph(ns), NEW f \in Files, NEW t \in TextsOf[f]
  PROVE  /\ Graph(Updated(ns, f, t))
         /\ ns.text[f] = t => Updated(ns, f, t) = ns
         /\ ns.text[f] # t =>
              Updated(ns, f, t).dependents =
                Recoupled(ns.dependents, Pairs(Links(f, ns.text[f], Ids(ns) \cup {f})),
                          Pairs(Links(f, t, Ids(ns) \cup {f})))
         /\ Ids(Updated(ns, f, t)) = Ids(ns) \cup {f}
<1> DEFINE S == Ids(ns)
<1> DEFINE new == [ns.text EXCEPT ![f] = t]
<1>1. t \in Texts /\ t # NoFile /\ t \in Known
  BY TextFacts DEF Known
<1>2. /\ S \in SUBSET Files /\ TreeOf(S, ns.text) /\ ns.text \in [Files -> Known]
      /\ \A g \in Files : g \in S <=> ns.text[g] # NoFile
  BY GraphFacts DEF TreeOf, Tree
<1>3. TreeOf(S \cup {f}, new)
  BY <1>1, <1>2 DEF TreeOf, Tree
<1>4. Present(new) = S \cup {f}
  BY <1>2, <1>3 DEF Present, TreeOf
<1>5. CASE ns.text[f] = t
  <2>1. Updated(ns, f, t) = ns
    BY <1>5 DEF Updated
  <2>3. f \in S
    BY <1>1, <1>2, <1>5
  <2> QED BY <1>5, <2>1, <2>3
<1>6. CASE ns.text[f] # t
  <2> DEFINE was == Pairs(Links(f, ns.text[f], S \cup {f}))
  <2> DEFINE now == Pairs(Links(f, t, S \cup {f}))
  <2> DEFINE b == ns.before \cup (S \X ({f} \ S))
  <2> DEFINE l == {k \in ns.links : k[1] # f} \cup Links(f, t, S)
  <2> DEFINE p == Recoupled(ns.dependents, was, now)
  <2> DEFINE o == ns.old \ {f}
  <2>1. Updated(ns, f, t) = [text |-> new, before |-> b, links |-> l, dependents |-> p, old |-> o]
    BY <1>4, <1>6 DEF Updated
  <2>2. b \in SUBSET ((S \cup {f}) \X (S \cup {f}))
    BY GraphFacts
  <2>3. l \in SUBSET ((S \cup {f}) \X Specs \X Files)
    <3>1. Links(f, t, S) \subseteq {f} \X Specs \X (Files \cap S)
      BY <1>1, LinksTyped
    <3>2. ns.links \subseteq S \X Specs \X Files
      BY GraphFacts
    <3> QED BY <3>1, <3>2
  <2>4. p \in SUBSET (Files \X (S \cup {f}))
    <3>1. now \subseteq {f} \X (Files \cap (S \cup {f}))
      BY <1>1, LinksTyped
    <3>2. ns.dependents \subseteq Files \X S
      BY GraphFacts
    <3> QED BY <3>1, <3>2 DEF Recoupled
  <2>5. o \in SUBSET (S \cup {f})
    BY GraphFacts
  <2>6. S \cup {f} \in SUBSET Files
    BY <1>2
  <2> HIDE DEF S, new, b, l, p, o
  <2>7. /\ Graph(Updated(ns, f, t)) /\ Ids(Updated(ns, f, t)) = S \cup {f}
    BY <1>3, <2>1, <2>2, <2>3, <2>4, <2>5, <2>6, GraphOf
  <2>8. Updated(ns, f, t).dependents = p
    BY <2>1
  <2> QED BY <1>6, <2>7, <2>8 DEF S, p
<1> QED BY <1>5, <1>6

LEMMA RemovedIs ==
  ASSUME NEW ns, Graph(ns), NEW gone
  PROVE  /\ Graph(Removed(ns, gone))
         /\ Removed(ns, gone).text = [f \in Files |-> IF f \in gone THEN NoFile ELSE ns.text[f]]
         /\ Ids(Removed(ns, gone)) = Ids(ns) \ gone
         /\ Removed(ns, gone).dependents = {p \in ns.dependents : p[2] \notin gone}
         /\ Removed(ns, gone).before = {p \in ns.before : {p[1], p[2]} \cap gone = {}}
<1> DEFINE S == Ids(ns)
<1> DEFINE t == [f \in Files |-> IF f \in gone THEN NoFile ELSE ns.text[f]]
<1> DEFINE b == {p \in ns.before : {p[1], p[2]} \cap gone = {}}
<1> DEFINE l == {k \in ns.links : k[1] \notin gone}
<1> DEFINE d == {p \in ns.dependents : p[2] \notin gone}
<1> DEFINE o == ns.old \ gone
<1>1. /\ S \in SUBSET Files /\ TreeOf(S, ns.text) /\ ns.text \in [Files -> Known]
      /\ \A g \in Files : g \in S <=> ns.text[g] # NoFile
  BY GraphFacts DEF TreeOf, Tree
<1>2. TreeOf(S \ gone, t)
  BY <1>1 DEF TreeOf, Tree, Known
<1>3. Removed(ns, gone) = [text |-> t, before |-> b, links |-> l, dependents |-> d, old |-> o]
  BY DEF Removed
<1>4. b \in SUBSET ((S \ gone) \X (S \ gone))
  <2>1. \A p \in ns.before : p \in S \X S
    BY GraphFacts
  <2>2. ASSUME NEW p \in b PROVE p \in (S \ gone) \X (S \ gone)
    <3>1. p = <<p[1], p[2]>> /\ p[1] \in S /\ p[2] \in S
      BY <2>1
    <3>2. p[1] \notin gone /\ p[2] \notin gone
      OBVIOUS
    <3> QED BY <3>1, <3>2
  <2> QED BY <2>2
<1>5. l \in SUBSET ((S \ gone) \X Specs \X Files)
  <2>1. ns.links \subseteq S \X Specs \X Files
    BY GraphFacts
  <2> QED BY <2>1
<1>6. d \in SUBSET (Files \X (S \ gone))
  <2>1. ns.dependents \subseteq Files \X S
    BY GraphFacts
  <2> QED BY <2>1
<1>7. o \in SUBSET (S \ gone)
  BY GraphFacts
<1>8. S \ gone \in SUBSET Files
  BY <1>1
<1> HIDE DEF S, t, b, l, d, o
<1>9. Graph(Removed(ns, gone)) /\ Ids(Removed(ns, gone)) = S \ gone
  BY <1>2, <1>3, <1>4, <1>5, <1>6, <1>7, <1>8, GraphOf
<1>10. /\ Removed(ns, gone).text = t /\ Removed(ns, gone).dependents = d
       /\ Removed(ns, gone).before = b
  BY <1>3
<1> QED BY <1>9, <1>10 DEF S, t, d, b

-----------------------------------------------------------------------------
(* Spider: coupling, building, auditing                                     *)

(* What is said of a graph's links depends on its texts.                    *)
LEMMA SameText ==
  ASSUME NEW ns, NEW os, ns.text = os.text
  PROVE  Ids(ns) = Ids(os) /\ AllLinks(ns) = AllLinks(os) /\ Edges(ns) = Edges(os)
<1>1. Ids(ns) = Ids(os)
  BY DEF Ids
<1>2. AllLinks(ns) = AllLinks(os)
  BY <1>1 DEF AllLinks
<1> QED BY <1>1, <1>2 DEF Edges

LEMMA ResolvedIs ==
  ASSUME NEW ns, Graph(ns)
  PROVE  /\ Graph(Resolved(ns)) /\ Ids(Resolved(ns)) = Ids(ns) /\ Resolved(ns).text = ns.text
         /\ Resolved(ns).dependents = ns.dependents /\ Resolved(ns).before = ns.before
         /\ Resolved(ns).links = AllLinks(Resolved(ns))
         /\ AllLinks(Resolved(ns)) = AllLinks(ns) /\ Edges(Resolved(ns)) = Edges(ns)
<1> DEFINE S == Ids(ns)
<1> DEFINE l == AllLinks(ns)
<1>1. /\ S \in SUBSET Files /\ TreeOf(S, ns.text) /\ ns.before \in SUBSET (S \X S)
      /\ ns.dependents \in SUBSET (Files \X S) /\ ns.old \in SUBSET S
      /\ ns = [text |-> ns.text, before |-> ns.before, links |-> ns.links,
               dependents |-> ns.dependents, old |-> ns.old]
  BY GraphFacts
<1>2. l \in SUBSET (S \X Specs \X Files)
  <2>1. l \in SUBSET (S \X Specs \X S)
    BY <1>1, AllLinksTyped
  <2> HIDE DEF l, S
  <2> QED BY <1>1, <2>1
<1>3. Resolved(ns) = [text |-> ns.text, before |-> ns.before, links |-> l,
                      dependents |-> ns.dependents, old |-> ns.old]
  BY <1>1 DEF Resolved
<1>4. Resolved(ns).text = ns.text
  BY <1>3
<1>5. Ids(Resolved(ns)) = S /\ AllLinks(Resolved(ns)) = l /\ Edges(Resolved(ns)) = Edges(ns)
  BY <1>4, SameText
<1> HIDE DEF S, l
<1>6. Graph(Resolved(ns))
  BY <1>1, <1>2, <1>3, GraphOf
<1>7. /\ Resolved(ns).dependents = ns.dependents /\ Resolved(ns).before = ns.before
      /\ Resolved(ns).links = l
  BY <1>3
<1> QED BY <1>4, <1>5, <1>6, <1>7 DEF S, l

LEMMA CoupledIs ==
  ASSUME NEW ns, Graph(ns), NEW links
  PROVE  /\ Graph(Coupled(ns, links)) /\ Ids(Coupled(ns, links)) = Ids(ns)
         /\ Coupled(ns, links).text = ns.text /\ Edges(Coupled(ns, links)) = Edges(ns)
         /\ Coupled(ns, links).dependents =
              {p \in Pairs(links) : {p[1], p[2]} \subseteq Ids(ns) /\ p \notin ns.before}
<1> DEFINE S == Ids(ns)
<1> DEFINE d == {p \in Pairs(links) : {p[1], p[2]} \subseteq S /\ p \notin ns.before}
<1>1. /\ S \in SUBSET Files /\ TreeOf(S, ns.text) /\ ns.before \in SUBSET (S \X S)
      /\ ns.links \in SUBSET (S \X Specs \X Files) /\ ns.old \in SUBSET S
      /\ ns = [text |-> ns.text, before |-> ns.before, links |-> ns.links,
               dependents |-> ns.dependents, old |-> ns.old]
  BY GraphFacts
<1>2. d \in SUBSET (Files \X S)
  <2>1. \A p \in Pairs(links) : p = <<p[1], p[2]>>
    BY DEF Pairs
  <2> QED BY <1>1, <2>1
<1>3. Coupled(ns, links) = [text |-> ns.text, before |-> ns.before, links |-> ns.links,
                            dependents |-> d, old |-> ns.old]
  <2>1. Coupled(ns, links) = [ns EXCEPT !.dependents = d]
    BY DEF Coupled
  <2> HIDE DEF d
  <2> QED BY <1>1, <2>1
<1>4. Coupled(ns, links).text = ns.text /\ Coupled(ns, links).dependents = d
  BY <1>3
<1>5. Ids(Coupled(ns, links)) = S /\ Edges(Coupled(ns, links)) = Edges(ns)
  BY <1>4, SameText
<1> HIDE DEF S, d
<1>6. Graph(Coupled(ns, links))
  BY <1>1, <1>2, <1>3, GraphOf
<1> QED BY <1>4, <1>5, <1>6 DEF S, d

LEMMA NoGraphIs ==
  Graph(NoGraph) /\ Ids(NoGraph) = {} /\ Edges(NoGraph) = {} /\ Tree(NoTree)
<1>1. TreeOf({}, NoTree) /\ Tree(NoTree)
  BY DEF TreeOf, Tree, NoTree, Known
<1>2. Graph(NoGraph) /\ Ids(NoGraph) = {}
  <2>1. NoGraph = [text |-> NoTree, before |-> {}, links |-> {}, dependents |-> {}, old |-> {}]
    BY DEF NoGraph
  <2>2. {} \in SUBSET Files /\ {} \in SUBSET ({} \X {}) /\ {} \in SUBSET ({} \X Specs \X Files)
        /\ {} \in SUBSET (Files \X {}) /\ {} \in SUBSET {}
    OBVIOUS
  <2> QED BY <1>1, <2>1, <2>2, GraphOf
<1>3. \A p \in Edges(NoGraph) : FALSE
  BY <1>2, EdgesAre
<1> QED BY <1>1, <1>2, <1>3

(* A list of all files of a set, each once, puts them in a total order.     *)
LEMMA OrdersAre ==
  ASSUME NEW S \in SUBSET Files, NEW order \in Orders(S)
  PROVE  /\ order \subseteq S \X S
         /\ \A f, g \in S : f # g => <<f, g>> \in order \/ <<g, f>> \in order
         /\ \A f, g, h : <<f, g>> \in order /\ <<g, h>> \in order => <<f, h>> \in order
<1> DEFINE n == Cardinality(S)
<1>1. IsFiniteSet(S) /\ n \in Nat
  BY SpiderAssumption, FS_Subset, FS_CardinalityType
<1>2. PICK list \in SetToSeqs(S) :
        order = {p \in S \X S : \E i, j \in DOMAIN list : i < j /\ p = <<list[i], list[j]>>}
  BY DEF Orders
<1>3. list \in [1..n -> S] /\ \A i, j \in 1..n : i # j => list[i] # list[j]
  BY <1>2 DEF SetToSeqs
<1>4. list \in Injection(1..n, S)
  BY <1>3 DEF Injection, IsInjective
<1>5. IsFiniteSet(1..n) /\ Cardinality(1..n) = n
  BY <1>1, FS_Interval
<1>6. list \in Surjection(1..n, S)
  BY <1>1, <1>4, <1>5, FS_Injection
<1>7. \A f \in S : \E i \in 1..n : list[i] = f
  BY <1>6 DEF Surjection
<1> HIDE DEF n
<1>8. DOMAIN list = 1..n /\ \A i \in 1..n : list[i] \in S
  BY <1>3
<1>9. \A f, g : <<f, g>> \in order <=> \E i, j \in 1..n : i < j /\ f = list[i] /\ g = list[j]
  BY <1>2, <1>8
<1>10. order \subseteq S \X S
  BY <1>2
<1>11. ASSUME NEW f \in S, NEW g \in S, f # g
       PROVE  <<f, g>> \in order \/ <<g, f>> \in order
  <2>1. PICK i \in 1..n : list[i] = f
    BY <1>7
  <2>2. PICK j \in 1..n : list[j] = g
    BY <1>7
  <2>3. i < j \/ j < i
    BY <1>1, <1>11, <2>1, <2>2
  <2> QED BY <1>9, <2>1, <2>2, <2>3
<1>12. ASSUME NEW f, NEW g, NEW h, <<f, g>> \in order, <<g, h>> \in order
       PROVE  <<f, h>> \in order
  <2>1. PICK i, j \in 1..n : i < j /\ f = list[i] /\ g = list[j]
    BY <1>9, <1>12
  <2>2. PICK k, l \in 1..n : k < l /\ g = list[k] /\ h = list[l]
    BY <1>9, <1>12
  <2>3. j = k
    BY <1>3, <2>1, <2>2
  <2>4. i < l
    BY <1>1, <2>1, <2>2, <2>3
  <2> QED BY <1>9, <2>1, <2>2, <2>4
<1> QED BY <1>10, <1>11, <1>12

LEMMA BuiltIs ==
  ASSUME NEW tree, Tree(tree), NEW order \in Orders(Present(tree))
  PROVE  /\ Graph(Built(tree, order)) /\ Ids(Built(tree, order)) = Present(tree)
         /\ Edges(Built(tree, order)) \subseteq
              Built(tree, order).dependents \cup Forgotten(Built(tree, order))
<1> DEFINE S == Present(tree)
<1> DEFINE os == [text |-> tree, before |-> order, links |-> {}, dependents |-> {}, old |-> {}]
<1>1. S \in SUBSET Files /\ TreeOf(S, tree)
  BY DEF Present, TreeOf
<1>2. order \in SUBSET (S \X S)
  BY <1>1, OrdersAre
<1>3. {} \in SUBSET (S \X Specs \X Files) /\ {} \in SUBSET (Files \X S) /\ {} \in SUBSET S
  OBVIOUS
<1> HIDE DEF S
<1>4. Graph(os) /\ Ids(os) = S
  BY <1>1, <1>2, <1>3, GraphOf
<1>5. os.before = order
  OBVIOUS
<1> HIDE DEF os
<1> DEFINE ns == Resolved(os)
<1> DEFINE bs == Coupled(ns, ns.links)
<1>6. Built(tree, order) = bs
  BY DEF Built, os
<1>7. Graph(ns) /\ Ids(ns) = S /\ ns.links = AllLinks(ns) /\ ns.before = order
  BY <1>4, <1>5, ResolvedIs
<1> HIDE DEF ns
<1>8. /\ Graph(bs) /\ Ids(bs) = S /\ Edges(bs) = Edges(ns)
      /\ bs.dependents = {p \in Edges(ns) : {p[1], p[2]} \subseteq S /\ p \notin order}
  BY <1>7, CoupledIs DEF Edges
<1>9. bs.before = order
  BY <1>7 DEF Coupled
<1>10. Edges(ns) \in SUBSET (S \X S)
  BY <1>7, GraphFacts, AllLinksTyped
<1>11. Edges(bs) \subseteq bs.dependents \cup Forgotten(bs)
  <2> SUFFICES ASSUME NEW p \in Edges(ns) PROVE p \in bs.dependents \cup Forgotten(bs)
    BY <1>8
  <2>1. p \in S \X S
    BY <1>10
  <2> QED BY <1>8, <1>9, <2>1 DEF Forgotten
<1> QED BY <1>6, <1>8, <1>11 DEF S

-----------------------------------------------------------------------------
(* Spider: the inductive invariant                                          *)

Trees == {t \in [Files -> Known] : Tree(t)}
BootPCs == {"idle", "load", "head", "diff", "update", "read", "build", "finish", "verify"}
BootSet == [pc : BootPCs, last : SUBSET Trees, head : Trees, todo : SUBSET Files]

GraphTypes == Graph(nodes) /\ registry \in [Files -> SUBSET Symbols]
SavedTypes ==
  /\ saved = [commit |-> saved.commit, nodes |-> saved.nodes]
  /\ saved.commit \subseteq Trees /\ Graph(saved.nodes)
BootTypes == boot \in [Booters -> BootSet] /\ bootstrapped \in BOOLEAN
DiscoveryTypes == current \in BOOLEAN /\ inverse \subseteq Files \X Files /\ cached \subseteq Files

(* What the registry is when nothing went wrong, as of a graph.             *)
RegistryOf(ns) == [f \in Files |-> IF f \in Ids(ns) THEN Exports[ns.text[f]] ELSE {}]
RegistryRight == causes = {} => registry = RegistryOf(nodes)
InverseRight == causes = {} /\ current => Edges(nodes) \subseteq inverse
EdgesCoupled == Edges(nodes) \subseteq nodes.dependents \cup loose

(* What the cache of the ghost search has of a file that was sure, where m  *)
(* are the texts of what its imports met.                                   *)
DepsOf(t, met, m) == {<<Place(t, met, r), m[r]>> : r \in met}
GhostsOf(d, t, met, m) ==
  {<<d, i[1], NoFile>> : i \in {j \in Imports[t] : j[1] \notin met}}
  \cup {<<d, i[1], i[2]>> : i \in {j \in Imports[t] : j[1] \in met /\ j[2] \notin Exports[m[j[1]]]}}
Shown(d, c) ==
  /\ c.met \subseteq Specs
  /\ \E m \in [Specs -> Known] : /\ c.deps = DepsOf(c.text, c.met, m)
                                 /\ c.ghosts = GhostsOf(d, c.text, c.met, m)
SeenRight ==
  /\ DOMAIN seen = Files
  /\ \A d \in Files : seen[d].sure => seen[d].text = NoFile \/ Shown(d, seen[d])

GraphInv ==
  GraphTypes /\ DiscoveryTypes /\ RegistryRight /\ InverseRight /\ EdgesCoupled
FoundInv == SeenRight /\ ReportExact /\ GhostsExact
StoreInv == Tree(disk) /\ Tree(head) /\ SavedTypes /\ BootTypes
SpiderInv == StoreInv /\ GraphInv /\ FoundInv

(* What an audit couples: the imports of a changed file, among the files    *)
(* there are when it is indexed.                                            *)
ChangedOf(read) == {f \in read : nodes.text[f] # disk[f]}
AuditPairs(text, read, order) ==
  UNION {Pairs(Links(f, text[f], Among(read, order, f))) : f \in ChangedOf(read)}

LEMMA AuditPairsAre ==
  ASSUME NEW text, NEW read, NEW order
  PROVE  /\ \A d, g : <<d, g>> \in AuditPairs(text, read, order) <=>
              d \in ChangedOf(read) /\ \E s \in SpecsOf(text[d]) : g \in Resolve(s, Among(read, order, d))
         /\ \A p \in AuditPairs(text, read, order) : p = <<p[1], p[2]>>
<1> DEFINE P(f) == Pairs(Links(f, text[f], Among(read, order, f)))
<1>1. AuditPairs(text, read, order) = UNION {P(f) : f \in ChangedOf(read)}
  BY DEF AuditPairs
<1>2. ASSUME NEW f
      PROVE  /\ \A d, g : <<d, g>> \in P(f) <=>
                  d = f /\ \E s \in SpecsOf(text[f]) : g \in Resolve(s, Among(read, order, f))
             /\ \A p \in P(f) : p = <<p[1], p[2]>>
  BY FilePairsAre
<1> HIDE DEF P
<1> QED BY <1>1, <1>2

LEMMA AuditedIs ==
  ASSUME Graph(nodes), Tree(disk), NEW read \in SUBSET Present(disk), NEW order
  PROVE  /\ Graph(Audited(read, order)) /\ Ids(Audited(read, order)) = Ids(nodes) \cup read
         /\ Audited(read, order).text =
              [f \in Files |-> IF f \in read THEN disk[f] ELSE nodes.text[f]]
         /\ Audited(read, order).links = AllLinks(Audited(read, order))
         /\ Audited(read, order).dependents =
              Recoupled(nodes.dependents, AuditPairs(nodes.text, read, order),
                        AuditPairs(disk, read, order))
<1> DEFINE K == Ids(nodes)
<1> DEFINE S == K \cup read
<1> DEFINE new == read \ K
<1> DEFINE t == [f \in Files |-> IF f \in read THEN disk[f] ELSE nodes.text[f]]
<1> DEFINE b == nodes.before \cup (K \X new) \cup (order \cap (new \X new))
<1> DEFINE was == AuditPairs(nodes.text, read, order)
<1> DEFINE now == AuditPairs(disk, read, order)
<1> DEFINE p == Recoupled(nodes.dependents, was, now)
<1> DEFINE o == nodes.old \ ChangedOf(read)
<1> DEFINE os == [text |-> t, before |-> b, links |-> {}, dependents |-> p, old |-> o]
<1>1. Audited(read, order) = Resolved(os)
  BY DEF Audited, AuditPairs, ChangedOf
<1>2. /\ K \in SUBSET Files /\ TreeOf(K, nodes.text) /\ nodes.before \in SUBSET (K \X K)
      /\ nodes.dependents \in SUBSET (Files \X K) /\ nodes.old \in SUBSET K
  BY GraphFacts
<1>3. read \in SUBSET Files /\ \A f \in read : disk[f] # NoFile
  BY DEF Present
<1>4. TreeOf(S, t)
  BY <1>2, <1>3 DEF TreeOf, Tree
<1>5. now \in SUBSET (Files \X S)
  <2> SUFFICES ASSUME NEW q \in now PROVE q \in Files \X S
    OBVIOUS
  <2>1. /\ q = <<q[1], q[2]>> /\ q[1] \in ChangedOf(read)
        /\ \E s \in SpecsOf(disk[q[1]]) : q[2] \in Resolve(s, Among(read, order, q[1]))
    BY AuditPairsAre
  <2>2. q[1] \in read /\ disk[q[1]] \in Known
    BY <1>3, <2>1 DEF ChangedOf, Tree
  <2>3. q[2] \in Files \cap Among(read, order, q[1])
    BY <2>1, <2>2, TextFacts, ResolveFacts
  <2>4. Among(read, order, q[1]) \subseteq S
    BY DEF Among
  <2> QED BY <1>3, <2>1, <2>2, <2>3, <2>4
<1>6. p \in SUBSET (Files \X S)
  BY <1>2, <1>5 DEF Recoupled
<1>7. b \in SUBSET (S \X S)
  BY <1>2
<1>8. o \in SUBSET S /\ S \in SUBSET Files /\ {} \in SUBSET (S \X Specs \X Files)
  BY <1>2, <1>3
<1> HIDE DEF S, t, b, p, o
<1>9. Graph(os) /\ Ids(os) = S
  BY <1>4, <1>6, <1>7, <1>8, GraphOf
<1>10. os.text = t /\ os.dependents = p
  OBVIOUS
<1> HIDE DEF os
<1> QED BY <1>1, <1>9, <1>10, ResolvedIs DEF S, t, p

(* Every edge of an audited graph is known to its file, unless it was loose *)
(* or the file is new and was overtaken.                                    *)
LEMMA AuditedCouples ==
  ASSUME Graph(nodes), Tree(disk), EdgesCoupled, NEW read \in SUBSET Present(disk), NEW order,
         \A f \in read, g \in read \ Ids(nodes) :
            f # g => <<f, g>> \in order \/ <<g, f>> \in order,
         \A f, g, h : <<f, g>> \in order /\ <<g, h>> \in order => <<f, h>> \in order
  PROVE  Edges(Audited(read, order)) \subseteq
           Audited(read, order).dependents \cup (loose \cup Overtaken(read, order))
<1> DEFINE A == Audited(read, order)
<1> DEFINE K == Ids(nodes)
<1> DEFINE was == AuditPairs(nodes.text, read, order)
<1> DEFINE now == AuditPairs(disk, read, order)
<1> DEFINE Am(f) == Among(read, order, f)
<1>1. /\ Ids(A) = K \cup read /\ Graph(A)
      /\ A.text = [f \in Files |-> IF f \in read THEN disk[f] ELSE nodes.text[f]]
      /\ A.dependents = (nodes.dependents \ (was \ now)) \cup (now \ was)
  BY AuditedIs DEF Recoupled
<1>2. read \in SUBSET Files /\ \A f \in read : disk[f] # NoFile
  BY DEF Present
<1>3. \A f \in Files : nodes.text[f] \in Known /\ disk[f] \in Known /\ (f \in K <=> nodes.text[f] # NoFile)
  BY GraphFacts DEF TreeOf, Tree
<1>4. K \in SUBSET Files
  BY GraphFacts
<1>5. \A f : K \subseteq Am(f) /\ Am(f) \subseteq K \cup read /\ (f \in read => f \in Am(f))
  BY DEF Among
<1>6. \A e \in Edges(nodes) : e \in nodes.dependents \cup loose
  BY DEF EdgesCoupled
<1>7. \A d, g : <<d, g>> \in Edges(nodes) <=>
          d \in K /\ \E s \in SpecsOf(nodes.text[d]) : g \in Resolve(s, K)
  BY EdgesAre
<1>8. \A d, g : <<d, g>> \in was <=>
          d \in ChangedOf(read) /\ \E s \in SpecsOf(nodes.text[d]) : g \in Resolve(s, Am(d))
  BY AuditPairsAre
<1>9. \A d, g : <<d, g>> \in now <=>
          d \in ChangedOf(read) /\ \E s \in SpecsOf(disk[d]) : g \in Resolve(s, Am(d))
  BY AuditPairsAre
<1>10. \A f \in ChangedOf(read) : f \in read /\ f \in Files
  BY <1>2 DEF ChangedOf
<1> SUFFICES ASSUME NEW e \in Edges(A)
             PROVE  e \in A.dependents \cup (loose \cup Overtaken(read, order))
  OBVIOUS
<1> DEFINE d == e[1]
<1> DEFINE g == e[2]
<1>11. /\ e = <<d, g>> /\ d \in K \cup read
       /\ \E s \in SpecsOf(A.text[d]) : g \in Resolve(s, K \cup read)
  <2>1. e = <<d, g>>
    BY EdgesAre
  <2> HIDE DEF A, d, g
  <2>2. d \in Ids(A) /\ \E s \in SpecsOf(A.text[d]) : g \in Resolve(s, Ids(A))
    BY <2>1, EdgesAre
  <2> QED BY <1>1, <2>1, <2>2
<1>12. PICK s \in SpecsOf(A.text[d]) : g \in Resolve(s, K \cup read)
  BY <1>11
<1>13. d \in Files /\ A.text[d] = (IF d \in read THEN disk[d] ELSE nodes.text[d]) /\ s \in Specs
  <2>1. d \in Files
    BY <1>2, <1>4, <1>11
  <2>2. A.text[d] = (IF d \in read THEN disk[d] ELSE nodes.text[d])
    BY <1>1, <2>1
  <2>3. A.text[d] \in Known
    BY <1>3, <2>1, <2>2
  <2> QED BY <1>12, <2>1, <2>2, <2>3, TextFacts
<1>14. g \in K \cup read
  BY <1>12, <1>13, ResolveFacts
<1>15. Overtaken(read, order) =
         {x \in Edges(A) : /\ x[2] \in read \ K
                           /\ \/ x \in order
                              \/ x[2] \in Targets(Links(x[1], nodes.text[x[1]], Am(x[2])))}
  BY DEF Overtaken
<1>16. \A f, t, L, x, r : r \in SpecsOf(t) /\ x \in Resolve(r, L) => x \in Targets(Links(f, t, L))
  <2> TAKE f, t, L, x, r
  <2> HAVE r \in SpecsOf(t) /\ x \in Resolve(r, L)
  <2>1. <<f, r, x>> \in Links(f, t, L)
    BY LinksAre
  <2>2. <<f, r, x>>[3] = x
    OBVIOUS
  <2> QED BY <2>1, <2>2 DEF Targets
<1>17. \A r \in Specs : \A L, M : \A x : L \subseteq M /\ x \in L /\ x \in Resolve(r, M) => x \in Resolve(r, L)
  BY ResolveLess
<1>18. \A f \in Files : \A r \in SpecsOf(nodes.text[f]) : r \in Specs /\ f \in K
  BY <1>3, TextFacts
<1> HIDE DEF A, K, was, now, Am, d, g
<1>19. CASE e \in now
  <2>1. CASE e \notin was
    BY <1>1, <1>19, <2>1
  <2>2. CASE e \in was
    <3>1. PICK r \in SpecsOf(nodes.text[d]) : g \in Resolve(r, Am(d))
      BY <1>8, <1>11, <2>2
    <3>2. d \in ChangedOf(read) /\ d \in read /\ r \in Specs /\ d \in K
      BY <1>8, <1>10, <1>11, <1>13, <1>18, <2>2, <3>1
    <3>3. CASE g \in K
      <4>1. g \in Resolve(r, K)
        BY <1>5, <1>17, <3>1, <3>2, <3>3
      <4>2. e \in Edges(nodes)
        BY <1>7, <1>11, <3>1, <3>2, <4>1
      <4> QED BY <1>1, <1>6, <1>19, <4>2
    <3>4. CASE g \notin K
      <4>1. g \in read \ K /\ g # d
        BY <1>14, <3>2, <3>4
      <4>2. g \in Am(d)
        BY <3>1, <3>2, ResolveFacts
      <4>3. <<g, d>> \in order
        BY <4>1, <4>2 DEF Am, Among, K
      <4>4. Am(g) \subseteq Am(d)
        <5> SUFFICES ASSUME NEW h \in Am(g) PROVE h \in Am(d)
          OBVIOUS
        <5>1. h \in K \/ (h \in read /\ (h = g \/ <<h, g>> \in order))
          BY DEF Am, Among, K
        <5>2. h \in K \/ (h \in read /\ <<h, d>> \in order)
          BY <4>3, <5>1
        <5> QED BY <5>2 DEF Am, Among, K
      <4>5. g \in Resolve(r, Am(g))
        BY <1>5, <1>17, <3>1, <3>2, <4>1, <4>4
      <4>6. e \in Overtaken(read, order)
        BY <1>15, <1>16, <3>1, <4>1, <4>5 DEF d, g
      <4> QED BY <4>6
    <3> QED BY <3>3, <3>4
  <2> QED BY <2>1, <2>2
<1>20. CASE e \notin now /\ d \notin ChangedOf(read)
  <2>1. A.text[d] = nodes.text[d] /\ d \in K
    BY <1>2, <1>3, <1>11, <1>13, <1>20 DEF ChangedOf
  <2>2. CASE g \in K
    <3>1. g \in Resolve(s, K)
      BY <1>12, <1>13, <1>17, <2>2
    <3>2. e \in Edges(nodes)
      BY <1>7, <1>11, <1>12, <2>1, <3>1
    <3>3. e \notin was
      BY <1>8, <1>11, <1>20
    <3> QED BY <1>1, <1>6, <3>2, <3>3
  <2>3. CASE g \notin K
    <3>1. g \in Resolve(s, Am(g))
      BY <1>5, <1>12, <1>13, <1>14, <1>17, <2>3
    <3>2. e \in Overtaken(read, order)
      BY <1>12, <1>14, <1>15, <1>16, <2>1, <2>3, <3>1 DEF d, g
    <3> QED BY <3>2
  <2> QED BY <2>2, <2>3
<1>21. CASE e \notin now /\ d \in ChangedOf(read)
  <2>1. d \in read /\ s \in SpecsOf(disk[d])
    BY <1>10, <1>12, <1>13, <1>21
  <2>2. g \notin Am(d)
    <3> SUFFICES ASSUME g \in Am(d) PROVE FALSE
      OBVIOUS
    <3>1. g \in Resolve(s, Am(d))
      BY <1>5, <1>12, <1>13, <1>17
    <3> QED BY <1>9, <1>11, <1>21, <2>1, <3>1
  <2>3. g \in read \ K /\ g # d /\ <<g, d>> \notin order
    BY <1>5, <1>14, <2>1, <2>2 DEF Am, Among, K
  <2>4. e \in order
    BY <1>11, <2>1, <2>3 DEF K
  <2>5. e \in Overtaken(read, order)
    BY <1>15, <2>3, <2>4 DEF g
  <2> QED BY <2>5
<1> QED BY <1>19, <1>20, <1>21

(* The dead nodes that an audit prunes, and what is loose after it.         *)
DeadOf(ns) == Ids(ns) \ Present(disk)

LEMMA PrunedIs ==
  ASSUME NEW ns, Graph(ns), ns.links = AllLinks(ns)
  PROVE  /\ Graph(Pruned(ns)) /\ Ids(Pruned(ns)) = Ids(ns) \ DeadOf(ns)
         /\ \A f \in Ids(Pruned(ns)) : Pruned(ns).text[f] = ns.text[f]
         /\ Pruned(ns) = ns <=> DeadOf(ns) = {}
         /\ DeadOf(ns) # {} =>
              Edges(Pruned(ns)) \subseteq Pruned(ns).dependents
                                          \cup ((Edges(Pruned(ns)) \ Edges(ns)) \cup Forgotten(Pruned(ns)))
<1> DEFINE dead == DeadOf(ns)
<1>1. Pruned(ns) = IF dead = {} THEN ns ELSE Coupled(Removed(ns, dead), ns.links)
  BY DEF Pruned, DeadOf
<1>2. CASE dead = {}
  <2>1. Pruned(ns) = ns
    BY <1>1, <1>2
  <2> QED BY <1>2, <2>1
<1>3. CASE dead # {}
  <2> DEFINE rs == Removed(ns, dead)
  <2> DEFINE ps == Coupled(rs, ns.links)
  <2>1. /\ Graph(rs) /\ Ids(rs) = Ids(ns) \ dead
        /\ rs.text = [f \in Files |-> IF f \in dead THEN NoFile ELSE ns.text[f]]
    BY RemovedIs
  <2> HIDE DEF rs
  <2>2. /\ Graph(ps) /\ Ids(ps) = Ids(rs) /\ ps.text = rs.text /\ Edges(ps) = Edges(rs)
        /\ ps.dependents = {p \in Pairs(ns.links) : {p[1], p[2]} \subseteq Ids(rs) /\ p \notin rs.before}
    BY <2>1, CoupledIs
  <2>3. Pruned(ns) = ps
    BY <1>1, <1>3 DEF rs
  <2>4. ps.before = rs.before
    BY <2>1, GraphFacts DEF Coupled
  <2>5. Pairs(ns.links) = Edges(ns)
    BY DEF Edges
  <2>6. Edges(ps) \in SUBSET (Ids(rs) \X Ids(rs))
    BY <2>1, <2>2, GraphFacts, AllLinksTyped
  <2> HIDE DEF ps
  <2>7. Ids(rs) \in SUBSET Files
    BY <2>1, GraphFacts
  <2>8. \A f \in Ids(ps) : ps.text[f] = ns.text[f]
    BY <2>1, <2>2, <2>7
  <2>9. Edges(ps) \subseteq ps.dependents \cup ((Edges(ps) \ Edges(ns)) \cup Forgotten(ps))
    <3> SUFFICES ASSUME NEW p \in Edges(ps), p \in Edges(ns), p \notin ps.before
                 PROVE  p \in ps.dependents
      BY DEF Forgotten
    <3>1. p[1] \in Ids(rs) /\ p[2] \in Ids(rs)
      BY <2>6
    <3> QED BY <2>2, <2>4, <2>5, <3>1
  <2>10. ps # ns
    <3>1. PICK f \in dead : TRUE
      BY <1>3
    <3>2. f \in Ids(ns) /\ f \notin Ids(rs)
      BY <2>1, <3>1 DEF DeadOf
    <3> QED BY <2>2, <3>2
  <2> QED BY <1>3, <2>1, <2>2, <2>3, <2>8, <2>9, <2>10
<1> QED BY <1>2, <1>3

(* A graph that updates or removals of single files made of the nodes, with *)
(* its loose edges.                                                         *)
Follows(ns) ==
  /\ Graph(ns)
  /\ Edges(ns) \subseteq ns.dependents \cup Loosened(ns)

LEMMA UpdatedFollows ==
  ASSUME Graph(nodes), EdgesCoupled, NEW f \in Files, NEW t \in TextsOf[f]
  PROVE  Follows(Updated(nodes, f, t))
<1> DEFINE ns == Updated(nodes, f, t)
<1> DEFINE K == Ids(nodes)
<1> DEFINE was == Pairs(Links(f, nodes.text[f], K \cup {f}))
<1> DEFINE now == Pairs(Links(f, t, K \cup {f}))
<1>1. /\ Graph(ns) /\ Ids(ns) = K \cup {f}
      /\ ns.text[f] = t /\ \A x \in Files \ {f} : ns.text[x] = nodes.text[x]
      /\ nodes.text[f] = t => ns = nodes
      /\ nodes.text[f] # t => ns.dependents = (nodes.dependents \ (was \ now)) \cup (now \ was)
  <2>0. ns.text[f] = t /\ \A x \in Files \ {f} : ns.text[x] = nodes.text[x]
    BY UpdatedText
  <2>1. Graph(ns) /\ Ids(ns) = K \cup {f}
    BY UpdatedIs
  <2>2. nodes.text[f] = t => ns = nodes
    BY UpdatedIs
  <2>3. nodes.text[f] # t => ns.dependents = Recoupled(nodes.dependents, was, now)
    BY UpdatedIs
  <2> HIDE DEF ns, was, now
  <2> QED BY <2>0, <2>1, <2>2, <2>3 DEF Recoupled
<1>2. \A e \in Edges(nodes) : e \in nodes.dependents \cup loose
  BY DEF EdgesCoupled
<1>3. \A e \in Edges(ns) : e \in Edges(nodes) => e \in loose \/ e \in nodes.dependents
  BY <1>2
<1>4. /\ \A x \in Files : nodes.text[x] \in Known /\ (x \in K <=> nodes.text[x] # NoFile)
      /\ nodes.text \in [Files -> Known]
  BY GraphFacts DEF TreeOf, Tree
<1>5. \A d, g : <<d, g>> \in was <=> d = f /\ \E s \in SpecsOf(nodes.text[f]) : g \in Resolve(s, K \cup {f})
  BY FilePairsAre
<1>6. \A d, g : <<d, g>> \in now <=> d = f /\ \E s \in SpecsOf(t) : g \in Resolve(s, K \cup {f})
  BY FilePairsAre
<1>7. \A d, g : <<d, g>> \in Edges(nodes) <=> d \in K /\ \E s \in SpecsOf(nodes.text[d]) : g \in Resolve(s, K)
  BY EdgesAre
<1>8. \A x \in Files : \A r \in SpecsOf(nodes.text[x]) : r \in Specs /\ x \in K
  BY <1>4, TextFacts
<1>9. K \in SUBSET Files
  BY GraphFacts
<1>10. \A e \in Edges(ns) : /\ e = <<e[1], e[2]>> /\ e[1] \in K \cup {f}
                            /\ \E s \in SpecsOf(ns.text[e[1]]) : e[2] \in Resolve(s, K \cup {f})
  <2> TAKE e \in Edges(ns)
  <2>1. e = <<e[1], e[2]>>
    BY EdgesAre
  <2> DEFINE d == e[1]
  <2> DEFINE g == e[2]
  <2> HIDE DEF d, g, ns
  <2>2. e = <<d, g>>
    BY <2>1 DEF d, g
  <2>3. d \in Ids(ns) /\ \E s \in SpecsOf(ns.text[d]) : g \in Resolve(s, Ids(ns))
    BY <2>2, EdgesAre
  <2> QED BY <1>1, <2>1, <2>3 DEF d, g
<1> HIDE DEF ns, K, was, now
<1>11. ASSUME NEW e \in Edges(ns)
       PROVE  e \in ns.dependents \cup Loosened(ns)
  <2> DEFINE d == e[1]
  <2> DEFINE g == e[2]
  <2>1. /\ e = <<d, g>> /\ d \in K \cup {f}
        /\ \E s \in SpecsOf(ns.text[d]) : g \in Resolve(s, K \cup {f})
    BY <1>10
  <2>2. d \in Files /\ (d # f => ns.text[d] = nodes.text[d]) /\ ns.text[f] = t
    BY <1>1, <1>4, <1>9, <2>1
  <2>3. Loosened(ns) = loose \cup {x \in Edges(ns) \ Edges(nodes) :
                                   x[1] \in K /\ SpecsOf(ns.text[x[1]]) = SpecsOf(nodes.text[x[1]])}
    BY DEF Loosened, K
  <2> HIDE DEF d, g
  <2>4. CASE nodes.text[f] = t
    BY <1>1, <1>2, <2>3, <2>4
  <2>5. CASE nodes.text[f] # t /\ d # f
    <3>1. e \notin was /\ d \in K /\ ns.text[d] = nodes.text[d]
      BY <1>5, <2>1, <2>2, <2>5
    <3>2. CASE e \in Edges(nodes)
      BY <1>1, <1>2, <2>3, <2>5, <3>1, <3>2
    <3>3. CASE e \notin Edges(nodes)
      BY <2>3, <3>1, <3>3 DEF d
    <3> QED BY <3>2, <3>3
  <2>6. CASE nodes.text[f] # t /\ d = f
    <3>1. e \in now
      BY <1>6, <2>1, <2>2, <2>6
    <3>2. CASE e \notin was
      BY <1>1, <2>6, <3>1, <3>2
    <3>3. CASE e \in was
      <4>1. PICK r \in SpecsOf(nodes.text[f]) : g \in Resolve(r, K \cup {f})
        BY <1>5, <2>1, <3>3
      <4>2. r \in Specs /\ f \in K
        BY <1>8, <4>1
      <4>3. K \cup {f} = K
        BY <4>2
      <4>4. e \in Edges(nodes)
        BY <1>7, <2>1, <2>6, <4>1, <4>2, <4>3
      <4> QED BY <1>1, <1>2, <2>3, <2>6, <3>1, <4>4
    <3> QED BY <3>2, <3>3
  <2> QED BY <2>4, <2>5, <2>6
<1> QED BY <1>1, <1>11 DEF Follows, ns

LEMMA RemovedFollows ==
  ASSUME Graph(nodes), EdgesCoupled, NEW gone
  PROVE  Follows(Removed(nodes, gone))
<1> DEFINE ns == Removed(nodes, gone)
<1> DEFINE K == Ids(nodes)
<1>1. /\ Graph(ns) /\ Ids(ns) = K \ gone
      /\ ns.text = [f \in Files |-> IF f \in gone THEN NoFile ELSE nodes.text[f]]
      /\ ns.dependents = {p \in nodes.dependents : p[2] \notin gone}
  BY RemovedIs
<1>2. \A e \in Edges(nodes) : e \in nodes.dependents \cup loose
  BY DEF EdgesCoupled
<1>3. Edges(ns) \in SUBSET (Ids(ns) \X Ids(ns))
  BY <1>1, GraphFacts, AllLinksTyped
<1>4. K \in SUBSET Files
  BY GraphFacts
<1>5. Loosened(ns) = loose \cup {x \in Edges(ns) \ Edges(nodes) :
                                 x[1] \in K /\ SpecsOf(ns.text[x[1]]) = SpecsOf(nodes.text[x[1]])}
  BY DEF Loosened
<1> HIDE DEF ns, K
<1>6. ASSUME NEW e \in Edges(ns)
      PROVE  e \in ns.dependents \cup Loosened(ns)
  <2>1. e[1] \in K \ gone /\ e[2] \in K \ gone
    BY <1>1, <1>3
  <2>2. ns.text[e[1]] = nodes.text[e[1]]
    BY <1>1, <1>4, <2>1
  <2>3. CASE e \in Edges(nodes)
    BY <1>1, <1>2, <1>5, <2>1, <2>3
  <2>4. CASE e \notin Edges(nodes)
    BY <1>5, <2>1, <2>2, <2>4
  <2> QED BY <2>3, <2>4
<1> QED BY <1>1, <1>6 DEF Follows, ns

LEMMA ResolvedFollows ==
  ASSUME NEW ns, Follows(ns)
  PROVE  Follows(Resolved(ns))
<1>1. /\ Graph(Resolved(ns)) /\ Edges(Resolved(ns)) = Edges(ns)
      /\ Resolved(ns).dependents = ns.dependents /\ Resolved(ns).text = ns.text
  BY ResolvedIs DEF Follows
<1>2. Loosened(Resolved(ns)) = Loosened(ns)
  BY <1>1 DEF Loosened
<1> QED BY <1>1, <1>2 DEF Follows

LEMMA IndexedFollows ==
  ASSUME Graph(nodes), Tree(disk), EdgesCoupled, NEW f \in Files
  PROVE  /\ Follows(Indexed(f))
         /\ f \in Ids(Indexed(f)) => disk[f] # NoFile
<1>1. CASE disk[f] = NoFile
  <2>1. Indexed(f) = Removed(nodes, {f})
    BY <1>1 DEF Indexed
  <2>2. Ids(Indexed(f)) = Ids(nodes) \ {f}
    BY <2>1, RemovedIs
  <2> QED BY <1>1, <2>1, <2>2, RemovedFollows
<1>2. CASE disk[f] # NoFile
  <2>1. Indexed(f) = Updated(nodes, f, disk[f]) /\ disk[f] \in TextsOf[f]
    BY <1>2 DEF Indexed, Tree
  <2> QED BY <1>2, <2>1, UpdatedFollows
<1> QED BY <1>1, <1>2

-----------------------------------------------------------------------------
(* Spider: the registry and the report                                      *)

LEMMA ExportsTyped ==
  ASSUME NEW ns, Graph(ns), NEW f \in Ids(ns)
  PROVE  f \in Files /\ ns.text[f] \in Texts /\ Exports[ns.text[f]] \in SUBSET Symbols
<1>1. f \in Files /\ ns.text[f] \in Texts
  BY DEF Graph, Tree, Ids, Present, Known
<1> QED BY <1>1, SpiderAssumption

LEMMA RegisteredIs ==
  ASSUME NEW ns, Graph(ns), NEW touched
  PROVE  /\ registry \in [Files -> SUBSET Symbols] =>
              Registered(ns, touched) \in [Files -> SUBSET Symbols]
         /\ Graph(nodes) /\ registry = RegistryOf(nodes) /\ touched = Touched(ns) =>
              Registered(ns, touched) = RegistryOf(ns)
<1>1. \A f \in Ids(ns) : Exports[ns.text[f]] \in SUBSET Symbols
  BY ExportsTyped
<1>2. ASSUME registry \in [Files -> SUBSET Symbols]
      PROVE  Registered(ns, touched) \in [Files -> SUBSET Symbols]
  BY <1>1, <1>2 DEF Registered
<1>3. ASSUME Graph(nodes), registry = RegistryOf(nodes), touched = Touched(ns)
      PROVE  Registered(ns, touched) = RegistryOf(ns)
  <2>1. ASSUME NEW f \in Files, f \notin touched
        PROVE  registry[f] = IF f \in Ids(ns) THEN Exports[ns.text[f]] ELSE {}
    <3>1. ns.text[f] = nodes.text[f]
      BY <1>3, <2>1 DEF Touched
    <3>2. f \in Ids(ns) <=> f \in Ids(nodes)
      BY <3>1 DEF Ids, Present
    <3> QED BY <1>3, <3>1, <3>2 DEF RegistryOf
  <2> QED BY <2>1 DEF Registered, RegistryOf
<1> QED BY <1>2, <1>3

(* What is said of the importers of a file is what there is to say.         *)
LEMMA DeficienciesRight ==
  ASSUME NEW ns, Graph(ns), ns.links = AllLinks(ns), NEW f \in Ids(ns), NEW inv,
         Edges(ns) \subseteq inv
  PROVE  Deficiencies(ns, RegistryOf(ns), f, Reached(inv, f)) = Broken(ns, f)
<1> DEFINE reg == RegistryOf(ns)
<1> DEFINE K == Ids(ns)
<1> DEFINE P(c) == {g \in Files : c \in reg[g]}
<1> DEFINE Q(c) == {g \in K : c \in Exports[ns.text[g]]}
<1> DEFINE X == {e \in (Reached(inv, f) \cap K) \X (Symbols \ reg[f]) :
                   \E spec \in Specs : <<e[1], spec, f>> \in ns.links /\ <<spec, e[2]>> \in Imports[ns.text[e[1]]]}
<1> DEFINE Y == {c \in K \X (Symbols \ Exports[ns.text[f]]) :
                   \E spec \in Specs : <<spec, c[2]>> \in Imports[ns.text[c[1]]] /\ Resolve(spec, K) = {f}}
<1>1. K \in SUBSET Files /\ f \in Files /\ reg[f] = Exports[ns.text[f]]
  BY GraphFacts DEF RegistryOf
<1>2. \A c : P(c) = Q(c)
  BY <1>1 DEF RegistryOf
<1>3. \A d, s, g : <<d, s, g>> \in ns.links <=> d \in K /\ s \in SpecsOf(ns.text[d]) /\ g \in Resolve(s, K)
  <2>1. \A d, s, g : <<d, s, g>> \in AllLinks(ns) <=> d \in K /\ s \in SpecsOf(ns.text[d]) /\ g \in Resolve(s, K)
    BY AllLinksAre
  <2> HIDE DEF K
  <2> QED BY <2>1
<1>4. \A d \in K : ns.text[d] \in Texts /\ ns.text[d] \in Known
  BY ExportsTyped DEF Known
<1>5. ASSUME NEW e \in X
      PROVE  e \in Y
  <2>1. e \in K \X (Symbols \ Exports[ns.text[f]])
    BY <1>1
  <2>2. PICK spec \in Specs : <<e[1], spec, f>> \in ns.links /\ <<spec, e[2]>> \in Imports[ns.text[e[1]]]
    OBVIOUS
  <2>3. Resolve(spec, K) = {f}
    BY <1>3, <2>2, ResolveFacts
  <2> QED BY <2>1, <2>2, <2>3
<1>6. ASSUME NEW e \in Y
      PROVE  e \in X
  <2>1. e = <<e[1], e[2]>> /\ e[1] \in K /\ e[2] \in Symbols \ reg[f]
    BY <1>1
  <2>2. PICK spec \in Specs : <<spec, e[2]>> \in Imports[ns.text[e[1]]] /\ Resolve(spec, K) = {f}
    OBVIOUS
  <2>3. spec \in SpecsOf(ns.text[e[1]])
    <3>1. \A t \in Known : \A s : s \in SpecsOf(t) <=> t # NoFile /\ \E x \in Symbols : <<s, x>> \in Imports[t]
      BY TextFacts
    <3>2. ns.text[e[1]] \in Known /\ ns.text[e[1]] # NoFile
      BY <1>4, <2>1, TextFacts
    <3> QED BY <2>1, <2>2, <3>1, <3>2
  <2>4. <<e[1], spec, f>> \in ns.links
    BY <1>3, <2>1, <2>2, <2>3
  <2>5. <<e[1], f>> \in Edges(ns)
    BY <2>1, <2>2, <2>3, EdgesAre
  <2>6. <<e[1], f>> \in inv
    BY <2>5
  <2>7. e[1] \in Reached(inv, f)
    <3> DEFINE q == <<e[1], f>>
    <3>1. q[1] = e[1] /\ q[2] = f
      OBVIOUS
    <3>2. q \in {p \in inv : \A files \in SUBSET Files : f \in files /\ Closed(inv, files) => p[2] \in files}
      BY <2>6, <3>1
    <3> HIDE DEF q
    <3> QED BY <3>1, <3>2 DEF Reached
  <2> QED BY <2>1, <2>2, <2>4, <2>7
<1>7. X = Y
  BY <1>5, <1>6
<1>8. Deficiencies(ns, reg, f, Reached(inv, f)) = {<<c[1], c[2], P(c[2])>> : c \in X}
  BY DEF Deficiencies
<1>9. Broken(ns, f) = {<<c[1], c[2], Q(c[2])>> : c \in Y}
  BY DEF Broken
<1> HIDE DEF X, Y, P, Q, reg
<1>10. {<<c[1], c[2], P(c[2])>> : c \in X} = {<<c[1], c[2], Q(c[2])>> : c \in Y}
  BY <1>2, <1>7
<1> QED BY <1>8, <1>9, <1>10 DEF reg

-----------------------------------------------------------------------------
(* Spider: the ghosts and their cache                                       *)

(* The imports of a text are in different places.                           *)
LEMMA PlaceInjective ==
  ASSUME NEW t \in Texts, NEW met \in SUBSET Specs, NEW r \in met, NEW s \in met,
         Place(t, met, r) = Place(t, met, s)
  PROVE  r = s
<1> DEFINE B(k) == {i \in met : Line[<<t, i>>] < Line[<<t, k>>]}
<1>1. \A i \in met : Line[<<t, i>>] \in Nat
  BY SpiderAssumption
<1>2. \A i, k \in met : Line[<<t, i>>] = Line[<<t, k>>] => i = k
  BY SpiderAssumption
<1>3. IsFiniteSet(met)
  BY SpiderAssumption, FS_Subset
<1>4. \A k : B(k) \in SUBSET met /\ IsFiniteSet(B(k)) /\ Cardinality(B(k)) = Place(t, met, k)
  BY <1>3, FS_Subset DEF Place
<1>5. ASSUME NEW i \in met, NEW k \in met, Line[<<t, i>>] < Line[<<t, k>>]
      PROVE  Place(t, met, i) # Place(t, met, k)
  <2>1. B(i) \in SUBSET B(k) /\ i \in B(k) /\ i \notin B(i)
    BY <1>1, <1>5
  <2> HIDE DEF B
  <2>2. B(i) # B(k)
    BY <2>1
  <2>3. Cardinality(B(k)) = Cardinality(B(i)) => B(k) = B(i)
    BY <1>4, <2>1, FS_Subset
  <2> QED BY <1>4, <2>2, <2>3
<1>6. Line[<<t, r>>] = Line[<<t, s>>]
  <2>1. Line[<<t, r>>] \in Nat /\ Line[<<t, s>>] \in Nat
    BY <1>1
  <2>2. ~(Line[<<t, r>>] < Line[<<t, s>>]) /\ ~(Line[<<t, s>>] < Line[<<t, r>>])
    BY <1>5
  <2> QED BY <2>1, <2>2
<1> QED BY <1>2, <1>6

(* What was seen says what the imports met, and so which ghosts there are.  *)
LEMMA SameGhosts ==
  ASSUME NEW d, NEW t \in Texts, NEW met \in SUBSET Specs, NEW m, NEW n,
         DepsOf(t, met, m) = DepsOf(t, met, n)
  PROVE  GhostsOf(d, t, met, m) = GhostsOf(d, t, met, n)
<1>1. ASSUME NEW s \in met
      PROVE  m[s] = n[s]
  <2>1. <<Place(t, met, s), m[s]>> \in DepsOf(t, met, n)
    BY DEF DepsOf
  <2>2. PICK r \in met : <<Place(t, met, s), m[s]>> = <<Place(t, met, r), n[r]>>
    BY <2>1 DEF DepsOf
  <2>3. Place(t, met, s) = Place(t, met, r) /\ m[s] = n[r]
    BY <2>2
  <2> QED BY <2>3, PlaceInjective
<1>2. {j \in Imports[t] : j[1] \in met /\ j[2] \notin Exports[m[j[1]]]} =
      {j \in Imports[t] : j[1] \in met /\ j[2] \notin Exports[n[j[1]]]}
  BY <1>1
<1> QED BY <1>2 DEF GhostsOf

(* The text that each specifier means.                                      *)
Meant(ns) == [s \in Specs |-> IF Resolve(s, Ids(ns)) = {} THEN NoFile
                              ELSE ns.text[CHOOSE g \in Resolve(s, Ids(ns)) : TRUE]]

LEMMA MeantIs ==
  ASSUME NEW ns, Graph(ns)
  PROVE  /\ Meant(ns) \in [Specs -> Known]
         /\ \A s \in Specs : \A g \in Resolve(s, Ids(ns)) : g \in Ids(ns) /\ Meant(ns)[s] = ns.text[g]
<1>1. \A s \in Specs : \A g \in Resolve(s, Ids(ns)) : g \in Files /\ g \in Ids(ns) /\ Resolve(s, Ids(ns)) = {g}
  BY ResolveFacts
<1>2. \A f \in Files : ns.text[f] \in Known
  BY DEF Graph, Tree
<1>3. \A s \in Specs : \A g \in Resolve(s, Ids(ns)) : (CHOOSE x \in Resolve(s, Ids(ns)) : TRUE) = g
  BY <1>1
<1>4. \A s \in Specs : \A g \in Resolve(s, Ids(ns)) : Meant(ns)[s] = ns.text[g]
  BY <1>3 DEF Meant
<1>5. \A s \in Specs : Meant(ns)[s] \in Known
  <2> TAKE s \in Specs
  <2>1. CASE Resolve(s, Ids(ns)) = {}
    BY <2>1 DEF Meant, Known
  <2>2. CASE Resolve(s, Ids(ns)) # {}
    BY <1>1, <1>2, <1>4, <2>2
  <2> QED BY <2>1, <2>2
<1>6. Meant(ns) \in [Specs -> Known]
  BY <1>5 DEF Meant
<1> QED BY <1>1, <1>4, <1>6

(* A look at a file when it is sure what its imports mean.                  *)
LEMMA SureLook ==
  ASSUME NEW ns, Graph(ns), Tree(disk), Ids(ns) \subseteq Present(disk), NEW d \in Ids(ns), NEW links,
         Sure(ns, d, links)
  PROVE  /\ disk[d] \in Texts
         /\ Met(ns, d, links) \in SUBSET Specs
         /\ Deps(ns, d, links) = DepsOf(disk[d], Met(ns, d, links), Meant(ns))
         /\ GhostsIn(ns, d, links) = GhostsOf(d, disk[d], Met(ns, d, links), Meant(ns))
         /\ (\A f \in Ids(ns) : ns.text[f] = disk[f]) =>
              Dangling(d) = GhostsOf(d, disk[d], Met(ns, d, links), Meant(ns))
<1> DEFINE t == disk[d]
<1> DEFINE K == Ids(ns)
<1> DEFINE met == Met(ns, d, links)
<1> DEFINE m == Meant(ns)
<1>1. ns.text[d] = t /\ t \in Texts /\ t \in Known /\ t # NoFile /\ K \in SUBSET Files
  BY ExportsTyped, GraphFacts, TextFacts DEF Sure, Known
<1>2. /\ \A s, g : <<d, s, g>> \in links <=> s \in SpecsOf(t) /\ g \in Resolve(s, K)
      /\ \A l \in links : l = <<d, l[2], l[3]>>
  BY LinksAre DEF Sure
<1>3. SpecsOf(t) \subseteq Specs
  BY <1>1, TextFacts
<1>4. \A s \in SpecsOf(t) : \A g \in Resolve(s, K) : /\ g \in K /\ m[s] = ns.text[g]
                                                     /\ Resolve(s, K) = {g}
  BY <1>3, MeantIs, ResolveFacts
<1>5. \A s : s \in met <=> s \in SpecsOf(t) /\ Resolve(s, K) # {}
  BY <1>1, <1>2, <1>4 DEF Met
<1>6. \A s \in SpecsOf(t) : Resolve(s, Present(disk)) = Resolve(s, K)
  <2> TAKE s \in SpecsOf(t)
  <2>1. \A f \in Range(Candidates[s]) : f \in Present(disk) <=> f \in K
    BY DEF Sure
  <2> QED BY <1>3, <2>1, ResolveAlike
<1>7. \A j \in Imports[t] : j[1] \in SpecsOf(t) /\ (Exists(j[1]) <=> j[1] \in met)
  <2> TAKE j \in Imports[t]
  <2>1. j[1] \in SpecsOf(t)
    BY <1>1 DEF SpecsOf
  <2> QED BY <1>5, <1>6, <2>1 DEF Exists
<1>8. Deps(ns, d, links) = DepsOf(t, met, m)
  <2> DEFINE L == {k \in links : k[1] = d /\ k[2] \in met /\ k[3] \in K}
  <2>1. Deps(ns, d, links) = {<<Place(t, met, l[2]), ns.text[l[3]]>> : l \in L}
    BY <1>1 DEF Deps
  <2>2. \A l \in L : l[2] \in met /\ ns.text[l[3]] = m[l[2]]
    <3> TAKE l \in L
    <3>1. l = <<d, l[2], l[3]>> /\ l[2] \in met
      BY <1>2
    <3>2. l[2] \in SpecsOf(t) /\ l[3] \in Resolve(l[2], K)
      BY <1>2, <3>1
    <3> QED BY <1>4, <3>1, <3>2
  <2>3. \A s \in met : \E l \in L : l[2] = s
    <3> TAKE s \in met
    <3>1. PICK g \in Resolve(s, K) : s \in SpecsOf(t)
      BY <1>5
    <3>2. <<d, s, g>> \in links /\ g \in K
      BY <1>2, <1>4, <3>1
    <3> DEFINE l == <<d, s, g>>
    <3>3. l[1] = d /\ l[2] = s /\ l[3] = g
      OBVIOUS
    <3>4. l \in L
      BY <3>2, <3>3
    <3> QED BY <3>3, <3>4
  <2> HIDE DEF L, met, m, t
  <2> QED BY <2>1, <2>2, <2>3 DEF DepsOf
<1> HIDE DEF t, K
<1>9. GhostsIn(ns, d, links) = GhostsOf(d, t, met, m)
  <2>1. GhostsIn(ns, d, links) =
          {<<d, i[1], NoFile>> : i \in {j \in Imports[t] : ~Exists(j[1])}}
          \cup {<<d, i[1], i[2]>> : i \in {j \in Imports[t] :
                  Exists(j[1]) /\ \E g \in K : <<d, j[1], g>> \in links /\ j[2] \notin Exports[ns.text[g]]}}
    BY DEF GhostsIn, t, K
  <2>2. {j \in Imports[t] : ~Exists(j[1])} = {j \in Imports[t] : j[1] \notin met}
    BY <1>7
  <2>3. ASSUME NEW j \in Imports[t]
        PROVE  Exists(j[1]) /\ (\E g \in K : <<d, j[1], g>> \in links /\ j[2] \notin Exports[ns.text[g]])
               <=> j[1] \in met /\ j[2] \notin Exports[m[j[1]]]
    <3>1. j[1] \in SpecsOf(t) /\ (Exists(j[1]) <=> j[1] \in met)
      BY <1>7
    <3>2. \A g : <<d, j[1], g>> \in links <=> g \in Resolve(j[1], K)
      BY <1>2, <3>1
    <3>3. \A g \in Resolve(j[1], K) : g \in K /\ m[j[1]] = ns.text[g]
      BY <1>4, <3>1
    <3>4. j[1] \in met => \E g : g \in Resolve(j[1], K)
      BY <1>5
    <3> HIDE DEF met, m
    <3> QED BY <3>1, <3>2, <3>3, <3>4
  <2>4. {j \in Imports[t] : Exists(j[1]) /\ \E g \in K : <<d, j[1], g>> \in links /\ j[2] \notin Exports[ns.text[g]]}
        = {j \in Imports[t] : j[1] \in met /\ j[2] \notin Exports[m[j[1]]]}
    BY <2>3
  <2> HIDE DEF met, m
  <2> QED BY <2>1, <2>2, <2>4 DEF GhostsOf
<1>10. ASSUME \A f \in K : ns.text[f] = disk[f]
       PROVE  Dangling(d) = GhostsOf(d, t, met, m)
  <2> DEFINE D == {j \in Imports[t] : ~\E f \in Resolve(j[1], Present(disk)) : j[2] \in Exports[disk[f]]}
  <2> DEFINE N == {j \in Imports[t] : j[1] \notin met}
  <2> DEFINE M == {j \in Imports[t] : j[1] \in met /\ j[2] \notin Exports[m[j[1]]]}
  <2>1. Dangling(d) = {<<d, i[1], IF Exists(i[1]) THEN i[2] ELSE NoFile>> : i \in D}
    BY DEF Dangling, t
  <2>2. ASSUME NEW j \in Imports[t]
        PROVE  j \in D <=> j \in N \/ j \in M
    <3>1. /\ j[1] \in SpecsOf(t) /\ Resolve(j[1], Present(disk)) = Resolve(j[1], K)
          /\ j[1] \in met <=> Resolve(j[1], K) # {}
      BY <1>5, <1>6, <1>7
    <3>2. \A g \in Resolve(j[1], K) : g \in K /\ m[j[1]] = ns.text[g] /\ Resolve(j[1], K) = {g}
      BY <1>4, <3>1
    <3>3. \A g \in Resolve(j[1], K) : m[j[1]] = disk[g]
      BY <1>10, <3>2
    <3> HIDE DEF met, m
    <3> QED BY <3>1, <3>2, <3>3
  <2>3. D = N \cup M
    BY <2>2
  <2>4. \A j \in N : j \in Imports[t] /\ ~Exists(j[1])
    BY <1>7
  <2>5. \A j \in M : j \in Imports[t] /\ Exists(j[1])
    BY <1>7
  <2>6. GhostsOf(d, t, met, m) = {<<d, i[1], NoFile>> : i \in N} \cup {<<d, i[1], i[2]>> : i \in M}
    BY DEF GhostsOf
  <2> HIDE DEF D, N, M
  <2> QED BY <2>1, <2>3, <2>4, <2>5, <2>6
<1> QED BY <1>1, <1>5, <1>3, <1>8, <1>9, <1>10 DEF t, K

-----------------------------------------------------------------------------
(* Spider: what a step keeps                                                *)

LEMMA TreesAre == \A t : t \in Trees <=> Tree(t)
  BY DEF Trees, Tree

LEMMA KeepGraph ==
  ASSUME GraphInv, UNCHANGED <<nodes, registry, current, inverse, cached, loose, causes>>
  PROVE  GraphInv'
  BY DEF GraphInv, GraphTypes, DiscoveryTypes, RegistryRight, InverseRight, EdgesCoupled

LEMMA KeepFound ==
  ASSUME FoundInv, UNCHANGED <<seen, report, ghosts>>, causes' = {} => causes = {}
  PROVE  FoundInv'
  BY DEF FoundInv, SeenRight, ReportExact, GhostsExact

LEMMA KeepStore ==
  ASSUME StoreInv, UNCHANGED <<disk, head, saved, boot, bootstrapped>>
  PROVE  StoreInv'
  BY DEF StoreInv, SavedTypes, BootTypes

LEMMA NoneTouched ==
  ASSUME Graph(nodes), NEW ns, Graph(ns), Touched(ns) = {}
  PROVE  ns.text = nodes.text
<1>1. ns.text \in [Files -> Known] /\ nodes.text \in [Files -> Known]
  BY DEF Graph, Tree
<1>2. \A f \in Files : ns.text[f] = nodes.text[f]
  BY DEF Touched
<1> QED BY <1>1, <1>2

(* Updates and removals.                                                    *)
LEMMA BecomesKeeps ==
  ASSUME GraphInv, NEW ns, Follows(ns), Becomes(ns)
  PROVE  GraphInv' /\ (causes' = {} => causes = {})
<1>1. /\ nodes' = ns /\ registry' = Registered(ns, Touched(ns)) /\ loose' = Loosened(ns)
      /\ current' = (current /\ Touched(ns) = {}) /\ inverse' = inverse /\ cached' = cached
      /\ causes' = causes
  BY DEF Becomes
<1>2. Graph(ns) /\ Edges(ns) \subseteq ns.dependents \cup Loosened(ns)
  BY DEF Follows
<1>3. Graph(nodes) /\ registry \in [Files -> SUBSET Symbols]
  BY DEF GraphInv, GraphTypes
<1>4. GraphTypes'
  BY <1>1, <1>2, <1>3, RegisteredIs DEF GraphTypes
<1>5. RegistryRight'
  <2> SUFFICES ASSUME causes = {} PROVE registry' = RegistryOf(ns)
    BY <1>1 DEF RegistryRight
  <2>1. registry = RegistryOf(nodes)
    BY DEF GraphInv, RegistryRight
  <2> QED BY <1>1, <1>2, <1>3, <2>1, RegisteredIs
<1>6. InverseRight'
  <2> SUFFICES ASSUME causes = {}, current, Touched(ns) = {} PROVE Edges(ns) \subseteq inverse
    BY <1>1 DEF InverseRight
  <2>1. Edges(nodes) \subseteq inverse
    BY DEF GraphInv, InverseRight
  <2>2. Edges(ns) = Edges(nodes)
    BY <1>2, <1>3, NoneTouched, SameText
  <2> QED BY <2>1, <2>2
<1>7. EdgesCoupled'
  BY <1>1, <1>2 DEF EdgesCoupled
<1>8. DiscoveryTypes'
  BY <1>1 DEF GraphInv, DiscoveryTypes
<1> QED BY <1>1, <1>4, <1>5, <1>6, <1>7, <1>8 DEF GraphInv

LEMMA VerifiedFollows ==
  ASSUME GraphInv
  PROVE  Follows(Verified)
  BY RemovedFollows DEF GraphInv, GraphTypes, Verified

(* What the cache gives for a file, and what it then has for it.            *)
LEMMA LookedIs ==
  ASSUME NEW ns, NEW d, NEW links, NEW sure
  PROVE  \/ /\ Looked(ns, d, links, sure) = seen[d]
            /\ seen[d].text = disk[d] /\ seen[d].deps = Deps(ns, d, links)
         \/ /\ Looked(ns, d, links, sure).text = disk[d]
            /\ Looked(ns, d, links, sure).deps = Deps(ns, d, links)
            /\ Looked(ns, d, links, sure).ghosts = GhostsIn(ns, d, links)
            /\ Looked(ns, d, links, sure).sure = sure
            /\ Looked(ns, d, links, sure).met = Met(ns, d, links)
  BY DEF Looked

SeenOf(d, c) == c.sure => c.text = NoFile \/ Shown(d, c)

LEMMA LookRight ==
  ASSUME NEW ns, Graph(ns), Tree(disk), Ids(ns) \subseteq Present(disk), NEW d \in Ids(ns), NEW links,
         NEW sure, sure => Sure(ns, d, links), SeenOf(d, seen[d])
  PROVE  /\ SeenOf(d, Looked(ns, d, links, sure))
         /\ (/\ Sure(ns, d, links)
             /\ Looked(ns, d, links, sure).sure
             /\ Looked(ns, d, links, sure).met = Met(ns, d, links)
             /\ \A f \in Ids(ns) : ns.text[f] = disk[f])
            => Looked(ns, d, links, sure).ghosts = Dangling(d)
<1> DEFINE c == Looked(ns, d, links, sure)
<1> DEFINE met == Met(ns, d, links)
<1> DEFINE m == Meant(ns)
<1>1. disk[d] # NoFile
  BY DEF Present
<1>2. m \in [Specs -> Known]
  BY MeantIs
<1>3. ASSUME Sure(ns, d, links)
      PROVE  /\ disk[d] \in Texts /\ met \in SUBSET Specs
             /\ Deps(ns, d, links) = DepsOf(disk[d], met, m)
             /\ GhostsIn(ns, d, links) = GhostsOf(d, disk[d], met, m)
             /\ (\A f \in Ids(ns) : ns.text[f] = disk[f]) => Dangling(d) = GhostsOf(d, disk[d], met, m)
  BY <1>3, SureLook
<1>4. CASE c = seen[d] /\ seen[d].text = disk[d] /\ seen[d].deps = Deps(ns, d, links)
  <2>1. SeenOf(d, c)
    BY <1>4
  <2>2. ASSUME Sure(ns, d, links), c.sure, c.met = met, \A f \in Ids(ns) : ns.text[f] = disk[f]
        PROVE  c.ghosts = Dangling(d)
    <3>1. Shown(d, c) /\ c.text = disk[d]
      BY <1>1, <1>4, <2>1, <2>2 DEF SeenOf
    <3>2. PICK n \in [Specs -> Known] : /\ c.deps = DepsOf(disk[d], met, n)
                                        /\ c.ghosts = GhostsOf(d, disk[d], met, n)
      BY <2>2, <3>1 DEF Shown
    <3>3. DepsOf(disk[d], met, n) = DepsOf(disk[d], met, m)
      BY <1>3, <1>4, <2>2, <3>2
    <3>4. disk[d] \in Texts /\ met \in SUBSET Specs
      BY <1>3, <2>2
    <3>5. GhostsOf(d, disk[d], met, n) = GhostsOf(d, disk[d], met, m)
      BY <3>3, <3>4, SameGhosts
    <3>6. Dangling(d) = GhostsOf(d, disk[d], met, m)
      BY <1>3, <2>2
    <3> QED BY <3>2, <3>5, <3>6
  <2> QED BY <2>1, <2>2
<1>5. CASE /\ c.text = disk[d] /\ c.deps = Deps(ns, d, links)
           /\ c.ghosts = GhostsIn(ns, d, links) /\ c.sure = sure /\ c.met = met
  <2> HIDE DEF c, met, m
  <2>1. ASSUME sure
        PROVE  Shown(d, c)
    <3>1. Sure(ns, d, links)
      BY <2>1
    <3>2. c.deps = DepsOf(c.text, c.met, m) /\ c.ghosts = GhostsOf(d, c.text, c.met, m)
      BY <1>3, <1>5, <3>1
    <3>3. c.met \subseteq Specs
      BY <1>3, <1>5, <3>1
    <3> QED BY <1>2, <3>2, <3>3 DEF Shown
  <2>2. SeenOf(d, c)
    BY <1>5, <2>1 DEF SeenOf
  <2>3. ASSUME Sure(ns, d, links), \A f \in Ids(ns) : ns.text[f] = disk[f]
        PROVE  c.ghosts = Dangling(d)
    <3>1. /\ GhostsIn(ns, d, links) = GhostsOf(d, disk[d], met, m)
          /\ Dangling(d) = GhostsOf(d, disk[d], met, m)
      BY <1>3, <2>3
    <3> QED BY <1>5, <3>1
  <2> QED BY <2>2, <2>3 DEF c
<1> QED BY <1>4, <1>5, LookedIs

(* An audit: the graph it leaves ...                                        *)
OrderFor(read, order) ==
  /\ \A f \in read, g \in read \ Ids(nodes) : f # g => <<f, g>> \in order \/ <<g, f>> \in order
  /\ \A f, g, h : <<f, g>> \in order /\ <<g, h>> \in order => <<f, h>> \in order

LEMMA AuditGraph ==
  ASSUME GraphInv, Tree(disk), NEW scope, NEW order, Audit(scope, order),
         OrderFor(scope \cap Present(disk), order)
  PROVE  /\ GraphTypes' /\ RegistryRight' /\ EdgesCoupled'
         /\ causes' = {} => causes = {} /\ nodes'.links = AllLinks(nodes')
<1> DEFINE read == scope \cap Present(disk)
<1> DEFINE A == Audited(read, order)
<1> DEFINE ns == Pruned(A)
<1>1. /\ nodes' = ns /\ registry' = Registered(A, Touched(A))
      /\ loose' = IF ns = A THEN loose \cup Overtaken(read, order)
                  ELSE (Edges(ns) \ Edges(A)) \cup Forgotten(ns)
      /\ causes' = IF ns = A THEN causes ELSE causes \cup {"dropped"}
  BY DEF Audit
<1>2. Graph(nodes) /\ registry \in [Files -> SUBSET Symbols] /\ EdgesCoupled
  BY DEF GraphInv, GraphTypes
<1>3. read \in SUBSET Present(disk)
  OBVIOUS
<1> HIDE DEF read
<1>4. Graph(A) /\ A.links = AllLinks(A)
  BY <1>2, <1>3, AuditedIs
<1>5. Edges(A) \subseteq A.dependents \cup (loose \cup Overtaken(read, order))
  BY <1>2, <1>3, AuditedCouples DEF OrderFor, read
<1> HIDE DEF A
<1>6. /\ Graph(ns)
      /\ ns = A <=> DeadOf(A) = {}
      /\ DeadOf(A) # {} => Edges(ns) \subseteq ns.dependents \cup ((Edges(ns) \ Edges(A)) \cup Forgotten(ns))
  BY <1>4, PrunedIs
<1> HIDE DEF ns
<1>7. GraphTypes'
  BY <1>1, <1>2, <1>4, <1>6, RegisteredIs DEF GraphTypes
<1>8. causes' = {} => ns = A /\ causes = {}
  BY <1>1
<1>9. RegistryRight'
  <2> SUFFICES ASSUME causes' = {} PROVE registry' = RegistryOf(ns)
    BY <1>1 DEF RegistryRight
  <2>1. registry = RegistryOf(nodes)
    BY <1>8 DEF GraphInv, RegistryRight
  <2> QED BY <1>1, <1>2, <1>4, <1>8, <2>1, RegisteredIs
<1>10. EdgesCoupled'
  BY <1>1, <1>5, <1>6 DEF EdgesCoupled
<1> QED BY <1>1, <1>4, <1>7, <1>8, <1>9, <1>10

(* ... and what it finds.                                                   *)
LEMMA AuditFound ==
  ASSUME StoreInv, GraphInv, FoundInv, NEW scope, NEW order, Audit(scope, order)
  PROVE  FoundInv'
<1> DEFINE read == scope \cap Present(disk)
<1> DEFINE A == Audited(read, order)
<1> DEFINE ns == Pruned(A)
<1> DEFINE links(d) == {l \in A.links : l[1] = d} \cup
                       {l \in Links(d, disk[d], Ids(ns)) : l[2] \notin SpecsOf(A.text[d])}
<1> DEFINE alike == {d \in Ids(ns) : Sure(ns, d, links(d))}
<1> DEFINE firm == {d \in alike : seen'[d].sure /\ seen'[d].met = Met(ns, d, links(d))}
<1>1. /\ seen' = [d \in Files |-> IF d \in Ids(ns) THEN Looked(ns, d, links(d), d \in alike) ELSE seen[d]]
      /\ ghosts' = IF scope = Ids(nodes)
                   THEN [found |-> UNION {seen'[d].ghosts : d \in firm},
                         due |-> UNION {Dangling(d) : d \in firm}]
                   ELSE ghosts
      /\ causes' = IF ns = A THEN causes ELSE causes \cup {"dropped"}
      /\ report' = report
  BY DEF Audit
<1>2. Graph(nodes) /\ Tree(disk) /\ SeenRight
  BY DEF GraphInv, GraphTypes, StoreInv, FoundInv
<1>3. read \in SUBSET Present(disk)
  OBVIOUS
<1>4. /\ Graph(A) /\ A.links = AllLinks(A) /\ Ids(A) = Ids(nodes) \cup read
      /\ A.text = [f \in Files |-> IF f \in read THEN disk[f] ELSE nodes.text[f]]
  BY <1>2, <1>3, AuditedIs
<1> HIDE DEF read, A
<1>5. Graph(ns) /\ Ids(ns) = Ids(A) \ DeadOf(A) /\ \A f \in Ids(ns) : ns.text[f] = A.text[f]
  BY <1>4, PrunedIs
<1> HIDE DEF ns
<1>6. Ids(ns) \subseteq Present(disk) /\ Ids(ns) \in SUBSET Files
  BY <1>5, GraphFacts DEF DeadOf
<1>7. scope = Ids(nodes) => \A f \in Ids(ns) : ns.text[f] = disk[f]
  <2> SUFFICES ASSUME scope = Ids(nodes), NEW f \in Ids(ns) PROVE ns.text[f] = disk[f]
    OBVIOUS
  <2>1. f \in read
    BY <1>4, <1>5, <1>6 DEF read
  <2> QED BY <1>4, <1>5, <1>6, <2>1
<1> HIDE DEF links
<1>8. \A d \in alike : Sure(ns, d, links(d)) /\ d \in Ids(ns)
  OBVIOUS
<1>9. \A d \in Ids(ns) : (d \in alike) => Sure(ns, d, links(d))
  OBVIOUS
<1> HIDE DEF alike
<1>10. \A d \in Ids(ns) : SeenOf(d, seen[d])
  BY <1>2, <1>6 DEF SeenRight, SeenOf
<1>11. ASSUME NEW d \in Ids(ns)
       PROVE  /\ seen'[d] = Looked(ns, d, links(d), d \in alike)
              /\ SeenOf(d, seen'[d])
              /\ (/\ Sure(ns, d, links(d))
                  /\ seen'[d].sure
                  /\ seen'[d].met = Met(ns, d, links(d))
                  /\ \A f \in Ids(ns) : ns.text[f] = disk[f]) => seen'[d].ghosts = Dangling(d)
  <2>1. seen'[d] = Looked(ns, d, links(d), d \in alike)
    BY <1>1, <1>6
  <2> DEFINE sure == d \in alike
  <2>2. sure => Sure(ns, d, links(d))
    BY <1>9
  <2>3. SeenOf(d, seen[d])
    BY <1>10
  <2> HIDE DEF sure
  <2>4. /\ SeenOf(d, Looked(ns, d, links(d), sure))
        /\ (/\ Sure(ns, d, links(d))
            /\ Looked(ns, d, links(d), sure).sure
            /\ Looked(ns, d, links(d), sure).met = Met(ns, d, links(d))
            /\ \A f \in Ids(ns) : ns.text[f] = disk[f])
           => Looked(ns, d, links(d), sure).ghosts = Dangling(d)
    BY <1>2, <1>5, <1>6, <2>2, <2>3, LookRight
  <2>5. seen'[d] = Looked(ns, d, links(d), sure)
    BY <2>1 DEF sure
  <2> QED BY <2>1, <2>4, <2>5
<1>12. SeenRight'
  <2>1. DOMAIN seen' = Files
    BY <1>1
  <2>2. ASSUME NEW d \in Files PROVE SeenOf(d, seen'[d])
    <3>1. CASE d \in Ids(ns)
      BY <1>11, <3>1
    <3>2. CASE d \notin Ids(ns)
      <4>1. seen'[d] = seen[d]
        BY <1>1, <3>2
      <4> QED BY <1>2, <4>1 DEF SeenRight, SeenOf
    <3> QED BY <3>1, <3>2
  <2> QED BY <2>1, <2>2 DEF SeenRight, SeenOf
<1>13. GhostsExact'
  <2>1. CASE scope = Ids(nodes)
    <3>1. \A d \in firm : seen'[d].ghosts = Dangling(d)
      BY <1>7, <1>8, <1>11, <2>1
    <3> HIDE DEF firm
    <3>2. {seen'[d].ghosts : d \in firm} = {Dangling(d) : d \in firm}
      BY <3>1
    <3>3. ghosts' = [found |-> UNION {seen'[d].ghosts : d \in firm},
                     due |-> UNION {Dangling(d) : d \in firm}]
      BY <1>1, <2>1
    <3> QED BY <3>2, <3>3 DEF GhostsExact
  <2>2. CASE scope # Ids(nodes)
    BY <1>1, <2>2 DEF FoundInv, GhostsExact
  <2> QED BY <2>1, <2>2
<1>14. ReportExact'
  BY <1>1 DEF FoundInv, ReportExact
<1> QED BY <1>12, <1>13, <1>14 DEF FoundInv

LEMMA AuditRest ==
  ASSUME NEW scope, NEW order, Audit(scope, order)
  PROVE  UNCHANGED <<disk, head, saved, boot, bootstrapped>>
  BY DEF Audit

-----------------------------------------------------------------------------
(* Spider: the steps                                                        *)

LEMMA SpiderInitInv == SpiderInit => SpiderInv
<1> SUFFICES ASSUME SpiderInit PROVE SpiderInv
  OBVIOUS
<1>1. disk \in Starts /\ head = disk /\ nodes = NoGraph
  BY DEF SpiderInit
<1>2. Tree(disk) /\ Tree(head)
  BY <1>1, SpiderAssumption DEF Tree, Known
<1>3. SavedTypes
  <2>1. saved = [commit |-> {}, nodes |-> NoGraph]
    BY DEF SpiderInit, Unsaved
  <2> QED BY <2>1, NoGraphIs DEF SavedTypes
<1>4. BootTypes
  <2>1. NoTree \in Trees
    BY TreesAre, NoGraphIs
  <2>2. [pc |-> "idle", last |-> {}, head |-> NoTree, todo |-> {}] \in BootSet
    BY <2>1 DEF BootSet, BootPCs
  <2> QED BY <2>2 DEF SpiderInit, BootTypes, Idle
<1>5. registry \in [Files -> SUBSET Symbols] /\ registry = RegistryOf(nodes)
  BY <1>1, NoGraphIs DEF SpiderInit, Unregistered, RegistryOf
<1>6. GraphInv
  BY <1>1, <1>5, NoGraphIs
     DEF SpiderInit, GraphInv, GraphTypes, DiscoveryTypes, RegistryRight, InverseRight, EdgesCoupled
<1>7. FoundInv
  <2>1. SeenRight
    BY DEF SpiderInit, SeenRight, Unseen
  <2> QED BY <2>1 DEF SpiderInit, FoundInv, ReportExact, GhostsExact, NoResult
<1> QED BY <1>2, <1>3, <1>4, <1>6, <1>7 DEF SpiderInv, StoreInv

(* A file written makes its nodes old and nothing else.                     *)
LEMMA OldIs ==
  ASSUME NEW ns, Graph(ns), NEW f
  PROVE  /\ Graph([ns EXCEPT !.old = ns.old \cup ({f} \cap Ids(ns))])
         /\ [ns EXCEPT !.old = ns.old \cup ({f} \cap Ids(ns))].text = ns.text
         /\ [ns EXCEPT !.old = ns.old \cup ({f} \cap Ids(ns))].dependents = ns.dependents
<1> DEFINE S == Ids(ns)
<1> DEFINE o == ns.old \cup ({f} \cap S)
<1> DEFINE os == [ns EXCEPT !.old = o]
<1>1. /\ S \in SUBSET Files /\ TreeOf(S, ns.text) /\ ns.before \in SUBSET (S \X S)
      /\ ns.links \in SUBSET (S \X Specs \X Files) /\ ns.dependents \in SUBSET (Files \X S)
      /\ ns = [text |-> ns.text, before |-> ns.before, links |-> ns.links,
               dependents |-> ns.dependents, old |-> ns.old]
  BY GraphFacts
<1>2. o \in SUBSET S
  BY GraphFacts
<1> HIDE DEF o, S
<1>3. os = [text |-> ns.text, before |-> ns.before, links |-> ns.links,
            dependents |-> ns.dependents, old |-> o]
  BY <1>1
<1>4. os.text = ns.text /\ os.dependents = ns.dependents
  BY <1>3
<1> HIDE DEF os
<1>5. Graph(os)
  BY <1>1, <1>2, <1>3, GraphOf
<1> QED BY <1>4, <1>5 DEF os, o, S

LEMMA EditInv ==
  ASSUME SpiderInv, NEW f \in Files, NEW text \in TextsOf[f] \cup {NoFile}, Edit(f, text)
  PROVE  SpiderInv'
<1>1. /\ disk' = [disk EXCEPT ![f] = text]
      /\ nodes' = [nodes EXCEPT !.old = nodes.old \cup ({f} \cap Ids(nodes))]
      /\ saved' = [saved EXCEPT !.nodes.old = saved.nodes.old \cup ({f} \cap Ids(saved.nodes))]
      /\ UNCHANGED <<head, registry, current, inverse, cached, seen, bootstrapped, boot, report,
                     ghosts, loose, causes>>
  BY DEF Edit, discovery, findings, history
<1>2. Graph(nodes) /\ Tree(disk) /\ Tree(head) /\ SavedTypes /\ BootTypes
  BY DEF SpiderInv, GraphInv, GraphTypes, StoreInv
<1>3. Graph(nodes') /\ nodes'.text = nodes.text /\ nodes'.dependents = nodes.dependents
  BY <1>1, <1>2, OldIs
<1>4. Edges(nodes') = Edges(nodes) /\ RegistryOf(nodes') = RegistryOf(nodes)
  <2>1. Ids(nodes') = Ids(nodes) /\ Edges(nodes') = Edges(nodes)
    BY <1>3, SameText
  <2> QED BY <1>3, <2>1 DEF RegistryOf
<1>5. GraphInv'
  BY <1>1, <1>3, <1>4
     DEF SpiderInv, GraphInv, GraphTypes, DiscoveryTypes, RegistryRight, InverseRight, EdgesCoupled
<1>6. FoundInv'
  BY <1>1, KeepFound DEF SpiderInv
<1>7. Tree(disk')
  <2>1. text \in Known
    BY TextFacts DEF Known
  <2> QED BY <1>1, <1>2, <2>1 DEF Tree
<1>8. SavedTypes'
  <2> DEFINE sn == [saved.nodes EXCEPT !.old = saved.nodes.old \cup ({f} \cap Ids(saved.nodes))]
  <2>1. Graph(sn)
    BY <1>2, OldIs DEF SavedTypes
  <2>2. saved = [commit |-> saved.commit, nodes |-> saved.nodes]
    BY <1>2 DEF SavedTypes
  <2>3. saved' = [saved EXCEPT !.nodes = sn]
    BY <1>1
  <2> HIDE DEF sn
  <2>4. saved' = [commit |-> saved.commit, nodes |-> sn]
    BY <2>2, <2>3
  <2> QED BY <1>2, <2>1, <2>4 DEF SavedTypes
<1>9. BootTypes' /\ Tree(head')
  BY <1>1, <1>2 DEF BootTypes
<1> QED BY <1>5, <1>6, <1>7, <1>8, <1>9 DEF SpiderInv, StoreInv

LEMMA CommitFilesInv ==
  ASSUME SpiderInv, CommitFiles
  PROVE  SpiderInv'
<1>1. /\ head' = disk
      /\ UNCHANGED <<disk, nodes, registry, current, inverse, cached, seen, bootstrapped, boot, saved,
                     report, ghosts, loose, causes>>
  BY DEF CommitFiles, engine, discovery, findings, history
<1>2. GraphInv' /\ FoundInv'
  BY <1>1, KeepGraph, KeepFound DEF SpiderInv
<1>3. StoreInv'
  BY <1>1 DEF SpiderInv, StoreInv, SavedTypes, BootTypes
<1> QED BY <1>2, <1>3 DEF SpiderInv

LEMMA ApplyChangesInv ==
  ASSUME SpiderInv, NEW f \in Files, ApplyChanges(f)
  PROVE  SpiderInv'
<1> DEFINE ns == Resolved(Indexed(f))
<1> DEFINE reg == Registered(ns, Touched(ns))
<1> DEFINE inv == IF current /\ Touched(ns) = {} THEN inverse ELSE Pairs(ns.links)
<1> DEFINE known == f \in Ids(ns)
<1>1. /\ nodes' = ns /\ registry' = reg /\ loose' = Loosened(ns)
      /\ current' = (known \/ (current /\ Touched(ns) = {}))
      /\ inverse' = IF known THEN inv ELSE inverse
      /\ cached' = IF known THEN {f} ELSE {}
      /\ seen' = IF known THEN [seen EXCEPT ![f] = Looked(NoGraph, f, {}, FALSE)] ELSE seen
      /\ report' = IF known THEN [found |-> Deficiencies(ns, reg, f, Reached(inv, f)),
                                  due |-> Broken(ns, f)]
                   ELSE NoResult
      /\ UNCHANGED <<disk, head, saved, bootstrapped, boot, ghosts, causes>>
  BY DEF ApplyChanges
<1>2. /\ Graph(nodes) /\ Tree(disk) /\ EdgesCoupled /\ registry \in [Files -> SUBSET Symbols]
      /\ causes = {} => registry = RegistryOf(nodes)
      /\ causes = {} /\ current => Edges(nodes) \subseteq inverse
      /\ DiscoveryTypes
  BY DEF SpiderInv, GraphInv, GraphTypes, StoreInv, RegistryRight, InverseRight
<1>3. Follows(Indexed(f)) /\ Graph(Indexed(f))
  BY <1>2, IndexedFollows DEF Follows
<1>4. Follows(ns) /\ ns.links = AllLinks(ns)
  BY <1>3, ResolvedFollows, ResolvedIs
<1> HIDE DEF ns
<1>5. Graph(ns) /\ Edges(ns) \subseteq ns.dependents \cup Loosened(ns)
  BY <1>4 DEF Follows
<1>6. GraphTypes'
  BY <1>1, <1>2, <1>5, RegisteredIs DEF GraphTypes
<1>7. causes = {} => reg = RegistryOf(ns)
  BY <1>2, <1>5, RegisteredIs
<1> HIDE DEF reg
<1>8. RegistryRight'
  BY <1>1, <1>7 DEF RegistryRight
<1>9. EdgesCoupled'
  BY <1>1, <1>5 DEF EdgesCoupled
<1>10. Pairs(ns.links) = Edges(ns) /\ Edges(ns) \subseteq Files \X Files
  <2>1. Edges(ns) \in SUBSET (Ids(ns) \X Ids(ns)) /\ Ids(ns) \in SUBSET Files
    BY <1>5, GraphFacts, AllLinksTyped
  <2> QED BY <1>4, <2>1 DEF Edges
<1>11. Touched(ns) = {} => Edges(ns) = Edges(nodes)
  BY <1>2, <1>5, NoneTouched, SameText
<1>12. (causes = {} => Edges(ns) \subseteq inv) /\ inv \subseteq Files \X Files
  BY <1>2, <1>10, <1>11 DEF DiscoveryTypes
<1>13. InverseRight'
  BY <1>1, <1>2, <1>11, <1>12 DEF InverseRight
<1>14. DiscoveryTypes'
  BY <1>1, <1>2, <1>12 DEF DiscoveryTypes
<1>15. ReportExact'
  <2> SUFFICES ASSUME causes = {}, known
               PROVE  Deficiencies(ns, reg, f, Reached(inv, f)) = Broken(ns, f)
    BY <1>1 DEF ReportExact, NoResult
  <2> HIDE DEF inv
  <2> QED BY <1>4, <1>5, <1>7, <1>12, DeficienciesRight
<1>16. SeenRight'
  <2>1. SeenRight
    BY DEF SpiderInv, FoundInv
  <2>2. CASE known
    <3> DEFINE c == Looked(NoGraph, f, {}, FALSE)
    <3>1. c = seen[f] \/ c.sure = FALSE
      BY DEF Looked
    <3> HIDE DEF c
    <3>2. DOMAIN seen' = Files /\ seen'[f] = c /\ \A d \in Files : d # f => seen'[d] = seen[d]
      BY <1>1, <2>1, <2>2 DEF c, SeenRight
    <3>3. ASSUME NEW d \in Files, seen'[d].sure
          PROVE  seen'[d].text = NoFile \/ Shown(d, seen'[d])
      <4>1. seen'[d] = seen[d]
        BY <3>1, <3>2, <3>3
      <4> QED BY <2>1, <3>3, <4>1 DEF SeenRight
    <3> QED BY <3>2, <3>3 DEF SeenRight
  <2>3. CASE ~known
    BY <1>1, <2>1, <2>3 DEF SeenRight
  <2> QED BY <2>2, <2>3
<1>17. GhostsExact'
  BY <1>1 DEF SpiderInv, FoundInv, GhostsExact
<1>18. StoreInv'
  BY <1>1, KeepStore DEF SpiderInv
<1> QED BY <1>6, <1>8, <1>9, <1>13, <1>14, <1>15, <1>16, <1>17, <1>18 DEF SpiderInv, GraphInv, FoundInv

LEMMA ResyncInv ==
  ASSUME SpiderInv, NEW f \in Files, Resync(f)
  PROVE  SpiderInv'
<1> DEFINE ns == Resolved(Indexed(f))
<1>1. Becomes(ns) /\ UNCHANGED <<disk, head, saved, seen, bootstrapped, boot, report, ghosts>>
  BY DEF Resync, findings
<1>2. Graph(nodes) /\ Tree(disk) /\ EdgesCoupled
  BY DEF SpiderInv, GraphInv, GraphTypes, StoreInv
<1>3. Follows(ns)
  BY <1>2, IndexedFollows, ResolvedFollows
<1> HIDE DEF ns
<1>4. GraphInv' /\ (causes' = {} => causes = {})
  BY <1>1, <1>3, BecomesKeeps DEF SpiderInv
<1>5. FoundInv' /\ StoreInv'
  BY <1>1, <1>4, KeepFound, KeepStore DEF SpiderInv
<1> QED BY <1>4, <1>5 DEF SpiderInv

LEMMA VerifyGraphInv ==
  ASSUME SpiderInv, VerifyGraph
  PROVE  SpiderInv'
<1>1. Becomes(Verified) /\ UNCHANGED <<disk, head, saved, seen, bootstrapped, boot, report, ghosts>>
  BY DEF VerifyGraph, findings
<1>2. GraphInv' /\ (causes' = {} => causes = {})
  BY <1>1, VerifiedFollows, BecomesKeeps DEF SpiderInv
<1>3. FoundInv' /\ StoreInv'
  BY <1>1, <1>2, KeepFound, KeepStore DEF SpiderInv
<1> QED BY <1>2, <1>3 DEF SpiderInv

(* The audits differ in what the discovery index hears of them.             *)
LEMMA AuditKeeps ==
  ASSUME SpiderInv, NEW scope, NEW order, Audit(scope, order),
         OrderFor(scope \cap Present(disk), order), DiscoveryTypes',
         causes' = {} /\ current' =>
            \/ nodes'.text = nodes.text /\ current /\ inverse' = inverse
            \/ inverse' = Pairs(nodes'.links)
  PROVE  SpiderInv'
<1>1. /\ GraphTypes' /\ RegistryRight' /\ EdgesCoupled'
      /\ causes' = {} => causes = {} /\ nodes'.links = AllLinks(nodes')
  BY AuditGraph DEF SpiderInv, StoreInv
<1>2. FoundInv'
  BY AuditFound DEF SpiderInv
<1>3. StoreInv'
  BY AuditRest, KeepStore DEF SpiderInv
<1>4. InverseRight'
  <2> SUFFICES ASSUME causes' = {}, current' PROVE Edges(nodes') \subseteq inverse'
    BY DEF InverseRight
  <2>1. CASE nodes'.text = nodes.text /\ current /\ inverse' = inverse
    <3>1. Edges(nodes') = Edges(nodes)
      BY <2>1, SameText
    <3>2. Edges(nodes) \subseteq inverse
      BY <1>1, <2>1 DEF SpiderInv, GraphInv, InverseRight
    <3> QED BY <2>1, <3>1, <3>2
  <2>2. CASE inverse' = Pairs(nodes'.links)
    BY <1>1, <2>2 DEF Edges
  <2> QED BY <2>1, <2>2
<1> QED BY <1>1, <1>2, <1>3, <1>4 DEF SpiderInv, GraphInv

LEMMA AuditAllInv ==
  ASSUME SpiderInv, AuditAll
  PROVE  SpiderInv'
<1>1. /\ Audit(Ids(nodes), {}) /\ current' = (current /\ nodes'.text = nodes.text)
      /\ inverse' = inverse /\ cached' = cached
  BY DEF AuditAll, UpToDate
<1>2. OrderFor(Ids(nodes) \cap Present(disk), {})
  BY DEF OrderFor
<1>3. DiscoveryTypes'
  BY <1>1 DEF SpiderInv, GraphInv, DiscoveryTypes
<1> QED BY <1>1, <1>2, <1>3, AuditKeeps

LEMMA AuditChangedInv ==
  ASSUME SpiderInv, AuditChanged
  PROVE  SpiderInv'
<1> DEFINE scope == nodes.old \cup (Ids(nodes) \ Present(disk))
<1>1. /\ Audit(scope, {}) /\ current' = (current /\ nodes'.text = nodes.text)
      /\ inverse' = inverse /\ cached' = cached
  BY DEF AuditChanged, UpToDate
<1>2. nodes.old \subseteq Ids(nodes)
  BY DEF SpiderInv, GraphInv, GraphTypes, Graph
<1>3. OrderFor(scope \cap Present(disk), {})
  BY <1>2 DEF OrderFor
<1>4. DiscoveryTypes'
  BY <1>1 DEF SpiderInv, GraphInv, DiscoveryTypes
<1> HIDE DEF scope
<1> QED BY <1>1, <1>3, <1>4, AuditKeeps

LEMMA PreflightInv ==
  ASSUME SpiderInv, NEW f \in Files, Preflight(f)
  PROVE  SpiderInv'
<1> DEFINE looks == f \in Ids(nodes') \ cached
<1> DEFINE scope == Neighborhood(nodes, Neighborhood(nodes, {f}))
<1> DEFINE read == scope \cap Present(disk)
<1>1. PICK order \in Orders(read) : Audit(scope, order)
  BY DEF Preflight
<1>2. /\ current' = (UpToDate \/ looks)
      /\ inverse' = IF looks /\ ~UpToDate THEN Pairs(nodes'.links) ELSE inverse
      /\ cached' = IF ~looks THEN cached ELSE IF UpToDate THEN cached \cup {f} ELSE {f}
  BY DEF Preflight
<1>3. read \in SUBSET Files
  BY DEF Present
<1> HIDE DEF scope
<1>4. OrderFor(read, order)
  <2>1. /\ \A g, h \in read : g # h => <<g, h>> \in order \/ <<h, g>> \in order
        /\ \A g, h, i : <<g, h>> \in order /\ <<h, i>> \in order => <<g, i>> \in order
    BY <1>1, <1>3, OrdersAre
  <2> QED BY <2>1 DEF OrderFor
<1>5. Graph(nodes')
  BY <1>1, <1>4, AuditGraph DEF SpiderInv, StoreInv, GraphTypes
<1>6. Pairs(nodes'.links) \subseteq Files \X Files
  <2>1. nodes'.links \subseteq Ids(nodes') \X Specs \X Files /\ Ids(nodes') \subseteq Files
    BY <1>5, GraphFacts
  <2> QED BY <2>1 DEF Pairs
<1>7. DiscoveryTypes'
  <2>1. current \in BOOLEAN /\ inverse \subseteq Files \X Files /\ cached \subseteq Files
    BY DEF SpiderInv, GraphInv, DiscoveryTypes
  <2> HIDE DEF looks
  <2> QED BY <1>2, <1>6, <2>1 DEF DiscoveryTypes
<1>8. causes' = {} /\ current' =>
            \/ nodes'.text = nodes.text /\ current /\ inverse' = inverse
            \/ inverse' = Pairs(nodes'.links)
  BY <1>2 DEF UpToDate
<1> QED BY <1>1, <1>4, <1>7, <1>8, AuditKeeps

-----------------------------------------------------------------------------
(* Spider: the steps of a bootstrap                                         *)

(* A bootstrap moves on and changes nothing else ...                        *)
LEMMA BootMoves ==
  ASSUME SpiderInv, NEW b \in Booters,
         UNCHANGED <<disk, head, nodes, registry, current, inverse, cached, seen, saved,
                     report, ghosts, loose, causes>>,
         boot' \in [Booters -> BootSet], bootstrapped' \in BOOLEAN
  PROVE  SpiderInv'
<1>1. GraphInv' /\ FoundInv'
  BY KeepGraph, KeepFound DEF SpiderInv
<1>2. StoreInv'
  BY DEF SpiderInv, StoreInv, SavedTypes, BootTypes
<1> QED BY <1>1, <1>2 DEF SpiderInv

LEMMA BootAt ==
  ASSUME BootTypes, NEW b \in Booters
  PROVE  /\ boot[b] \in BootSet
         /\ Trees \subseteq [Files -> Known]
         /\ \A r \in BootSet : [boot EXCEPT ![b] = r] \in [Booters -> BootSet]
         /\ \A stage \in BootPCs : [boot EXCEPT ![b].pc = stage] \in [Booters -> BootSet]
<1>1. boot \in [Booters -> BootSet]
  BY DEF BootTypes
<1>2. boot[b] \in BootSet
  BY <1>1
<1>3. \A stage \in BootPCs : [boot[b] EXCEPT !.pc = stage] \in BootSet
  BY <1>2 DEF BootSet
<1>4. \A r \in BootSet : [boot EXCEPT ![b] = r] \in [Booters -> BootSet]
  BY <1>1
<1>5. ASSUME NEW stage \in BootPCs
      PROVE  [boot EXCEPT ![b].pc = stage] \in [Booters -> BootSet]
  <2>1. [boot EXCEPT ![b].pc = stage] = [boot EXCEPT ![b] = [boot[b] EXCEPT !.pc = stage]]
    OBVIOUS
  <2> QED BY <1>3, <1>4, <2>1
<1> QED BY <1>2, <1>4, <1>5 DEF Trees

LEMMA IdleTyped == Idle \in BootSet
<1>1. NoTree \in Trees
  BY TreesAre, NoGraphIs
<1> QED BY <1>1 DEF Idle, BootSet, BootPCs

LEMMA EndsTyped ==
  ASSUME BootTypes, NEW b \in Booters, Ends(b)
  PROVE  BootTypes'
  BY BootAt, IdleTyped DEF BootTypes, Ends

LEMMA GoesTyped ==
  ASSUME BootTypes, NEW b \in Booters, NEW stage \in BootPCs, Goes(b, stage)
  PROVE  boot' \in [Booters -> BootSet]
  BY BootAt DEF Goes

LEMMA QuietBootInv ==
  ASSUME SpiderInv, NEW b \in Booters,
         StartBoot(b) \/ NoCache(b) \/ ReadHead(b) \/ FallsBack(b) \/ ReadTree(b) \/ BootFails(b)
  PROVE  SpiderInv'
<1>1. /\ UNCHANGED <<disk, head, nodes, registry, current, inverse, cached, seen, saved,
                     report, ghosts, loose, causes>>
  BY DEF StartBoot, NoCache, ReadHead, FallsBack, ReadTree, BootFails, Outside, engine, discovery,
         findings, history
<1>2. BootTypes /\ Tree(head)
  BY DEF SpiderInv, StoreInv
<1>3. /\ boot[b] \in BootSet /\ boot \in [Booters -> BootSet] /\ bootstrapped \in BOOLEAN
      /\ \A r \in BootSet : [boot EXCEPT ![b] = r] \in [Booters -> BootSet]
  BY <1>2, BootAt DEF BootTypes
<1>4. head \in Trees
  BY <1>2, TreesAre
<1>5. BootTypes'
  <2>1. CASE StartBoot(b)
    BY <1>2, <1>3, <2>1, GoesTyped DEF StartBoot, BootPCs, BootTypes
  <2>2. CASE NoCache(b)
    BY <1>2, <1>3, <2>2, GoesTyped DEF NoCache, BootPCs, BootTypes
  <2>3. CASE ReadHead(b)
    <3>1. CASE boot[b].last = {head}
      BY <1>2, <2>3, <3>1, EndsTyped DEF ReadHead
    <3>2. CASE boot[b].last # {head}
      <4> DEFINE stage == IF boot[b].last = {} THEN "read" ELSE "diff"
      <4> DEFINE r == [boot[b] EXCEPT !.head = head, !.pc = stage]
      <4>1. boot' = [boot EXCEPT ![b] = r] /\ bootstrapped' = bootstrapped
        BY <1>3, <2>3, <3>2 DEF ReadHead
      <4>2. stage \in BootPCs
        BY DEF BootPCs
      <4> HIDE DEF stage
      <4>3. r \in BootSet
        BY <1>3, <1>4, <4>2 DEF BootSet
      <4> HIDE DEF r
      <4> QED BY <1>3, <4>1, <4>3 DEF BootTypes
    <3> QED BY <3>1, <3>2
  <2>4. CASE FallsBack(b)
    <3> DEFINE r == [boot[b] EXCEPT !.pc = "read", !.todo = {}]
    <3>1. boot' = [boot EXCEPT ![b] = r] /\ bootstrapped' = bootstrapped
      BY <1>3, <2>4 DEF FallsBack
    <3>2. r \in BootSet
      BY <1>3 DEF BootSet, BootPCs
    <3> HIDE DEF r
    <3> QED BY <1>3, <3>1, <3>2 DEF BootTypes
  <2>5. CASE ReadTree(b)
    <3> DEFINE r == [boot[b] EXCEPT !.pc = "build", !.last = {head}]
    <3>1. boot' = [boot EXCEPT ![b] = r] /\ bootstrapped' = bootstrapped
      BY <1>3, <2>5 DEF ReadTree
    <3>2. r \in BootSet
      BY <1>3, <1>4 DEF BootSet, BootPCs
    <3> HIDE DEF r
    <3> QED BY <1>3, <3>1, <3>2 DEF BootTypes
  <2>6. CASE BootFails(b)
    BY <1>2, <2>6, EndsTyped DEF BootFails
  <2> QED BY <2>1, <2>2, <2>3, <2>4, <2>5, <2>6
<1> QED BY <1>1, <1>5, BootMoves DEF BootTypes

(* ... or it changes the graph, and may save it.                            *)
LEMMA BootBecomes ==
  ASSUME SpiderInv, NEW b \in Booters, NEW ns, Follows(ns), Becomes(ns), UNCHANGED Outside,
         BootTypes', saved' = saved \/ Save(b, ns)
  PROVE  SpiderInv'
<1>1. UNCHANGED <<disk, head, seen, report, ghosts>>
  BY DEF Outside, findings
<1>2. GraphInv' /\ (causes' = {} => causes = {})
  BY BecomesKeeps DEF SpiderInv
<1>3. FoundInv'
  BY <1>1, <1>2, KeepFound DEF SpiderInv
<1>4. SavedTypes'
  <2>1. SavedTypes /\ boot[b].head \in Trees /\ Graph(ns)
    BY BootAt DEF SpiderInv, StoreInv, BootSet, Follows
  <2> QED BY <2>1 DEF SavedTypes, Save
<1>5. StoreInv'
  BY <1>1, <1>4 DEF SpiderInv, StoreInv
<1> QED BY <1>2, <1>3, <1>5 DEF SpiderInv

LEMMA DiffInv ==
  ASSUME SpiderInv, NEW b \in Booters, Diff(b)
  PROVE  SpiderInv'
<1> DEFINE was == CHOOSE tree \in boot[b].last : TRUE
<1> DEFINE tree == boot[b].head
<1> DEFINE ns == Removed(nodes, Present(was) \ Present(tree))
<1> DEFINE todo == {f \in Present(tree) : tree[f] # was[f]}
<1>1. /\ Becomes(ns) /\ UNCHANGED Outside
      /\ \/ Ends(b) /\ Save(b, ns)
         \/ /\ boot' = [boot EXCEPT ![b].pc = "update", ![b].todo = todo]
            /\ UNCHANGED <<bootstrapped, saved>>
  BY DEF Diff
<1>2. Graph(nodes) /\ EdgesCoupled /\ BootTypes
  BY DEF SpiderInv, GraphInv, GraphTypes, StoreInv
<1>3. Follows(ns)
  BY <1>2, RemovedFollows
<1> HIDE DEF ns
<1>4. BootTypes'
  <2>1. CASE Ends(b)
    BY <1>2, <2>1, EndsTyped
  <2>2. CASE /\ boot' = [boot EXCEPT ![b].pc = "update", ![b].todo = todo]
             /\ UNCHANGED bootstrapped
    <3>1. todo \in SUBSET Files
      BY DEF Present
    <3> HIDE DEF todo, was, tree
    <3> DEFINE r == [boot[b] EXCEPT !.pc = "update", !.todo = todo]
    <3>2. boot \in [Booters -> BootSet] /\ boot[b] \in BootSet
      BY <1>2, BootAt DEF BootTypes
    <3>3. boot' = [boot EXCEPT ![b] = r]
      BY <2>2, <3>2
    <3>4. r \in BootSet
      BY <3>1, <3>2 DEF BootSet, BootPCs
    <3> HIDE DEF r
    <3> QED BY <1>2, <2>2, <3>3, <3>4, BootAt DEF BootTypes
  <2> QED BY <1>1, <2>1, <2>2
<1> QED BY <1>1, <1>3, <1>4, BootBecomes

LEMMA UpdateFileInv ==
  ASSUME SpiderInv, NEW b \in Booters, NEW f \in Files, UpdateFile(b, f)
  PROVE  SpiderInv'
<1> DEFINE ns == Updated(nodes, f, head[f])
<1>1. /\ Becomes(ns) /\ UNCHANGED Outside /\ head[f] # NoFile
      /\ \/ Ends(b) /\ Save(b, ns)
         \/ /\ boot' = [boot EXCEPT ![b].todo = boot[b].todo \ {f}]
            /\ UNCHANGED <<bootstrapped, saved>>
  BY DEF UpdateFile
<1>2. Graph(nodes) /\ EdgesCoupled /\ BootTypes /\ Tree(head)
  BY DEF SpiderInv, GraphInv, GraphTypes, StoreInv
<1>3. head[f] \in TextsOf[f]
  BY <1>1, <1>2 DEF Tree
<1>4. Follows(ns)
  BY <1>2, <1>3, UpdatedFollows
<1> HIDE DEF ns
<1>5. BootTypes'
  <2>1. CASE Ends(b)
    BY <1>2, <2>1, EndsTyped
  <2>2. CASE /\ boot' = [boot EXCEPT ![b].todo = boot[b].todo \ {f}]
             /\ UNCHANGED bootstrapped
    <3> DEFINE r == [boot[b] EXCEPT !.todo = boot[b].todo \ {f}]
    <3>1. boot \in [Booters -> BootSet] /\ boot[b] \in BootSet
      BY <1>2, BootAt DEF BootTypes
    <3>2. boot' = [boot EXCEPT ![b] = r]
      BY <2>2, <3>1
    <3>3. r \in BootSet
      BY <3>1 DEF BootSet
    <3> HIDE DEF r
    <3> QED BY <1>2, <2>2, <3>2, <3>3, BootAt DEF BootTypes
  <2> QED BY <1>1, <2>1, <2>2
<1> QED BY <1>1, <1>4, <1>5, BootBecomes

LEMMA VerifyBootInv ==
  ASSUME SpiderInv, NEW b \in Booters, VerifyBoot(b)
  PROVE  SpiderInv'
<1>1. Becomes(Verified) /\ Ends(b) /\ UNCHANGED Outside /\ saved' = saved
  BY DEF VerifyBoot
<1>2. Follows(Verified) /\ BootTypes'
  BY <1>1, VerifiedFollows, EndsTyped DEF SpiderInv, StoreInv
<1> QED BY <1>1, <1>2, BootBecomes

LEMMA FinishBootInv ==
  ASSUME SpiderInv, NEW b \in Booters, FinishBoot(b)
  PROVE  SpiderInv'
<1>1. /\ bootstrapped' = TRUE /\ Save(b, nodes) /\ Goes(b, "verify")
      /\ UNCHANGED <<disk, head, nodes, registry, current, inverse, cached, seen, report, ghosts,
                     loose, causes>>
  BY DEF FinishBoot, Outside, engine, discovery, findings, history
<1>2. GraphInv' /\ FoundInv'
  BY <1>1, KeepGraph, KeepFound DEF SpiderInv
<1>3. BootTypes'
  BY <1>1, GoesTyped DEF SpiderInv, StoreInv, BootTypes, BootPCs
<1>4. SavedTypes'
  <2>1. boot[b].head \in Trees /\ Graph(nodes)
    BY BootAt DEF SpiderInv, StoreInv, GraphInv, GraphTypes, BootSet
  <2> QED BY <1>1, <2>1 DEF SavedTypes, Save
<1> QED BY <1>1, <1>2, <1>3, <1>4 DEF SpiderInv, StoreInv

(* The graph of the cache, with the resolver's memory of the one before.    *)
LEMMA LoadCacheInv ==
  ASSUME SpiderInv, NEW b \in Booters, LoadCache(b)
  PROVE  SpiderInv'
<1> DEFINE ns == saved.nodes
<1> DEFINE memo(d) == {l \in AllLinks(nodes) : l[1] = d /\ l[2] \in SpecsOf(ns.text[d])}
<1> DEFINE links(d) == memo(d) \cup
                       {l \in Links(d, ns.text[d], Ids(ns)) : l[2] \notin SpecsOf(nodes.text[d])}
<1> DEFINE all == UNION {links(d) : d \in Ids(ns)}
<1> DEFINE cs == Coupled(ns, all)
<1>1. /\ nodes' = cs
      /\ loose' = {e \in Edges(ns) : e[1] \in Ids(nodes)} \cup Forgotten(ns)
      /\ causes' = causes \cup {"loaded"}
      /\ boot' = [boot EXCEPT ![b].pc = "head", ![b].last = saved.commit]
      /\ UNCHANGED <<disk, head, seen, report, ghosts, registry, current, inverse, cached,
                     bootstrapped, saved>>
  BY DEF LoadCache, Outside, discovery, findings
<1>2. /\ Graph(ns) /\ SavedTypes /\ BootTypes /\ Graph(nodes) /\ DiscoveryTypes
      /\ registry \in [Files -> SUBSET Symbols]
  BY DEF SpiderInv, StoreInv, SavedTypes, GraphInv, GraphTypes
<1> HIDE DEF all
<1>3. /\ Graph(cs) /\ Edges(cs) = Edges(ns)
      /\ cs.dependents = {p \in Pairs(all) : {p[1], p[2]} \subseteq Ids(ns) /\ p \notin ns.before}
  BY <1>2, CoupledIs
<1>4. ASSUME NEW e \in Edges(ns), e[1] \notin Ids(nodes), e \notin Forgotten(ns)
      PROVE  e \in cs.dependents
  <2> DEFINE d == e[1]
  <2> DEFINE g == e[2]
  <2>1. e = <<d, g>>
    BY EdgesAre
  <2>2. e \in Ids(ns) \X Ids(ns) /\ Ids(ns) \in SUBSET Files
    BY <1>2, GraphFacts, AllLinksTyped
  <2>3. d \in Ids(ns) /\ g \in Ids(ns) /\ d \in Files
    BY <2>1, <2>2
  <2> HIDE DEF d, g
  <2>4. PICK s \in SpecsOf(ns.text[d]) : g \in Resolve(s, Ids(ns))
    BY <2>1, EdgesAre
  <2>5. SpecsOf(nodes.text[d]) = {}
    BY <1>4, <2>3 DEF d, Ids, Present, SpecsOf
  <2> DEFINE l == <<d, s, g>>
  <2>6. l \in Links(d, ns.text[d], Ids(ns))
    BY <2>4, LinksAre
  <2>7. l[1] = d /\ l[3] = g
    OBVIOUS
  <2> HIDE DEF l
  <2>8. l \in links(d)
    BY <2>5, <2>6
  <2> HIDE DEF links
  <2>9. l \in all
    BY <2>3, <2>8 DEF all
  <2>10. e \in Pairs(all)
    BY <2>1, <2>7, <2>9 DEF Pairs
  <2>11. e \notin ns.before
    BY <1>4 DEF Forgotten
  <2> QED BY <1>3, <2>3, <2>10, <2>11 DEF d, g
<1> HIDE DEF cs
<1>5. GraphTypes' /\ EdgesCoupled'
  BY <1>1, <1>2, <1>3, <1>4 DEF GraphTypes, EdgesCoupled
<1>6. causes' # {}
  BY <1>1
<1>7. GraphInv'
  BY <1>1, <1>2, <1>5, <1>6 DEF GraphInv, RegistryRight, InverseRight, DiscoveryTypes
<1>8. FoundInv'
  BY <1>1, <1>6, KeepFound DEF SpiderInv
<1>9. BootTypes'
  <2> DEFINE r == [boot[b] EXCEPT !.pc = "head", !.last = saved.commit]
  <2>1. boot \in [Booters -> BootSet] /\ boot[b] \in BootSet
    BY <1>2, BootAt DEF BootTypes
  <2>2. boot' = [boot EXCEPT ![b] = r]
    BY <1>1, <2>1
  <2>3. r \in BootSet
    BY <1>2, <2>1 DEF BootSet, BootPCs, SavedTypes
  <2> HIDE DEF r
  <2> QED BY <1>1, <1>2, <2>2, <2>3, BootAt DEF BootTypes
<1>10. StoreInv'
  BY <1>1, <1>2, <1>9 DEF SpiderInv, StoreInv, SavedTypes
<1> QED BY <1>7, <1>8, <1>10 DEF SpiderInv

LEMMA BuildInv ==
  ASSUME SpiderInv, NEW b \in Booters, Build(b)
  PROVE  SpiderInv'
<1>1. PICK tree \in boot[b].last : \E order \in Orders(Present(tree)) :
         /\ nodes' = Built(tree, order)
         /\ registry' = Registered(Built(tree, order), Ids(Built(tree, order)))
         /\ current' = (current /\ Ids(Built(tree, order)) = {}) /\ cached' = {}
         /\ loose' = Forgotten(Built(tree, order))
         /\ causes' = causes \cup (IF Ids(nodes) \subseteq Ids(Built(tree, order)) THEN {} ELSE {"dropped"})
  BY DEF Build
<1>2. PICK order \in Orders(Present(tree)) :
         /\ nodes' = Built(tree, order)
         /\ registry' = Registered(Built(tree, order), Ids(Built(tree, order)))
         /\ current' = (current /\ Ids(Built(tree, order)) = {}) /\ cached' = {}
         /\ loose' = Forgotten(Built(tree, order))
         /\ causes' = causes \cup (IF Ids(nodes) \subseteq Ids(Built(tree, order)) THEN {} ELSE {"dropped"})
  BY <1>1
<1> DEFINE ns == Built(tree, order)
<1>3. /\ UNCHANGED <<disk, head, seen, report, ghosts, inverse, bootstrapped, saved>>
      /\ Goes(b, "finish")
  BY DEF Build, Outside, findings
<1>4. boot[b] \in BootSet /\ Tree(tree)
  <2>1. boot[b] \in BootSet
    BY BootAt DEF SpiderInv, StoreInv
  <2> QED BY <2>1, TreesAre DEF BootSet
<1>5. Graph(ns) /\ Edges(ns) \subseteq ns.dependents \cup Forgotten(ns)
  BY <1>4, BuiltIs
<1> HIDE DEF ns
<1>6. Graph(nodes) /\ registry \in [Files -> SUBSET Symbols] /\ DiscoveryTypes
  BY DEF SpiderInv, GraphInv, GraphTypes
<1>7. GraphTypes' /\ EdgesCoupled' /\ DiscoveryTypes'
  BY <1>2, <1>3, <1>5, <1>6, RegisteredIs DEF GraphTypes, EdgesCoupled, DiscoveryTypes, ns
<1>8. RegistryRight'
  <2> SUFFICES ASSUME causes' = {} PROVE registry' = RegistryOf(ns)
    BY <1>2 DEF RegistryRight, ns
  <2>1. causes = {} /\ Ids(nodes) \subseteq Ids(ns)
    BY <1>2 DEF ns
  <2>2. registry = RegistryOf(nodes)
    BY <2>1 DEF SpiderInv, GraphInv, RegistryRight
  <2>3. registry' = Registered(ns, Ids(ns))
    BY <1>2 DEF ns
  <2>4. \A f \in Files : f \notin Ids(ns) => registry[f] = {}
    BY <2>1, <2>2 DEF RegistryOf
  <2> QED BY <2>3, <2>4 DEF Registered, RegistryOf
<1>9. InverseRight'
  <2> SUFFICES ASSUME Ids(ns) = {} PROVE Edges(ns) \subseteq inverse'
    BY <1>2 DEF InverseRight, ns
  <2>1. Edges(ns) \in SUBSET (Ids(ns) \X Ids(ns))
    BY <1>5, GraphFacts, AllLinksTyped
  <2> QED BY <2>1
<1>10. causes' = {} => causes = {}
  BY <1>2
<1>11. FoundInv'
  BY <1>3, <1>10, KeepFound DEF SpiderInv
<1>12. BootTypes'
  BY <1>3, GoesTyped DEF SpiderInv, StoreInv, BootTypes, BootPCs
<1>13. StoreInv'
  BY <1>3, <1>12 DEF SpiderInv, StoreInv, SavedTypes
<1> QED BY <1>7, <1>8, <1>9, <1>11, <1>13 DEF SpiderInv, GraphInv

LEMMA SpiderRestartInv ==
  ASSUME SpiderInv, Restart
  PROVE  SpiderInv'
<1>1. /\ nodes' = NoGraph /\ registry' = Unregistered /\ current' = FALSE /\ inverse' = {}
      /\ cached' = {} /\ seen' = [f \in Files |-> Unseen] /\ bootstrapped' = FALSE
      /\ boot' = [b \in Booters |-> Idle] /\ report' = NoResult /\ ghosts' = NoResult
      /\ loose' = {} /\ causes' = {} /\ UNCHANGED <<disk, head, saved>>
  BY DEF Restart
<1>2. Unregistered \in [Files -> SUBSET Symbols] /\ Unregistered = RegistryOf(NoGraph)
  BY NoGraphIs DEF Unregistered, RegistryOf
<1>3. GraphInv'
  BY <1>1, <1>2, NoGraphIs
     DEF GraphInv, GraphTypes, DiscoveryTypes, RegistryRight, InverseRight, EdgesCoupled
<1>4. FoundInv'
  <2>1. SeenRight'
    BY <1>1 DEF SeenRight, Unseen
  <2> QED BY <1>1, <2>1 DEF FoundInv, ReportExact, GhostsExact, NoResult
<1>5. StoreInv'
  BY <1>1, IdleTyped DEF SpiderInv, StoreInv, SavedTypes, BootTypes
<1> QED BY <1>3, <1>4, <1>5 DEF SpiderInv

LEMMA SpiderStep == SpiderInv /\ [SpiderNext]_spiderVars => SpiderInv'
<1> SUFFICES ASSUME SpiderInv, [SpiderNext]_spiderVars PROVE SpiderInv'
  OBVIOUS
<1>1. CASE UNCHANGED spiderVars
  <2>1. /\ UNCHANGED <<nodes, registry, current, inverse, cached, loose, causes>>
        /\ UNCHANGED <<seen, report, ghosts>> /\ UNCHANGED <<disk, head, saved, boot, bootstrapped>>
    BY <1>1 DEF spiderVars, engine, discovery, findings, history
  <2> QED BY <2>1, KeepGraph, KeepFound, KeepStore DEF SpiderInv
<1>2. ASSUME NEW f \in Files, \E text \in TextsOf[f] \cup {NoFile} : Edit(f, text) PROVE SpiderInv'
  BY <1>2, EditInv
<1>3. ASSUME NEW f \in Files, ApplyChanges(f) PROVE SpiderInv'
  BY <1>3, ApplyChangesInv
<1>4. ASSUME NEW f \in Files, Resync(f) PROVE SpiderInv'
  BY <1>4, ResyncInv
<1>5. ASSUME NEW f \in Files, Preflight(f) PROVE SpiderInv'
  BY <1>5, PreflightInv
<1>6. CASE CommitFiles
  BY <1>6, CommitFilesInv
<1>7. CASE VerifyGraph
  BY <1>7, VerifyGraphInv
<1>8. CASE AuditAll
  BY <1>8, AuditAllInv
<1>9. CASE AuditChanged
  BY <1>9, AuditChangedInv
<1>10. CASE Restart
  BY <1>10, SpiderRestartInv
<1>11. ASSUME NEW b \in Booters, Bootstrap(b) PROVE SpiderInv'
  <2>1. CASE StartBoot(b) \/ NoCache(b) \/ ReadHead(b) \/ FallsBack(b) \/ ReadTree(b) \/ BootFails(b)
    BY <2>1, QuietBootInv
  <2>2. CASE LoadCache(b)
    BY <2>2, LoadCacheInv
  <2>3. CASE Diff(b)
    BY <2>3, DiffInv
  <2>4. CASE \E f \in Files : UpdateFile(b, f)
    BY <2>4, UpdateFileInv
  <2>5. CASE Build(b)
    BY <2>5, BuildInv
  <2>6. CASE FinishBoot(b)
    BY <2>6, FinishBootInv
  <2>7. CASE VerifyBoot(b)
    BY <2>7, VerifyBootInv
  <2> QED BY <1>11, <2>1, <2>2, <2>3, <2>4, <2>5, <2>6, <2>7 DEF Bootstrap
<1> QED BY <1>1, <1>2, <1>3, <1>4, <1>5, <1>6, <1>7, <1>8, <1>9, <1>10, <1>11 DEF SpiderNext

LEMMA SpiderAlways == SpiderSpec => []SpiderInv
  BY SpiderInitInv, SpiderStep, PTL DEF SpiderSpec

(* What the invariant says of the types.                                    *)
LEMMA SpiderInvTypes == SpiderInv => SpiderTypeOK
<1> SUFFICES ASSUME SpiderInv PROVE SpiderTypeOK
  OBVIOUS
<1>1. {disk, head} \subseteq [Files -> Texts \cup {NoFile}]
  BY DEF SpiderInv, StoreInv, Tree, Known
<1>2. Graph(nodes) /\ Graph(saved.nodes)
  BY DEF SpiderInv, StoreInv, SavedTypes, GraphInv, GraphTypes
<1>3. ASSUME NEW ns \in {nodes, saved.nodes}
      PROVE  /\ \A f \in Files : ns.text[f] \in TextsOf[f] \cup {NoFile}
             /\ ns.before \subseteq Ids(ns) \X Ids(ns)
             /\ ns.links \subseteq Ids(ns) \X Specs \X Files
             /\ ns.dependents \subseteq Files \X Ids(ns)
             /\ ns.old \subseteq Ids(ns)
  <2>1. Graph(ns)
    BY <1>2
  <2> QED BY <2>1 DEF Graph, Tree
<1>4. /\ registry \in [Files -> SUBSET Symbols] /\ inverse \subseteq Files \X Files
      /\ current \in BOOLEAN /\ cached \subseteq Files /\ bootstrapped \in BOOLEAN
  BY DEF SpiderInv, StoreInv, BootTypes, GraphInv, GraphTypes, DiscoveryTypes
<1>5. \A b \in Booters : boot[b].pc \in BootPCs
  BY DEF SpiderInv, StoreInv, BootTypes, BootSet
<1> QED BY <1>1, <1>3, <1>4, <1>5 DEF SpiderTypeOK, BootPCs

(* What applyChanges() says of the importers of a changed file is what there is to say  *)
(* (SpiderService.ts:1164): nobody that imports a missing symbol from it is left out     *)
(* and nobody made up, in any order of changes, audits and bootstraps, while the         *)
(* registry has what the graph has.                                                      *)
THEOREM ReportsExact == SpiderSpec => []ReportExact
<1>1. SpiderInv => ReportExact
  BY DEF SpiderInv, FoundInv
<1> QED BY <1>1, SpiderAlways, PTL

(* A file that imports another is in the neighborhood that a preflight looks at          *)
(* (SpiderEngine.ts:1453), but for the edges that nothing couples: those that another    *)
(* file's coming or going made, and those that counting anew forgot                      *)
(* (MetricsEngine.ts:236).                                                               *)
THEOREM NeighborsAlwaysKnown == SpiderSpec => []NeighborsKnown
<1>1. SpiderInv => NeighborsKnown
  BY SpiderInvTypes DEF SpiderInv, GraphInv, EdgesCoupled, NeighborsKnown
<1> QED BY <1>1, SpiderAlways, PTL

(* An audit of everything finds the imports that dangle on disk and no others, though    *)
(* it keeps what earlier audits found (ForensicEngine.ts:199): what it kept was found    *)
(* with the same imports resolved to the same texts.                                     *)
THEOREM GhostsAlwaysExact == SpiderSpec => []GhostsExact
<1>1. SpiderInv => GhostsExact
  BY DEF SpiderInv, FoundInv
<1> QED BY <1>1, SpiderAlways, PTL
=============================================================================

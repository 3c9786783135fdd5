-------------------------- MODULE CoherenceProofs --------------------------
(***************************************************************************)
(* A patch that would be let through is based on files as its task saw     *)
(* them, and on no revision that a patch or a verify has overtaken: for    *)
(* any number of tasks, clients, files, edits, crashes and expiries, as    *)
(* long as operations do not overlap.                                      *)
(*                                                                         *)
(* Neither property is inductive.  Both speak of what is valid now, and a  *)
(* crash or another task's record may make something else valid later, so  *)
(* IInv says of every token what it is worth: those of the state file, and *)
(* those of the state that an operation is about to write, together with   *)
(* what its task will hold then.                                           *)
(***************************************************************************)
EXTENDS Coherence, SequenceTheorems, TLAPS

Distinct(st) ==
    \A i, j \in DOMAIN st.tokens : st.tokens[i].task = st.tokens[j].task => i = j

(* With the files f and the texts T that patches are about to write, the    *)
(* file is not A and does not become A again.                               *)
Past(A, p, f, T) == A # f[p] /\ A \notin T[p]

(* What a token is worth to its task, which holds h and saw the files x; G  *)
(* are the contents that patches recorded.                                  *)
TokenFits(st, i, h, x, f, e, T, G) ==
    /\ \A p \in Paths : st.tokens[i].anchors[p] \subseteq 0..e
    /\ \A p \in Paths : st.tokens[i].anchors[p] # NoFile => st.tracked[p] # NoFile
    /\ h.id \in {0, i}
    /\ h.id = i =>
          /\ h.rev <= st.rev
          /\ st.tokens[i].ver <= st.ver
          /\ h.patched => h.rev < st.rev
          /\ h.verified => st.tokens[i].ver < st.ver
          /\ \A p \in Paths :
                \/ st.tokens[i].anchors[p] \in {NoFile, {}, x[p]}
                \/ (h.patched \/ h.shown) /\ st.tokens[i].anchors[p] \in G[p]
                \/ Past(st.tokens[i].anchors[p], p, f, T)

Fits(st, h, s, f, e, T, G) ==
    /\ Distinct(st)
    /\ \A i \in DOMAIN st.tokens :
           TokenFits(st, i, h[st.tokens[i].task], s[st.tokens[i].task], f, e, T, G)

(* What the tasks hold and have seen when the operation o of c returns.     *)
HeldAfter(o, c, h) ==
    [t \in Tasks |->
        CASE o.kind = "issue" -> IF t = c THEN [Nothing EXCEPT !.id = TokenOf(o.st, c), !.rev = o.st.rev]
                                 ELSE h[t]
          [] o.kind = "refresh" -> [h[t] EXCEPT !.verified = FALSE]
          [] o.kind = "track" -> h[t]
          [] o.kind = "verify" -> [h[t] EXCEPT !.verified = h[t].verified \/ o.passed]
          [] o.kind = "record" -> IF t = c THEN [h[t] EXCEPT !.rev = o.st.rev]
                                  ELSE [h[t] EXCEPT !.patched = TRUE]
          [] o.kind = "lost" -> [h[t] EXCEPT !.patched = TRUE]]
SeenAfter(o, c, s) ==
    [t \in Tasks |-> IF o.kind = "record" /\ t = c THEN [s[t] EXCEPT ![o.path] = o.text] ELSE s[t]]

Patching(c) == op[c].pc \in {"read", "torn", "patched"}
Saving(c) == op[c].pc \in {"save", "saving"}
Texts == [p \in Paths |-> {op[c].text : c \in {d \in Clients : Patching(d) /\ op[d].path = p}}]

(* Operations do not overlap.                                               *)
Alone == \A c, d \in Clients : op[c].pc # "idle" /\ op[d].pc # "idle" => c = d

(* Each edit has a number of its own.                                       *)
Numbered ==
    /\ \A p \in Paths : file[p] \subseteq 0..edits
    /\ \A c \in Clients : op[c].text \subseteq 1..edits

(* What is written fits what the tasks hold, and what an operation is about *)
(* to write fits what they will hold then.                                  *)
StateFits == Fits(state, held, seen, file, edits, Texts, recorded)
PendingFits ==
    \A c \in Clients : Saving(c) =>
        Fits(op[c].st, HeldAfter(op[c], c, held), SeenAfter(op[c], c, seen), file, edits, Texts, recorded)

(* A patch that was let through was based on the last revision.             *)
PatchBased ==
    \A c \in Tasks : Patching(c) \/ op[c].pc = "checked" => ~held[c].patched /\ ~held[c].verified

IInv ==
    /\ TypeOK
    /\ Alone
    /\ Numbered
    /\ StateFits
    /\ PendingFits
    /\ PatchBased

-----------------------------------------------------------------------------
(* The operators of the model                                               *)

(* A sequence whose elements are replaced by tokens is one of tokens.       *)
LEMMA TokenSeq ==
  ASSUME NEW old \in Seq(Token), NEW new, new = [i \in DOMAIN old |-> new[i]],
         \A i \in DOMAIN old : new[i] \in Token
  PROVE  /\ new \in Seq(Token)
         /\ DOMAIN new = DOMAIN old
<1>1. Len(old) \in Nat /\ DOMAIN old = 1 .. Len(old)
  BY LenProperties
<1>2. new \in [1 .. Len(old) -> Token]
  BY <1>1
<1>3. Seq(Token) = UNION {[1 .. n -> Token] : n \in Nat}
  BY SeqDef
<1>4. QED BY <1>1, <1>2, <1>3

(* A task has one token.                                                    *)
LEMMA TokenOfIs ==
  ASSUME NEW st, Distinct(st), NEW i \in DOMAIN st.tokens
  PROVE  TokenOf(st, st.tokens[i].task) = i
<1> DEFINE t == st.tokens[i].task
<1> DEFINE k == CHOOSE k \in DOMAIN st.tokens : st.tokens[k].task = t
<1>1. k \in DOMAIN st.tokens /\ st.tokens[k].task = t
  OBVIOUS
<1>2. k = i
  BY <1>1 DEF Distinct
<1>3. QED BY <1>2 DEF TokenOf

(* The token of a task is its own, or the next one.                         *)
LEMMA TokenOfType ==
  ASSUME NEW st \in State, NEW t
  PROVE  /\ TokenOf(st, t) \in Nat \ {0}
         /\ TokenOf(st, t) \in DOMAIN st.tokens => st.tokens[TokenOf(st, t)].task = t
         /\ TokenOf(st, t) \notin DOMAIN st.tokens =>
              /\ TokenOf(st, t) = Len(st.tokens) + 1
              /\ \A i \in DOMAIN st.tokens : st.tokens[i].task # t
<1>1. /\ st.tokens \in Seq(Token)
      /\ Len(st.tokens) \in Nat /\ DOMAIN st.tokens = 1 .. Len(st.tokens)
  BY LenProperties DEF State
<1>2. CASE \E i \in DOMAIN st.tokens : st.tokens[i].task = t
  <2> DEFINE k == CHOOSE k \in DOMAIN st.tokens : st.tokens[k].task = t
  <2>1. k \in DOMAIN st.tokens /\ st.tokens[k].task = t
    BY <1>2
  <2>2. TokenOf(st, t) = k
    BY <1>2 DEF TokenOf
  <2> HIDE DEF k
  <2>3. QED BY <1>1, <2>1, <2>2
<1>3. CASE ~ \E i \in DOMAIN st.tokens : st.tokens[i].task = t
  BY <1>1, <1>3 DEF TokenOf
<1>4. QED BY <1>2, <1>3

LEMMA RehashType ==
  ASSUME NEW old \in Hashes, NEW P \in SUBSET Paths, file \in [Paths -> Content]
  PROVE  /\ Rehash(old, P) \in Hashes
         /\ \A p \in Paths : Rehash(old, P)[p] =
                IF p \in P /\ file[p] # NoFile THEN file[p] ELSE old[p]
BY DEF Rehash, Hashes

LEMMA DefaultType ==
  /\ Default \in State
  /\ Default.tokens = <<>> /\ DOMAIN Default.tokens = {}
  /\ Default.tracked \in Hashes /\ \A p \in Paths : Default.tracked[p] = NoFile
<1>1. <<>> \in Seq(Token) /\ Len(<<>>) = 0 /\ DOMAIN <<>> = {}
  BY EmptySeq
<1>2. NoFile \in Content
  BY DEF Content, NoFile
<1>3. Default.tracked \in Hashes /\ \A p \in Paths : Default.tracked[p] = NoFile
  BY <1>2 DEF Default, Hashes
<1>4. QED BY <1>1, <1>3 DEF Default, State

(* The anchors of the task so far.                                          *)
Former(st, t) ==
    IF TokenOf(st, t) \in DOMAIN st.tokens THEN st.tokens[TokenOf(st, t)].anchors ELSE Default.tracked

(* The state n has a token for the task of this verify revision, with the   *)
(* files in Q anchored anew; the other tasks' tokens are as in st.          *)
IssuedTo(st, t, Q, n) ==
    LET id == TokenOf(st, t) IN
    /\ n \in State /\ Distinct(n)
    /\ n.rev = st.rev /\ n.ver = st.ver
    /\ n.tracked = Rehash(st.tracked, Q)
    /\ id \in DOMAIN n.tokens /\ Former(st, t) \in Hashes
    /\ n.tokens[id].task = t /\ n.tokens[id].ver = st.ver
    /\ n.tokens[id].anchors = Rehash(Former(st, t), Q)
    /\ \A i \in DOMAIN n.tokens \ {id} :
           i \in DOMAIN st.tokens /\ n.tokens[i] = st.tokens[i] /\ st.tokens[i].task # t

LEMMA IssuedShape ==
  ASSUME NEW st \in State, Distinct(st), NEW t \in Tasks, NEW P \in SUBSET Paths,
         file \in [Paths -> Content], NEW n, n = Issued(st, t, P)
  PROVE  IssuedTo(st, t, P \cup Anchored(st), n)
<1> DEFINE id == TokenOf(st, t)
<1> DEFINE old == Former(st, t)
<1> DEFINE Q == P \cup Anchored(st)
<1> DEFINE token == [task |-> t, ver |-> st.ver, expired |-> FALSE, anchors |-> Rehash(old, Q)]
<1> DEFINE toks == [i \in DOMAIN st.tokens \cup {id} |-> IF i = id THEN token ELSE st.tokens[i]]
<1>1. /\ st.tokens \in Seq(Token) /\ st.tracked \in Hashes /\ st.ver \in Nat /\ st.rev \in Nat
      /\ Len(st.tokens) \in Nat /\ DOMAIN st.tokens = 1 .. Len(st.tokens)
      /\ \A i \in DOMAIN st.tokens : st.tokens[i] \in Token
  BY LenProperties, ElementOfSeq DEF State
<1>2. /\ id \in Nat \ {0}
      /\ id \in DOMAIN st.tokens => st.tokens[id].task = t
      /\ id \notin DOMAIN st.tokens =>
           /\ id = Len(st.tokens) + 1
           /\ \A i \in DOMAIN st.tokens : st.tokens[i].task # t
  BY TokenOfType
<1>3. old \in Hashes
  BY <1>1, DefaultType DEF Token, Former
<1>4. Q \in SUBSET Paths
  BY DEF Anchored
<1>5. Rehash(old, Q) \in Hashes /\ Rehash(st.tracked, Q) \in Hashes
  BY <1>1, <1>3, <1>4, RehashType
<1>6. token \in Token /\ token.task = t /\ token.ver = st.ver /\ token.anchors = Rehash(old, Q)
  BY <1>1, <1>5 DEF Token
<1>7. n = [st EXCEPT !.tokens = toks, !.tracked = Rehash(st.tracked, Q)]
  BY DEF Issued, Former
<1> HIDE DEF token, id, old
<1>8. \E k \in Nat : DOMAIN toks = 1 .. k
  <2>1. CASE id \in DOMAIN st.tokens
    BY <1>1, <2>1
  <2>2. CASE id \notin DOMAIN st.tokens
    <3>1. DOMAIN toks = 1 .. (Len(st.tokens) + 1)
      BY <1>1, <1>2, <2>2
    <3>2. QED BY <1>1, <3>1
  <2>3. QED BY <2>1, <2>2
<1>9. /\ id \in DOMAIN toks /\ toks[id] = token
      /\ \A i \in DOMAIN toks \ {id} : i \in DOMAIN st.tokens /\ toks[i] = st.tokens[i]
  OBVIOUS
<1>10. toks \in Seq(Token)
  <2>1. \A i \in DOMAIN toks : toks[i] \in Token
    BY <1>1, <1>6
  <2>2. PICK k \in Nat : DOMAIN toks = 1 .. k
    BY <1>8
  <2>3. toks \in [1 .. k -> Token]
    BY <2>1, <2>2
  <2> HIDE DEF toks
  <2>4. Seq(Token) = UNION {[1 .. m -> Token] : m \in Nat}
    BY SeqDef
  <2>5. QED BY <2>3, <2>4
<1> HIDE DEF toks, Q
<1>11. /\ n \in State /\ n.tokens = toks /\ n.tracked = Rehash(st.tracked, Q)
       /\ n.rev = st.rev /\ n.ver = st.ver
  BY <1>1, <1>5, <1>7, <1>10 DEF State
<1>12. \A i \in DOMAIN st.tokens \ {id} : st.tokens[i].task # t
  BY <1>2 DEF Distinct
<1>13. Distinct(n)
  BY <1>6, <1>9, <1>11, <1>12 DEF Distinct
<1>14. QED BY <1>3, <1>6, <1>9, <1>11, <1>12, <1>13 DEF Q, id, old, IssuedTo

(* Operators that change every token keep the tokens' tasks.                *)
LEMMA ChangedTokens ==
  ASSUME NEW st \in State, NEW toks, NEW n,
         toks = [i \in DOMAIN st.tokens |-> toks[i]],
         \A i \in DOMAIN st.tokens : toks[i] \in Token /\ toks[i].task = st.tokens[i].task,
         NEW tracked \in Hashes, NEW rev \in Nat,
         n = [rev |-> rev, ver |-> st.ver, tracked |-> tracked, tokens |-> toks]
  PROVE  /\ n \in State
         /\ n.rev = rev /\ n.ver = st.ver /\ n.tracked = tracked /\ n.tokens = toks
         /\ DOMAIN n.tokens = DOMAIN st.tokens
         /\ Distinct(st) => Distinct(n)
<1>1. st.tokens \in Seq(Token)
  BY DEF State
<1>2. toks \in Seq(Token) /\ DOMAIN toks = DOMAIN st.tokens
  BY <1>1, TokenSeq
<1>3. /\ n \in State
      /\ n.rev = rev /\ n.ver = st.ver /\ n.tracked = tracked /\ n.tokens = toks
  BY <1>2 DEF State
<1>4. \A i \in DOMAIN n.tokens : i \in DOMAIN st.tokens /\ n.tokens[i].task = st.tokens[i].task
  BY <1>2, <1>3
<1>5. Distinct(st) => Distinct(n)
  BY <1>4 DEF Distinct
<1>6. QED BY <1>2, <1>3, <1>5

LEMMA TokenFacts ==
  ASSUME NEW st \in State, NEW i \in DOMAIN st.tokens
  PROVE  /\ st.tokens[i] \in Token
         /\ st.tokens[i].task \in Tasks /\ st.tokens[i].ver \in Nat
         /\ st.tokens[i].anchors \in Hashes /\ i \in Nat \ {0}
<1>1. st.tokens \in Seq(Token)
  BY DEF State
<1>2. Len(st.tokens) \in Nat /\ DOMAIN st.tokens = 1 .. Len(st.tokens)
  BY <1>1, LenProperties
<1>3. st.tokens[i] \in Token
  BY <1>1, <1>2, ElementOfSeq
<1>4. QED BY <1>2, <1>3 DEF Token

LEMMA RefreshedShape ==
  ASSUME NEW st \in State, Distinct(st), NEW P \in SUBSET Paths, file \in [Paths -> Content],
         NEW n, n = Refreshed(st, P)
  PROVE  /\ n \in State /\ Distinct(n)
         /\ n.rev = st.rev /\ n.ver = st.ver /\ DOMAIN n.tokens = DOMAIN st.tokens
         /\ \A p \in Paths : n.tracked[p] = IF p \in P THEN file[p] ELSE st.tracked[p]
         /\ \A i \in DOMAIN st.tokens :
              /\ n.tokens[i].task = st.tokens[i].task /\ n.tokens[i].ver = st.ver
              /\ \A p \in Paths : n.tokens[i].anchors[p] =
                    IF p \in P THEN file[p] ELSE st.tokens[i].anchors[p]
<1> DEFINE now(old) == [p \in Paths |-> IF p \in P THEN file[p] ELSE old[p]]
<1> DEFINE toks == [i \in DOMAIN st.tokens |->
                      [st.tokens[i] EXCEPT !.ver = st.ver, !.anchors = now(st.tokens[i].anchors)]]
<1>1. st.tracked \in Hashes /\ st.rev \in Nat /\ st.ver \in Nat
  BY DEF State
<1>2. \A old \in Hashes : now(old) \in Hashes
  BY DEF Hashes
<1>3. \A i \in DOMAIN st.tokens :
        /\ toks[i] \in Token /\ toks[i].task = st.tokens[i].task
        /\ toks[i].ver = st.ver /\ toks[i].anchors = now(st.tokens[i].anchors)
  <2> SUFFICES ASSUME NEW i \in DOMAIN st.tokens
               PROVE  /\ toks[i] \in Token /\ toks[i].task = st.tokens[i].task
                      /\ toks[i].ver = st.ver /\ toks[i].anchors = now(st.tokens[i].anchors)
    OBVIOUS
  <2>1. st.tokens[i] \in Token /\ now(st.tokens[i].anchors) \in Hashes
    BY <1>2, TokenFacts
  <2> HIDE DEF now
  <2>2. QED BY <1>1, <2>1 DEF Token
<1>4. n = [rev |-> st.rev, ver |-> st.ver, tracked |-> now(st.tracked), tokens |-> toks]
  BY DEF Refreshed, State
<1>5. now(st.tracked) \in Hashes /\ toks = [i \in DOMAIN st.tokens |-> toks[i]]
  BY <1>1, <1>2
<1>6. /\ n \in State /\ Distinct(n)
      /\ n.rev = st.rev /\ n.ver = st.ver /\ n.tracked = now(st.tracked) /\ n.tokens = toks
      /\ DOMAIN n.tokens = DOMAIN st.tokens
  <2> HIDE DEF toks, now
  <2>1. QED BY <1>1, <1>3, <1>4, <1>5, ChangedTokens
<1> HIDE DEF toks
<1>7. QED BY <1>3, <1>6

LEMMA TrackedShape ==
  ASSUME NEW st \in State, Distinct(st), NEW t \in Tasks, NEW q \in Paths,
         file \in [Paths -> Content], NEW n, n = Tracked(st, t, q)
  PROVE  /\ n \in State /\ Distinct(n)
         /\ n.rev = st.rev /\ n.ver = st.ver /\ DOMAIN n.tokens = DOMAIN st.tokens
         /\ \A p \in Paths : n.tracked[p] = IF p = q THEN file[q] ELSE st.tracked[p]
         /\ \A i \in DOMAIN st.tokens :
              /\ n.tokens[i].task = st.tokens[i].task /\ n.tokens[i].ver = st.tokens[i].ver
              /\ \A p \in Paths : n.tokens[i].anchors[p] =
                    IF p = q /\ st.tokens[i].task = t THEN file[q] ELSE st.tokens[i].anchors[p]
<1> DEFINE tracked == [st.tracked EXCEPT ![q] = file[q]]
<1> DEFINE toks == [i \in DOMAIN st.tokens |->
                     IF st.tokens[i].task = t THEN [st.tokens[i] EXCEPT !.anchors[q] = file[q]]
                     ELSE st.tokens[i]]
<1>1. st.tracked \in Hashes /\ st.rev \in Nat /\ st.ver \in Nat
  BY DEF State
<1>2. \A old \in Hashes : [old EXCEPT ![q] = file[q]] \in Hashes
  BY DEF Hashes
<1>3. \A i \in DOMAIN st.tokens :
        /\ toks[i] \in Token /\ toks[i].task = st.tokens[i].task /\ toks[i].ver = st.tokens[i].ver
        /\ toks[i].anchors = IF st.tokens[i].task = t THEN [st.tokens[i].anchors EXCEPT ![q] = file[q]]
                             ELSE st.tokens[i].anchors
  <2> SUFFICES ASSUME NEW i \in DOMAIN st.tokens
               PROVE  /\ toks[i] \in Token /\ toks[i].task = st.tokens[i].task
                      /\ toks[i].ver = st.tokens[i].ver
                      /\ toks[i].anchors = IF st.tokens[i].task = t
                                           THEN [st.tokens[i].anchors EXCEPT ![q] = file[q]]
                                           ELSE st.tokens[i].anchors
    OBVIOUS
  <2> DEFINE new == [st.tokens[i].anchors EXCEPT ![q] = file[q]]
  <2>1. st.tokens[i] \in Token /\ new \in Hashes
    BY <1>2, TokenFacts
  <2>2. toks[i] = IF st.tokens[i].task = t THEN [st.tokens[i] EXCEPT !.anchors = new] ELSE st.tokens[i]
    OBVIOUS
  <2> HIDE DEF toks, new
  <2>3. /\ toks[i] \in Token /\ toks[i].task = st.tokens[i].task
        /\ toks[i].ver = st.tokens[i].ver
        /\ toks[i].anchors = IF st.tokens[i].task = t THEN new ELSE st.tokens[i].anchors
    BY <2>1, <2>2 DEF Token
  <2>4. QED BY <2>3 DEF new
<1>4. n = [rev |-> st.rev, ver |-> st.ver, tracked |-> tracked, tokens |-> toks]
  BY DEF Tracked, State
<1>5. tracked \in Hashes /\ toks = [i \in DOMAIN st.tokens |-> toks[i]]
  BY <1>1, <1>2
<1>6. /\ n \in State /\ Distinct(n)
      /\ n.rev = st.rev /\ n.ver = st.ver /\ n.tokens = toks
      /\ n.tracked = tracked
      /\ DOMAIN n.tokens = DOMAIN st.tokens
  <2>1. \A i \in DOMAIN st.tokens : toks[i] \in Token /\ toks[i].task = st.tokens[i].task
    BY <1>3
  <2> HIDE DEF toks, tracked
  <2>2. QED BY <1>1, <2>1, <1>4, <1>5, ChangedTokens
<1> HIDE DEF toks
<1>7. \A i \in DOMAIN st.tokens : st.tokens[i].anchors \in Hashes
  BY TokenFacts
<1>8. QED BY <1>1, <1>3, <1>6, <1>7 DEF Hashes

LEMMA RecordedShape ==
  ASSUME NEW st \in State, Distinct(st), NEW q \in Paths, NEW text \in Content,
         NEW n, n = Recorded(st, q, text)
  PROVE  /\ n \in State /\ Distinct(n)
         /\ n.rev = st.rev + 1 /\ n.ver = st.ver /\ DOMAIN n.tokens = DOMAIN st.tokens
         /\ \A p \in Paths : n.tracked[p] = IF p = q THEN text ELSE st.tracked[p]
         /\ \A i \in DOMAIN st.tokens :
              /\ n.tokens[i].task = st.tokens[i].task /\ n.tokens[i].ver = st.tokens[i].ver
              /\ \A p \in Paths : n.tokens[i].anchors[p] =
                    IF p = q THEN text ELSE st.tokens[i].anchors[p]
<1> DEFINE tracked == [st.tracked EXCEPT ![q] = text]
<1> DEFINE rev == st.rev + 1
<1> DEFINE toks == [i \in DOMAIN st.tokens |-> [st.tokens[i] EXCEPT !.anchors[q] = text]]
<1>1. st.tracked \in Hashes /\ rev \in Nat /\ st.ver \in Nat
  BY DEF State
<1>2. \A old \in Hashes : [old EXCEPT ![q] = text] \in Hashes
  BY DEF Hashes
<1>3. \A i \in DOMAIN st.tokens :
        /\ toks[i] \in Token /\ toks[i].task = st.tokens[i].task /\ toks[i].ver = st.tokens[i].ver
        /\ toks[i].anchors = [st.tokens[i].anchors EXCEPT ![q] = text]
  <2> SUFFICES ASSUME NEW i \in DOMAIN st.tokens
               PROVE  /\ toks[i] \in Token /\ toks[i].task = st.tokens[i].task
                      /\ toks[i].ver = st.tokens[i].ver
                      /\ toks[i].anchors = [st.tokens[i].anchors EXCEPT ![q] = text]
    OBVIOUS
  <2> DEFINE new == [st.tokens[i].anchors EXCEPT ![q] = text]
  <2>1. st.tokens[i] \in Token /\ new \in Hashes
    BY <1>2, TokenFacts
  <2>2. toks[i] = [st.tokens[i] EXCEPT !.anchors = new]
    OBVIOUS
  <2> HIDE DEF toks, new
  <2>3. /\ toks[i] \in Token /\ toks[i].task = st.tokens[i].task
        /\ toks[i].ver = st.tokens[i].ver /\ toks[i].anchors = new
    BY <2>1, <2>2 DEF Token
  <2>4. QED BY <2>3 DEF new
<1>4. n = [rev |-> rev, ver |-> st.ver, tracked |-> tracked, tokens |-> toks]
  BY DEF Recorded, State
<1>5. tracked \in Hashes /\ toks = [i \in DOMAIN st.tokens |-> toks[i]]
  BY <1>1, <1>2
<1>6. /\ n \in State /\ Distinct(n)
      /\ n.rev = rev /\ n.ver = st.ver /\ n.tokens = toks
      /\ n.tracked = tracked
      /\ DOMAIN n.tokens = DOMAIN st.tokens
  <2>1. \A i \in DOMAIN st.tokens : toks[i] \in Token /\ toks[i].task = st.tokens[i].task
    BY <1>3
  <2> HIDE DEF toks, tracked, rev
  <2>2. QED BY <1>1, <2>1, <1>4, <1>5, ChangedTokens
<1> HIDE DEF toks
<1>7. \A i \in DOMAIN st.tokens : st.tokens[i].anchors \in Hashes
  BY TokenFacts
<1>8. QED BY <1>1, <1>3, <1>6, <1>7 DEF Hashes

-----------------------------------------------------------------------------
(* What the operations leave of the tokens' worth                           *)

(* A state without tokens fits everything.                                  *)
LEMMA DefaultFits == \A h, s, f, e, T, G : Fits(Default, h, s, f, e, T, G)
BY DefaultType DEF Fits, Distinct

(* What a file was stays past.                                              *)
LEMMA FitsLater ==
  ASSUME NEW st, NEW h, NEW s, NEW f, NEW T, NEW g, NEW U, NEW e \in Nat, NEW k \in Nat, e <= k,
         NEW G, NEW H, \A p \in Paths : G[p] \subseteq H[p],
         Fits(st, h, s, f, e, T, G),
         \A p \in Paths : \A A \in SUBSET (0..e) :
             A \notin {NoFile, {}} /\ Past(A, p, f, T) => Past(A, p, g, U)
  PROVE  Fits(st, h, s, g, k, U, H)
<1>1. SUFFICES ASSUME NEW i \in DOMAIN st.tokens
               PROVE  TokenFits(st, i, h[st.tokens[i].task], s[st.tokens[i].task], g, k, U, H)
  BY DEF Fits
<1>2. TokenFits(st, i, h[st.tokens[i].task], s[st.tokens[i].task], f, e, T, G)
  BY DEF Fits
<1>3. 0..e \subseteq 0..k
  OBVIOUS
<1> HIDE DEF Past
<1>4. ASSUME NEW p \in Paths, NEW A, A \subseteq 0..e, NEW b \in BOOLEAN,
             \/ A \in {NoFile, {}, s[st.tokens[i].task][p]}
             \/ b /\ A \in G[p]
             \/ Past(A, p, f, T)
      PROVE  \/ A \in {NoFile, {}, s[st.tokens[i].task][p]}
             \/ b /\ A \in H[p]
             \/ Past(A, p, g, U)
  BY <1>4
<1>5. \A p \in Paths : st.tokens[i].anchors[p] \subseteq 0..e
  BY <1>2 DEF TokenFits
<1>6. QED BY <1>2, <1>3, <1>4, <1>5 DEF TokenFits

(* While no patch is under way, a token that follows the files it changes   *)
(* in what its task has seen is worth the same.                             *)
LEMMA Reread ==
  ASSUME NEW f, NEW T, NEW p \in Paths, T[p] = {}, NEW A, NEW x, NEW y,
         NEW b, A \in {NoFile, {}, x} \/ b \/ Past(A, p, f, T), y \in {x, f[p]}
  PROVE  A \in {NoFile, {}, y} \/ b \/ Past(A, p, f, T)
BY DEF Past

LEMMA SeenMore ==
  ASSUME NEW st, NEW h, NEW s, NEW r, NEW f, NEW T, NEW e, NEW G,
         \A p \in Paths : T[p] = {},
         Fits(st, h, s, f, e, T, G),
         \A i \in DOMAIN st.tokens : \A p \in Paths :
             r[st.tokens[i].task][p] \in {s[st.tokens[i].task][p], f[p]}
  PROVE  Fits(st, h, r, f, e, T, G)
<1>1. SUFFICES ASSUME NEW i \in DOMAIN st.tokens
               PROVE  TokenFits(st, i, h[st.tokens[i].task], r[st.tokens[i].task], f, e, T, G)
  BY DEF Fits
<1>2. TokenFits(st, i, h[st.tokens[i].task], s[st.tokens[i].task], f, e, T, G)
  BY DEF Fits
<1>3. ASSUME NEW p \in Paths, NEW A, NEW b,
             A \in {NoFile, {}, s[st.tokens[i].task][p]} \/ b \/ Past(A, p, f, T)
      PROVE  A \in {NoFile, {}, r[st.tokens[i].task][p]} \/ b \/ Past(A, p, f, T)
  BY <1>3, Reread
<1>4. QED BY <1>2, <1>3 DEF TokenFits

LEMMA IssueFits ==
  ASSUME state \in State, held \in [Tasks -> Held], seen \in [Tasks -> Hashes], edits \in Nat,
         file \in [Paths -> Content], \A p \in Paths : file[p] \subseteq 0..edits,
         \A p \in Paths : Texts[p] = {},
         Fits(state, held, seen, file, edits, Texts, recorded),
         NEW t \in Tasks, NEW P \in SUBSET Paths, NEW n, n = Issued(state, t, P),
         NEW r, r = [seen EXCEPT ![t] = Rehash(seen[t], P \cup Anchored(state))],
         NEW g, g = [u \in Tasks |-> IF u = t THEN [Nothing EXCEPT !.id = TokenOf(n, t), !.rev = n.rev]
                                     ELSE held[u]]
  PROVE  /\ n \in State /\ r \in [Tasks -> Hashes]
         /\ Fits(state, held, r, file, edits, Texts, recorded)
         /\ Fits(n, g, r, file, edits, Texts, recorded)
<1> DEFINE Q == P \cup Anchored(state)
<1> DEFINE id == TokenOf(state, t)
<1> DEFINE old == Former(state, t)
<1>1. Distinct(state) /\ Q \in SUBSET Paths
  BY DEF Fits, Anchored
<1>2. /\ n \in State /\ Distinct(n)
      /\ n.rev = state.rev /\ n.ver = state.ver
      /\ n.tracked = Rehash(state.tracked, Q)
      /\ id \in DOMAIN n.tokens /\ old \in Hashes
      /\ n.tokens[id].task = t /\ n.tokens[id].ver = state.ver
      /\ n.tokens[id].anchors = Rehash(old, Q)
      /\ \A i \in DOMAIN n.tokens \ {id} :
             i \in DOMAIN state.tokens /\ n.tokens[i] = state.tokens[i] /\ state.tokens[i].task # t
  <2>1. IssuedTo(state, t, Q, n)
    BY <1>1, IssuedShape
  <2>2. QED BY <2>1 DEF IssuedTo
<1>3. TokenOf(n, t) = id
  BY <1>2, TokenOfIs
<1>4. /\ g[t].id = id /\ g[t].rev = state.rev /\ g[t].patched = FALSE /\ g[t].verified = FALSE
      /\ \A u \in Tasks \ {t} : g[u] = held[u]
  BY <1>2, <1>3 DEF Nothing
<1>5. seen[t] \in Hashes /\ state.tracked \in Hashes /\ state.rev \in Nat /\ state.ver \in Nat
  BY DEF State
<1>6. /\ r \in [Tasks -> Hashes]
      /\ \A u \in Tasks \ {t} : r[u] = seen[u]
      /\ \A p \in Paths : r[t][p] = IF p \in Q /\ file[p] # NoFile THEN file[p] ELSE seen[t][p]
  <2>1. /\ Rehash(seen[t], Q) \in Hashes
        /\ \A p \in Paths : Rehash(seen[t], Q)[p] =
               IF p \in Q /\ file[p] # NoFile THEN file[p] ELSE seen[t][p]
    BY <1>1, <1>5, RehashType
  <2>2. r = [seen EXCEPT ![t] = Rehash(seen[t], Q)]
    OBVIOUS
  <2> HIDE DEF Q
  <2>3. QED BY <2>1, <2>2
<1>7. \A p \in Paths : n.tracked[p] = IF p \in Q /\ file[p] # NoFile THEN file[p] ELSE state.tracked[p]
  BY <1>1, <1>2, <1>5, RehashType
<1>8. \A p \in Paths : n.tokens[id].anchors[p] = IF p \in Q /\ file[p] # NoFile THEN file[p] ELSE old[p]
  BY <1>1, <1>2, RehashType
<1>9. \A p \in Paths : p \notin Q => state.tracked[p] = NoFile
  BY DEF Anchored
<1>10. id \in DOMAIN state.tokens =>
         /\ state.tokens[id].task = t /\ old = state.tokens[id].anchors
         /\ TokenFits(state, id, held[t], seen[t], file, edits, Texts, recorded)
  BY <1>1, TokenOfType DEF Fits, Former
<1>11. id \notin DOMAIN state.tokens => \A p \in Paths : old[p] = NoFile
  BY DefaultType DEF Former
<1>12. id \in Nat \ {0}
  BY TokenOfType
<1> HIDE DEF Q, id, old
<1>13. Fits(state, held, r, file, edits, Texts, recorded)
  <2>1. \A i \in DOMAIN state.tokens : \A p \in Paths :
            r[state.tokens[i].task][p] \in {seen[state.tokens[i].task][p], file[p]}
    BY <1>6, TokenFacts
  <2>2. QED BY <2>1, SeenMore
<1>14. ASSUME NEW i \in DOMAIN n.tokens
       PROVE  TokenFits(n, i, g[n.tokens[i].task], r[n.tokens[i].task], file, edits, Texts, recorded)
  <2>1. CASE i # id
    <3>1. i \in DOMAIN state.tokens /\ n.tokens[i] = state.tokens[i] /\ state.tokens[i].task \in Tasks \ {t}
      BY <1>2, <2>1, TokenFacts
    <3>2. TokenFits(state, i, held[state.tokens[i].task], seen[state.tokens[i].task], file, edits, Texts, recorded)
      BY <3>1 DEF Fits
    <3>3. \A p \in Paths : state.tracked[p] # NoFile => n.tracked[p] # NoFile
      BY <1>7
    <3>4. g[n.tokens[i].task] = held[state.tokens[i].task] /\ r[n.tokens[i].task] = seen[state.tokens[i].task]
      BY <1>4, <1>6, <3>1
    <3>5. QED BY <1>2, <3>1, <3>2, <3>3, <3>4 DEF TokenFits
  <2>2. CASE i = id
    <3> DEFINE A(p) == n.tokens[id].anchors[p]
    <3>1. ASSUME NEW p \in Paths
          PROVE  /\ A(p) \subseteq 0..edits
                 /\ A(p) # NoFile => n.tracked[p] # NoFile
                 /\ A(p) \in {NoFile, {}, r[t][p]} \/ Past(A(p), p, file, Texts)
      <4>1. CASE p \in Q /\ file[p] # NoFile
        BY <1>6, <1>7, <1>8, <4>1
      <4>2. CASE p \in Q /\ file[p] = NoFile
        <5>1. A(p) = old[p] /\ n.tracked[p] = state.tracked[p]
          BY <1>7, <1>8, <4>2
        <5>2. old[p] \subseteq 0..edits /\ (old[p] # NoFile => state.tracked[p] # NoFile)
          BY <1>10, <1>11 DEF TokenFits, NoFile
        <5>3. A(p) # NoFile => Past(A(p), p, file, Texts)
          BY <4>2 DEF Past
        <5>4. QED BY <5>1, <5>2, <5>3
      <4>3. CASE p \notin Q
        <5>1. A(p) = old[p] /\ state.tracked[p] = NoFile
          BY <1>8, <1>9, <4>3
        <5>2. old[p] = NoFile
          BY <1>10, <1>11, <5>1 DEF TokenFits
        <5>3. QED BY <5>1, <5>2 DEF NoFile
      <4>4. QED BY <4>1, <4>2, <4>3
    <3>2. n.tokens[i].task = t /\ g[t].rev <= n.rev /\ n.tokens[i].ver <= n.ver /\ g[t].id = i
      BY <1>2, <1>4, <1>5, <2>2
    <3>3. QED BY <1>4, <2>2, <3>1, <3>2 DEF TokenFits
  <2>3. QED BY <2>1, <2>2
<1>15. Fits(n, g, r, file, edits, Texts, recorded)
  BY <1>2, <1>14 DEF Fits
<1>16. QED BY <1>2, <1>6, <1>13, <1>15

LEMMA HeldType ==
  ASSUME NEW h \in [Tasks -> Held], NEW u \in Tasks
  PROVE  /\ h[u] \in Held
         /\ h[u].id \in Nat /\ h[u].rev \in Nat /\ h[u].patched \in BOOLEAN /\ h[u].verified \in BOOLEAN
         /\ h[u].shown \in BOOLEAN
BY DEF Held

LEMMA RefreshFits ==
  ASSUME state \in State, held \in [Tasks -> Held], seen \in [Tasks -> Hashes], edits \in Nat,
         file \in [Paths -> Content], \A p \in Paths : file[p] \subseteq 0..edits,
         \A p \in Paths : Texts[p] = {},
         Fits(state, held, seen, file, edits, Texts, recorded),
         NEW P \in SUBSET Paths, NEW n, n = Refreshed(state, P),
         NEW r, r = [u \in Tasks |-> [p \in Paths |-> IF p \in P THEN file[p] ELSE seen[u][p]]],
         NEW g, g = [u \in Tasks |-> [held[u] EXCEPT !.verified = FALSE]]
  PROVE  /\ n \in State /\ r \in [Tasks -> Hashes]
         /\ Fits(state, held, r, file, edits, Texts, recorded)
         /\ Fits(n, g, r, file, edits, Texts, recorded)
<1>1. Distinct(state)
  BY DEF Fits
<1>2. /\ n \in State /\ Distinct(n)
      /\ n.rev = state.rev /\ n.ver = state.ver /\ DOMAIN n.tokens = DOMAIN state.tokens
      /\ \A p \in Paths : n.tracked[p] = IF p \in P THEN file[p] ELSE state.tracked[p]
      /\ \A i \in DOMAIN state.tokens :
           /\ n.tokens[i].task = state.tokens[i].task /\ n.tokens[i].ver = state.ver
           /\ \A p \in Paths : n.tokens[i].anchors[p] =
                 IF p \in P THEN file[p] ELSE state.tokens[i].anchors[p]
  BY <1>1, RefreshedShape
<1>3. /\ r \in [Tasks -> Hashes]
      /\ \A u \in Tasks : \A p \in Paths : r[u][p] = IF p \in P THEN file[p] ELSE seen[u][p]
  <2>1. \A u \in Tasks : [p \in Paths |-> IF p \in P THEN file[p] ELSE seen[u][p]] \in Hashes
    BY DEF Hashes
  <2>2. QED BY <2>1
<1>4. Fits(state, held, r, file, edits, Texts, recorded)
  <2>1. \A i \in DOMAIN state.tokens : \A p \in Paths :
            r[state.tokens[i].task][p] \in {seen[state.tokens[i].task][p], file[p]}
    BY <1>3, TokenFacts
  <2>2. QED BY <2>1, SeenMore
<1>5. \A u \in Tasks : /\ g[u].id = held[u].id /\ g[u].rev = held[u].rev /\ g[u].shown = held[u].shown
                       /\ g[u].patched = held[u].patched /\ g[u].verified = FALSE
  <2> SUFFICES ASSUME NEW u \in Tasks
               PROVE  /\ g[u].id = held[u].id /\ g[u].rev = held[u].rev /\ g[u].shown = held[u].shown
                      /\ g[u].patched = held[u].patched /\ g[u].verified = FALSE
    OBVIOUS
  <2>1. g[u] = [held[u] EXCEPT !.verified = FALSE] /\ held[u] \in Held
    BY HeldType
  <2>2. QED BY <2>1 DEF Held
<1>6. ASSUME NEW i \in DOMAIN n.tokens
      PROVE  TokenFits(n, i, g[n.tokens[i].task], r[n.tokens[i].task], file, edits, Texts, recorded)
  <2> DEFINE u == state.tokens[i].task
  <2>1. i \in DOMAIN state.tokens /\ u \in Tasks /\ n.tokens[i].task = u
    BY <1>2, TokenFacts
  <2> HIDE DEF u
  <2>2. TokenFits(state, i, held[u], r[u], file, edits, Texts, recorded)
    BY <1>4, <2>1 DEF Fits, u
  <2>3. ASSUME NEW p \in Paths
        PROVE  /\ n.tokens[i].anchors[p] \subseteq 0..edits
               /\ n.tokens[i].anchors[p] # NoFile => n.tracked[p] # NoFile
               /\ held[u].id = i =>
                    \/ n.tokens[i].anchors[p] \in {NoFile, {}, r[u][p]}
                    \/ (held[u].patched \/ held[u].shown) /\ n.tokens[i].anchors[p] \in recorded[p]
                    \/ Past(n.tokens[i].anchors[p], p, file, Texts)
    <3>1. CASE p \in P
      BY <1>2, <1>3, <2>1, <3>1
    <3>2. CASE p \notin P
      <4>1. n.tokens[i].anchors[p] = state.tokens[i].anchors[p] /\ n.tracked[p] = state.tracked[p]
        BY <1>2, <2>1, <3>2
      <4>2. QED BY <2>2, <4>1 DEF TokenFits
    <3>3. QED BY <3>1, <3>2
  <2>4. n.tokens[i].ver <= n.ver
    BY <1>2, <2>1 DEF State
  <2>5. /\ g[u].id \in {0, i}
        /\ g[u].id = i => g[u].rev <= n.rev /\ (g[u].patched => g[u].rev < n.rev)
    BY <1>2, <1>5, <2>1, <2>2 DEF TokenFits
  <2>6. /\ ~g[u].verified /\ g[u].patched = held[u].patched
        /\ g[u].id = held[u].id /\ g[u].shown = held[u].shown
    BY <1>5, <2>1
  <2>7. QED BY <2>1, <2>3, <2>4, <2>5, <2>6 DEF TokenFits
<1>7. QED BY <1>2, <1>3, <1>4, <1>6 DEF Fits

LEMMA TrackFits ==
  ASSUME state \in State, held \in [Tasks -> Held], seen \in [Tasks -> Hashes], edits \in Nat,
         file \in [Paths -> Content], \A p \in Paths : file[p] \subseteq 0..edits,
         \A p \in Paths : Texts[p] = {},
         Fits(state, held, seen, file, edits, Texts, recorded),
         NEW t \in Tasks, NEW q \in Paths, file[q] # NoFile, NEW n, n = Tracked(state, t, q),
         NEW r, r = [seen EXCEPT ![t][q] = file[q]]
  PROVE  /\ n \in State /\ r \in [Tasks -> Hashes]
         /\ Fits(state, held, r, file, edits, Texts, recorded)
         /\ Fits(n, held, r, file, edits, Texts, recorded)
<1>1. Distinct(state)
  BY DEF Fits
<1>2. /\ n \in State /\ Distinct(n)
      /\ n.rev = state.rev /\ n.ver = state.ver /\ DOMAIN n.tokens = DOMAIN state.tokens
      /\ \A p \in Paths : n.tracked[p] = IF p = q THEN file[q] ELSE state.tracked[p]
      /\ \A i \in DOMAIN state.tokens :
           /\ n.tokens[i].task = state.tokens[i].task /\ n.tokens[i].ver = state.tokens[i].ver
           /\ \A p \in Paths : n.tokens[i].anchors[p] =
                 IF p = q /\ state.tokens[i].task = t THEN file[q] ELSE state.tokens[i].anchors[p]
  BY <1>1, TrackedShape
<1>3. /\ r \in [Tasks -> Hashes]
      /\ \A u \in Tasks : \A p \in Paths : r[u][p] = IF u = t /\ p = q THEN file[q] ELSE seen[u][p]
  <2>1. seen[t] \in [Paths -> Content] /\ [seen[t] EXCEPT ![q] = file[q]] \in Hashes
    BY DEF Hashes
  <2>2. r = [seen EXCEPT ![t] = [seen[t] EXCEPT ![q] = file[q]]]
    OBVIOUS
  <2>3. QED BY <2>1, <2>2
<1>4. Fits(state, held, r, file, edits, Texts, recorded)
  <2>1. \A i \in DOMAIN state.tokens : \A p \in Paths :
            r[state.tokens[i].task][p] \in {seen[state.tokens[i].task][p], file[p]}
    BY <1>3, TokenFacts
  <2>2. QED BY <2>1, SeenMore
<1>5. ASSUME NEW i \in DOMAIN n.tokens
      PROVE  TokenFits(n, i, held[n.tokens[i].task], r[n.tokens[i].task], file, edits, Texts, recorded)
  <2> DEFINE u == state.tokens[i].task
  <2>1. i \in DOMAIN state.tokens /\ u \in Tasks /\ n.tokens[i].task = u
    BY <1>2, TokenFacts
  <2> HIDE DEF u
  <2>2. TokenFits(state, i, held[u], r[u], file, edits, Texts, recorded)
    BY <1>4, <2>1 DEF Fits, u
  <2>3. ASSUME NEW p \in Paths
        PROVE  /\ n.tokens[i].anchors[p] \subseteq 0..edits
               /\ n.tokens[i].anchors[p] # NoFile => n.tracked[p] # NoFile
               /\ held[u].id = i =>
                    \/ n.tokens[i].anchors[p] \in {NoFile, {}, r[u][p]}
                    \/ (held[u].patched \/ held[u].shown) /\ n.tokens[i].anchors[p] \in recorded[p]
                    \/ Past(n.tokens[i].anchors[p], p, file, Texts)
    <3>1. CASE p = q /\ u = t
      BY <1>2, <1>3, <2>1, <3>1 DEF u
    <3>2. CASE ~ (p = q /\ u = t)
      <4>1. n.tokens[i].anchors[p] = state.tokens[i].anchors[p]
        BY <1>2, <2>1, <3>2 DEF u
      <4>2. state.tracked[p] # NoFile => n.tracked[p] # NoFile
        BY <1>2
      <4>3. QED BY <2>2, <4>1, <4>2 DEF TokenFits
    <3>3. QED BY <3>1, <3>2
  <2>4. n.tokens[i].ver = state.tokens[i].ver
    BY <1>2, <2>1
  <2>5. QED BY <1>2, <2>1, <2>2, <2>3, <2>4 DEF TokenFits
<1>6. QED BY <1>2, <1>3, <1>4, <1>5 DEF Fits

LEMMA VerifyFits ==
  ASSUME state \in State, held \in [Tasks -> Held],
         Fits(state, held, seen, file, edits, Texts, recorded), NEW passed \in BOOLEAN,
         NEW n, n = IF passed THEN [state EXCEPT !.ver = @ + 1] ELSE state,
         NEW g, g = [u \in Tasks |-> [held[u] EXCEPT !.verified = held[u].verified \/ passed]]
  PROVE  n \in State /\ Fits(n, g, seen, file, edits, Texts, recorded)
<1>1. /\ n \in State /\ n.rev = state.rev /\ n.tokens = state.tokens /\ n.tracked = state.tracked
      /\ n.ver = IF passed THEN state.ver + 1 ELSE state.ver
      /\ state.ver \in Nat
  BY DEF State
<1>2. \A u \in Tasks : /\ g[u].id = held[u].id /\ g[u].rev = held[u].rev
                       /\ g[u].patched = held[u].patched /\ g[u].shown = held[u].shown
                       /\ g[u].verified => held[u].verified \/ passed
  <2> SUFFICES ASSUME NEW u \in Tasks
               PROVE  /\ g[u].id = held[u].id /\ g[u].rev = held[u].rev
                      /\ g[u].patched = held[u].patched /\ g[u].shown = held[u].shown
                      /\ g[u].verified => held[u].verified \/ passed
    OBVIOUS
  <2> DEFINE b == held[u].verified \/ passed
  <2>1. g[u] = [held[u] EXCEPT !.verified = b] /\ held[u] \in Held
    BY HeldType
  <2>2. g[u].verified => b
    <3> HIDE DEF b
    <3>1. g[u].verified = b
      BY <2>1 DEF Held
    <3>2. QED BY <3>1
  <2> HIDE DEF b
  <2>3. QED BY <2>1, <2>2 DEF Held, b
<1>3. ASSUME NEW i \in DOMAIN n.tokens
      PROVE  TokenFits(n, i, g[n.tokens[i].task], seen[n.tokens[i].task], file, edits, Texts, recorded)
  <2> DEFINE u == state.tokens[i].task
  <2>1. i \in DOMAIN state.tokens /\ u \in Tasks /\ state.tokens[i].ver \in Nat
    BY <1>1, TokenFacts
  <2>2. TokenFits(state, i, held[u], seen[u], file, edits, Texts, recorded)
    BY <2>1 DEF Fits
  <2>3. n.tokens[i] = state.tokens[i] /\ n.tokens[i].task = u
    BY <1>1
  <2> HIDE DEF u
  <2>4. g[u].id = i =>
          /\ n.tokens[i].ver <= n.ver
          /\ g[u].verified => n.tokens[i].ver < n.ver
    BY <1>1, <1>2, <2>1, <2>2 DEF TokenFits
  <2>5. TokenFits(n, i, g[u], seen[u], file, edits, Texts, recorded)
    BY <1>1, <1>2, <2>1, <2>2, <2>3, <2>4 DEF TokenFits
  <2>6. QED BY <2>3, <2>5
<1>4. QED BY <1>1, <1>3 DEF Fits, Distinct

LEMMA RecordFits ==
  ASSUME state \in State, held \in [Tasks -> Held], seen \in [Tasks -> Hashes],
         NEW T, NEW G, Fits(state, held, seen, file, edits, T, G),
         NEW c, c \in Tasks => ~held[c].patched /\ ~held[c].verified,
         NEW q \in Paths, NEW text \in Content, text # NoFile, text \subseteq 0..edits,
         text \in G[q], NEW lost \in BOOLEAN,
         NEW n, n = Recorded(state, q, text),
         NEW r, r = [u \in Tasks |-> IF u = c /\ ~lost THEN [seen[u] EXCEPT ![q] = text] ELSE seen[u]],
         NEW g, g = [u \in Tasks |-> IF u = c /\ ~lost THEN [held[u] EXCEPT !.rev = n.rev]
                                     ELSE [held[u] EXCEPT !.patched = TRUE]]
  PROVE  n \in State /\ Fits(n, g, r, file, edits, T, G)
<1>1. Distinct(state) /\ state.rev \in Nat /\ state.ver \in Nat
  BY DEF Fits, State
<1>2. /\ n \in State /\ Distinct(n)
      /\ n.rev = state.rev + 1 /\ n.ver = state.ver /\ DOMAIN n.tokens = DOMAIN state.tokens
      /\ \A p \in Paths : n.tracked[p] = IF p = q THEN text ELSE state.tracked[p]
      /\ \A i \in DOMAIN state.tokens :
           /\ n.tokens[i].task = state.tokens[i].task /\ n.tokens[i].ver = state.tokens[i].ver
           /\ \A p \in Paths : n.tokens[i].anchors[p] =
                 IF p = q THEN text ELSE state.tokens[i].anchors[p]
  BY <1>1, RecordedShape
<1>3. ASSUME NEW i \in DOMAIN n.tokens
      PROVE  TokenFits(n, i, g[n.tokens[i].task], r[n.tokens[i].task], file, edits, T, G)
  <2> DEFINE u == state.tokens[i].task
  <2>1. i \in DOMAIN state.tokens /\ u \in Tasks /\ n.tokens[i].task = u
    BY <1>2, TokenFacts
  <2> HIDE DEF u
  <2>2. TokenFits(state, i, held[u], seen[u], file, edits, T, G)
    BY <2>1 DEF Fits, u
  <2>3. /\ \A p \in Paths : n.tokens[i].anchors[p] \subseteq 0..edits
        /\ \A p \in Paths : n.tokens[i].anchors[p] # NoFile => n.tracked[p] # NoFile
        /\ held[u].id \in {0, i}
    BY <1>2, <2>1, <2>2 DEF TokenFits
  <2>4. n.tokens[i].ver = state.tokens[i].ver
    BY <1>2, <2>1
  <2>5. CASE u = c /\ ~lost
    <3>1. g[u] = [held[u] EXCEPT !.rev = n.rev] /\ r[u] = [seen[u] EXCEPT ![q] = text]
      BY <2>1, <2>5
    <3>2. /\ g[u].id = held[u].id /\ g[u].rev = n.rev
          /\ g[u].patched = held[u].patched /\ g[u].verified = held[u].verified
          /\ g[u].shown = held[u].shown
      <4> DEFINE x == held[u]
      <4> DEFINE rev == n.rev
      <4>1. x \in Held /\ g[u] = [x EXCEPT !.rev = rev]
        BY <2>1, <3>1, HeldType
      <4> HIDE DEF x, rev
      <4>2. g[u].id = x.id /\ g[u].rev = rev /\ g[u].patched = x.patched /\ g[u].verified = x.verified
            /\ g[u].shown = x.shown
        BY <4>1 DEF Held
      <4>3. QED BY <4>2 DEF x, rev
    <3>3. seen[u] \in [Paths -> Content]
      BY <2>1 DEF Hashes
    <3>4. \A p \in Paths : r[u][p] = IF p = q THEN text ELSE seen[u][p]
      BY <3>1, <3>3
    <3>5. ~held[u].patched /\ ~held[u].verified
      BY <2>1, <2>5
    <3>6. held[u].id = i => \A p \in Paths :
             \/ n.tokens[i].anchors[p] \in {NoFile, {}, r[u][p]}
             \/ held[u].shown /\ n.tokens[i].anchors[p] \in G[p]
             \/ Past(n.tokens[i].anchors[p], p, file, T)
      BY <1>2, <2>1, <2>2, <3>4, <3>5 DEF TokenFits
    <3>7. n.rev <= n.rev
      BY <1>1, <1>2
    <3>8. held[u].id = i => n.tokens[i].ver <= n.ver
      BY <1>2, <2>2, <2>4 DEF TokenFits
    <3> HIDE DEF Past
    <3>9. QED BY <2>1, <2>3, <3>2, <3>5, <3>6, <3>7, <3>8 DEF TokenFits
  <2>6. CASE ~(u = c /\ ~lost)
    <3>1. g[u] = [held[u] EXCEPT !.patched = TRUE] /\ r[u] = seen[u]
      BY <2>1, <2>6
    <3>2. /\ g[u].id = held[u].id /\ g[u].rev = held[u].rev /\ held[u].rev \in Nat
          /\ g[u].patched = TRUE /\ g[u].verified = held[u].verified
      <4>1. held[u] \in Held
        BY <2>1, HeldType
      <4>2. QED BY <3>1, <4>1 DEF Held
    <3>3. held[u].id = i => held[u].rev <= n.rev /\ held[u].rev < n.rev
      BY <1>1, <1>2, <2>2, <3>2 DEF TokenFits
    <3>4. held[u].id = i => \A p \in Paths :
             \/ n.tokens[i].anchors[p] \in {NoFile, {}, r[u][p]}
             \/ n.tokens[i].anchors[p] \in G[p]
             \/ Past(n.tokens[i].anchors[p], p, file, T)
      BY <1>2, <2>1, <2>2, <3>1 DEF TokenFits
    <3> HIDE DEF Past
    <3>5. QED BY <1>2, <2>1, <2>2, <2>3, <2>4, <3>1, <3>2, <3>3, <3>4 DEF TokenFits
  <2>7. QED BY <2>5, <2>6
<1>4. QED BY <1>2, <1>3 DEF Fits

-----------------------------------------------------------------------------
(* The steps                                                                *)

LEMMA IdleType ==
  /\ Idle \in Op
  /\ Idle.pc = "idle" /\ Idle.text = {} /\ Idle.st = Default /\ Idle.path \in Paths
<1>1. (CHOOSE p \in Paths : TRUE) \in Paths
  BY CoherenceAssumption
<1>2. Default \in State /\ {} \in Content
  BY DefaultType DEF Content
<1>3. QED BY <1>1, <1>2 DEF Idle, Op, Kinds

LEMMA Types ==
  ASSUME TypeOK
  PROVE  /\ file \in [Paths -> Content] /\ state \in State /\ Distinct(state)
         /\ op \in [Clients -> Op] /\ held \in [Tasks -> Held] /\ seen \in [Tasks -> Hashes]
         /\ edits \in Nat /\ edits <= MaxEdits /\ MaxEdits \in Nat /\ faults \in 0..MaxFaults
         /\ Tasks \subseteq Clients /\ recorded \in [Paths -> SUBSET Content]
BY CoherenceAssumption DEF TypeOK, Distinct, Clients

(* The fields of what a client is doing.                                    *)
LEMMA OpFields ==
  ASSUME NEW o \in Op
  PROVE  /\ o.pc \in {"idle", "checked", "read", "torn", "patched", "save", "saving"}
         /\ o.kind \in Kinds /\ o.path \in Paths /\ o.text \in Content
         /\ o.passed \in BOOLEAN /\ o.st \in State
BY DEF Op

(* While every other client is idle, the only text is that of c.            *)
LEMMA TextsOf ==
  ASSUME NEW c \in Clients, \A d \in Clients \ {c} : op[d].pc = "idle"
  PROVE  \A p \in Paths :
             /\ Patching(c) /\ op[c].path = p => Texts[p] = {op[c].text}
             /\ ~(Patching(c) /\ op[c].path = p) => Texts[p] = {}
<1> SUFFICES ASSUME NEW p \in Paths
             PROVE  /\ Patching(c) /\ op[c].path = p => Texts[p] = {op[c].text}
                    /\ ~(Patching(c) /\ op[c].path = p) => Texts[p] = {}
  OBVIOUS
<1> DEFINE D == {d \in Clients : Patching(d) /\ op[d].path = p}
<1>1. Texts[p] = {op[d].text : d \in D}
  BY DEF Texts
<1>2. \A d \in D : d = c
  BY DEF Patching
<1>3. c \in D <=> Patching(c) /\ op[c].path = p
  OBVIOUS
<1> HIDE DEF D
<1>4. CASE c \in D
  <2>1. D = {c}
    BY <1>2, <1>4
  <2>2. QED BY <1>1, <1>3, <1>4, <2>1
<1>5. CASE c \notin D
  <2>1. D = {}
    BY <1>2, <1>5
  <2>2. QED BY <1>1, <1>3, <1>5, <2>1
<1>6. QED BY <1>4, <1>5

(* c alone has made a step to o.                                            *)
LEMMA Acted ==
  ASSUME TypeOK, NEW c \in Clients, \A d \in Clients \ {c} : op[d].pc = "idle",
         NEW o \in Op, op' = [op EXCEPT ![c] = o]
  PROVE  /\ op' \in [Clients -> Op] /\ op'[c] = o
         /\ \A d \in Clients \ {c} : op'[d] = op[d] /\ op'[d].pc = "idle"
         /\ \A p \in Paths :
              /\ o.pc \in {"read", "torn", "patched"} /\ o.path = p => Texts'[p] = {o.text}
              /\ ~(o.pc \in {"read", "torn", "patched"} /\ o.path = p) => Texts'[p] = {}
<1>1. op \in [Clients -> Op]
  BY DEF TypeOK
<1>2. /\ op' \in [Clients -> Op] /\ op'[c] = o
      /\ \A d \in Clients \ {c} : op'[d] = op[d] /\ op'[d].pc = "idle"
  BY <1>1
<1>3. (\A d \in Clients \ {c} : op[d].pc = "idle")' =>
        (\A p \in Paths :
             /\ Patching(c) /\ op[c].path = p => Texts[p] = {op[c].text}
             /\ ~(Patching(c) /\ op[c].path = p) => Texts[p] = {})'
  BY TextsOf, PTL
<1>4. QED BY <1>2, <1>3 DEF Patching

(* What has to be shown of a step of c to o, after which the tasks hold g   *)
(* and have seen r.                                                         *)
LEMMA Keeps ==
  ASSUME TypeOK, NEW c \in Clients, \A d \in Clients \ {c} : op[d].pc = "idle",
         NEW o \in Op, op' = [op EXCEPT ![c] = o],
         file' \in [Paths -> Content], state' \in State, held' \in [Tasks -> Held],
         seen' \in [Tasks -> Hashes], edits' \in 0..MaxEdits, faults' \in 0..MaxFaults,
         recorded' \in [Paths -> SUBSET Content],
         \A p \in Paths : file'[p] \subseteq 0..edits',
         o.text \subseteq 1..edits', \A d \in Clients : op[d].text \subseteq 1..edits',
         Fits(state', held', seen', file', edits', Texts', recorded'),
         o.pc \in {"save", "saving"} =>
             Fits(o.st, HeldAfter(o, c, held'), SeenAfter(o, c, seen'), file', edits', Texts', recorded'),
         c \in Tasks /\ o.pc \in {"checked", "read", "torn", "patched"} =>
             ~held'[c].patched /\ ~held'[c].verified
  PROVE  IInv'
<1>1. /\ op' \in [Clients -> Op] /\ op'[c] = o
      /\ \A d \in Clients \ {c} : op'[d] = op[d] /\ op'[d].pc = "idle"
  BY Acted
<1>2. TypeOK'
  BY <1>1 DEF TypeOK, Fits, Distinct
<1>3. Alone'
  BY <1>1 DEF Alone
<1>4. Numbered'
  BY <1>1 DEF Numbered
<1>5. StateFits'
  BY DEF StateFits
<1>6. PendingFits'
  BY <1>1 DEF PendingFits, Saving
<1>7. PatchBased'
  <2>1. Tasks \subseteq Clients
    BY DEF Clients
  <2>2. QED BY <1>1, <2>1 DEF PatchBased, Patching
<1>8. QED BY <1>2, <1>3, <1>4, <1>5, <1>6, <1>7 DEF IInv

LEMMA Begins ==
  ASSUME IInv, Overlap = FALSE, NEW c \in Clients, Begin(c)
  PROVE  /\ \A d \in Clients : op[d].pc = "idle"
         /\ \A p \in Paths : Texts[p] = {}
         /\ TypeOK /\ Numbered /\ Fits(state, held, seen, file, edits, Texts, recorded)
<1>1. \A d \in Clients : op[d].pc = "idle"
  BY DEF Begin
<1>2. \A p \in Paths : Texts[p] = {}
  BY <1>1, TextsOf DEF Patching
<1>3. QED BY <1>1, <1>2 DEF IInv, StateFits

LEMMA Continues ==
  ASSUME IInv, NEW c \in Clients, op[c].pc # "idle"
  PROVE  /\ \A d \in Clients \ {c} : op[d].pc = "idle"
         /\ TypeOK /\ Numbered /\ Fits(state, held, seen, file, edits, Texts, recorded)
         /\ op[c] \in Op /\ op[c].text \subseteq 1..edits
         /\ Saving(c) => Fits(op[c].st, HeldAfter(op[c], c, held), SeenAfter(op[c], c, seen),
                              file, edits, Texts, recorded)
         /\ c \in Tasks /\ (Patching(c) \/ op[c].pc = "checked") =>
                ~held[c].patched /\ ~held[c].verified
<1>1. \A d \in Clients \ {c} : op[d].pc = "idle"
  BY DEF IInv, Alone
<1>2. QED BY <1>1 DEF IInv, StateFits, PendingFits, PatchBased, Numbered, TypeOK

(* An operation begins that will write the state st.                        *)
LEMMA SaveKeeps ==
  ASSUME IInv, Overlap = FALSE, NEW c \in Clients, Begin(c),
         NEW o \in Op, o.pc = "save", o.text = {}, op' = [op EXCEPT ![c] = o],
         UNCHANGED <<file, state, held, edits, faults, recorded>>, seen' \in [Tasks -> Hashes],
         Fits(state, held, seen', file, edits, Texts, recorded),
         Fits(o.st, HeldAfter(o, c, held), SeenAfter(o, c, seen'), file, edits, Texts, recorded)
  PROVE  IInv'
<1>1. /\ \A d \in Clients : op[d].pc = "idle"
      /\ \A p \in Paths : Texts[p] = {}
      /\ TypeOK /\ Numbered
  BY Begins
<1>2. \A p \in Paths : Texts'[p] = {}
  BY <1>1, Acted
<1>3. Texts' = Texts
  BY <1>1, <1>2 DEF Texts
<1>4. /\ recorded' \in [Paths -> SUBSET Content]
      /\ edits' \in 0..MaxEdits /\ faults' \in 0..MaxFaults
      /\ file' \in [Paths -> Content] /\ state' \in State /\ held' \in [Tasks -> Held]
  BY <1>1 DEF TypeOK
<1>5. /\ \A p \in Paths : file'[p] \subseteq 0..edits'
      /\ \A d \in Clients : op[d].text \subseteq 1..edits'
  BY <1>1 DEF Numbered
<1>6. QED BY <1>1, <1>3, <1>4, <1>5, Keeps

LEMMA IssueKeeps ==
  ASSUME IInv, Overlap = FALSE, NEW t \in Tasks, NEW P \in SUBSET Paths, Issue(t, P)
  PROVE  IInv'
<1> DEFINE n == Issued(state, t, P)
<1> DEFINE o == [Idle EXCEPT !.pc = "save", !.kind = "issue", !.path = Idle.path,
                             !.passed = FALSE, !.st = n]
<1>1. /\ Begin(t) /\ op' = [op EXCEPT ![t] = o] /\ UNCHANGED <<file, state, held, edits, faults, recorded>>
      /\ t \in Clients
  BY DEF Issue, Save, Clients
<1>2. /\ \A p \in Paths : Texts[p] = {}
      /\ TypeOK /\ Numbered /\ Fits(state, held, seen, file, edits, Texts, recorded)
  BY <1>1, Begins
<1> DEFINE g == [u \in Tasks |-> IF u = t THEN [Nothing EXCEPT !.id = TokenOf(n, t), !.rev = n.rev]
                                 ELSE held[u]]
<1>3. seen' = [seen EXCEPT ![t] = Rehash(seen[t], P \cup Anchored(state))]
  BY DEF Issue
<1>4. \A p \in Paths : file[p] \subseteq 0..edits
  BY <1>2 DEF Numbered
<1> HIDE DEF n
<1>5. /\ n \in State /\ seen' \in [Tasks -> Hashes]
      /\ Fits(state, held, seen', file, edits, Texts, recorded)
      /\ Fits(n, g, seen', file, edits, Texts, recorded)
  <2>1. /\ n = Issued(state, t, P)
        /\ g = [u \in Tasks |-> IF u = t THEN [Nothing EXCEPT !.id = TokenOf(n, t), !.rev = n.rev]
                                ELSE held[u]]
    BY DEF n
  <2> HIDE DEF g
  <2>2. QED BY <1>2, <1>3, <1>4, <2>1, Types, IssueFits
<1>6. o \in Op /\ o.pc = "save" /\ o.text = {} /\ o.kind = "issue" /\ o.st = n
  <2> DEFINE kind == "issue"
  <2> DEFINE path == Idle.path
  <2>1. kind \in Kinds /\ kind = "issue" /\ path \in Paths
    BY IdleType DEF Kinds
  <2>2. o = [Idle EXCEPT !.pc = "save", !.kind = kind, !.path = path, !.passed = FALSE, !.st = n]
    OBVIOUS
  <2> HIDE DEF o, kind, path
  <2>3. QED BY <1>5, <2>1, <2>2, IdleType DEF Op
<1> HIDE DEF o
<1>7. HeldAfter(o, t, held) = g /\ SeenAfter(o, t, seen') = seen'
  BY <1>5, <1>6 DEF HeldAfter, SeenAfter
<1> HIDE DEF g
<1>8. QED BY <1>1, <1>5, <1>6, <1>7, SaveKeeps

LEMMA RefreshKeeps ==
  ASSUME IInv, Overlap = FALSE, NEW c \in Clients, NEW P \in SUBSET Paths, Refresh(c, P)
  PROVE  IInv'
<1> DEFINE Q == IF P = {} THEN Anchored(state) ELSE P
<1> DEFINE n == Refreshed(state, Q)
<1> DEFINE o == [Idle EXCEPT !.pc = "save", !.kind = "refresh", !.path = Idle.path,
                             !.passed = FALSE, !.st = n]
<1>1. /\ Begin(c) /\ op' = [op EXCEPT ![c] = o] /\ UNCHANGED <<file, state, held, edits, faults, recorded>>
      /\ seen' = [u \in Tasks |-> [p \in Paths |-> IF p \in Q THEN file[p] ELSE seen[u][p]]]
      /\ Q \in SUBSET Paths
  BY DEF Refresh, Save, Anchored
<1>2. /\ \A p \in Paths : Texts[p] = {}
      /\ TypeOK /\ Numbered /\ Fits(state, held, seen, file, edits, Texts, recorded)
  BY <1>1, Begins
<1> DEFINE g == [u \in Tasks |-> [held[u] EXCEPT !.verified = FALSE]]
<1>4. \A p \in Paths : file[p] \subseteq 0..edits
  BY <1>2 DEF Numbered
<1> HIDE DEF n, Q
<1>5. /\ n \in State /\ seen' \in [Tasks -> Hashes]
      /\ Fits(state, held, seen', file, edits, Texts, recorded)
      /\ Fits(n, g, seen', file, edits, Texts, recorded)
  <2>1. /\ n = Refreshed(state, Q)
        /\ g = [u \in Tasks |-> [held[u] EXCEPT !.verified = FALSE]]
    BY DEF n
  <2> HIDE DEF g
  <2>2. QED BY <1>1, <1>2, <1>4, <2>1, Types, RefreshFits
<1>6. o \in Op /\ o.pc = "save" /\ o.text = {} /\ o.kind = "refresh" /\ o.st = n
  <2> DEFINE kind == "refresh"
  <2> DEFINE path == Idle.path
  <2>1. kind \in Kinds /\ kind = "refresh" /\ path \in Paths
    BY IdleType DEF Kinds
  <2>2. o = [Idle EXCEPT !.pc = "save", !.kind = kind, !.path = path, !.passed = FALSE, !.st = n]
    OBVIOUS
  <2> HIDE DEF o, kind, path
  <2>3. QED BY <1>5, <2>1, <2>2, IdleType DEF Op
<1> HIDE DEF o
<1>7. HeldAfter(o, c, held) = g /\ SeenAfter(o, c, seen') = seen'
  BY <1>5, <1>6 DEF HeldAfter, SeenAfter
<1> HIDE DEF g
<1>8. QED BY <1>1, <1>5, <1>6, <1>7, SaveKeeps

LEMMA ReadFileKeeps ==
  ASSUME IInv, Overlap = FALSE, NEW t \in Tasks, NEW q \in Paths, ReadFile(t, q)
  PROVE  IInv'
<1> DEFINE n == Tracked(state, t, q)
<1> DEFINE o == [Idle EXCEPT !.pc = "save", !.kind = "track", !.path = q, !.passed = FALSE, !.st = n]
<1>1. /\ Begin(t) /\ op' = [op EXCEPT ![t] = o] /\ UNCHANGED <<file, state, held, edits, faults, recorded>>
      /\ seen' = [seen EXCEPT ![t][q] = file[q]]
      /\ t \in Clients /\ file[q] # NoFile
  BY DEF ReadFile, Save, Clients
<1>2. /\ \A p \in Paths : Texts[p] = {}
      /\ TypeOK /\ Numbered /\ Fits(state, held, seen, file, edits, Texts, recorded)
  BY <1>1, Begins
<1>4. \A p \in Paths : file[p] \subseteq 0..edits
  BY <1>2 DEF Numbered
<1> HIDE DEF n
<1>5. /\ n \in State /\ seen' \in [Tasks -> Hashes]
      /\ Fits(state, held, seen', file, edits, Texts, recorded)
      /\ Fits(n, held, seen', file, edits, Texts, recorded)
  <2>1. n = Tracked(state, t, q)
    BY DEF n
  <2>2. QED BY <1>1, <1>2, <1>4, <2>1, Types, TrackFits
<1>6. o \in Op /\ o.pc = "save" /\ o.text = {} /\ o.kind = "track" /\ o.st = n
  <2> DEFINE kind == "track"
  <2> DEFINE path == q
  <2>1. kind \in Kinds /\ kind = "track" /\ path \in Paths
    BY IdleType DEF Kinds
  <2>2. o = [Idle EXCEPT !.pc = "save", !.kind = kind, !.path = path, !.passed = FALSE, !.st = n]
    OBVIOUS
  <2> HIDE DEF o, kind, path
  <2>3. QED BY <1>5, <2>1, <2>2, IdleType DEF Op
<1> HIDE DEF o
<1>7. HeldAfter(o, t, held) = held /\ SeenAfter(o, t, seen') = seen'
  BY <1>2, <1>5, <1>6, Types DEF HeldAfter, SeenAfter
<1>8. QED BY <1>1, <1>5, <1>6, <1>7, SaveKeeps

LEMMA VerifyKeeps ==
  ASSUME IInv, Overlap = FALSE, NEW c \in Clients, NEW passed \in BOOLEAN, Verify(c, passed)
  PROVE  IInv'
<1> DEFINE n == IF passed THEN [state EXCEPT !.ver = @ + 1] ELSE state
<1> DEFINE o == [Idle EXCEPT !.pc = "save", !.kind = "verify", !.path = Idle.path,
                             !.passed = passed, !.st = n]
<1>1. /\ Begin(c) /\ op' = [op EXCEPT ![c] = o] /\ UNCHANGED <<file, state, held, edits, faults, recorded>>
      /\ seen' = seen
  BY DEF Verify, Save
<1>2. /\ \A p \in Paths : Texts[p] = {}
      /\ TypeOK /\ Numbered /\ Fits(state, held, seen, file, edits, Texts, recorded)
  BY <1>1, Begins
<1> DEFINE g == [u \in Tasks |-> [held[u] EXCEPT !.verified = held[u].verified \/ passed]]
<1> HIDE DEF n
<1>5. n \in State /\ Fits(n, g, seen, file, edits, Texts, recorded)
  <2>1. /\ n = IF passed THEN [state EXCEPT !.ver = state.ver + 1] ELSE state
        /\ g = [u \in Tasks |-> [held[u] EXCEPT !.verified = held[u].verified \/ passed]]
    BY DEF n
  <2> HIDE DEF g
  <2>2. QED BY <1>1, <1>2, <2>1, Types, VerifyFits
<1>6. /\ o \in Op /\ o.pc = "save" /\ o.text = {} /\ o.kind = "verify" /\ o.st = n
      /\ o.passed = passed
  <2> DEFINE kind == "verify"
  <2> DEFINE path == Idle.path
  <2>1. kind \in Kinds /\ kind = "verify" /\ path \in Paths
    BY IdleType DEF Kinds
  <2>2. o = [Idle EXCEPT !.pc = "save", !.kind = kind, !.path = path, !.passed = passed, !.st = n]
    OBVIOUS
  <2> HIDE DEF o, kind, path
  <2>3. QED BY <1>5, <2>1, <2>2, IdleType DEF Op
<1> HIDE DEF o
<1>7. HeldAfter(o, c, held) = g /\ SeenAfter(o, c, seen') = seen'
  BY <1>1, <1>2, <1>6, Types DEF HeldAfter, SeenAfter
<1> HIDE DEF g
<1>8. seen' \in [Tasks -> Hashes]
  BY <1>1, <1>2, Types
<1>9. QED BY <1>1, <1>2, <1>5, <1>6, <1>7, <1>8, SaveKeeps

LEMMA TruncateKeeps ==
  ASSUME IInv, NEW c \in Clients, Truncate(c)
  PROVE  IInv'
<1> DEFINE o == [op[c] EXCEPT !.pc = "saving"]
<1>1. /\ op[c].pc = "save" /\ op' = [op EXCEPT ![c] = o] /\ state' = Default
      /\ UNCHANGED <<file, held, edits, seen, faults, recorded>>
  BY DEF Truncate
<1>2. /\ \A d \in Clients \ {c} : op[d].pc = "idle"
      /\ TypeOK /\ Numbered
      /\ op[c] \in Op /\ op[c].text \subseteq 1..edits
      /\ Fits(op[c].st, HeldAfter(op[c], c, held), SeenAfter(op[c], c, seen), file, edits, Texts, recorded)
  BY <1>1, Continues DEF Saving
<1>3. /\ o \in Op /\ o.pc = "saving" /\ o.text = op[c].text /\ o.st = op[c].st
      /\ o.kind = op[c].kind /\ o.path = op[c].path /\ o.passed = op[c].passed
  BY <1>2 DEF Op
<1> HIDE DEF o
<1>4. \A p \in Paths : Texts[p] = {} /\ Texts'[p] = {}
  BY <1>1, <1>2, <1>3, TextsOf, Acted DEF Patching
<1>5. Texts' = Texts
  BY <1>4 DEF Texts
<1>6. HeldAfter(o, c, held) = HeldAfter(op[c], c, held) /\ SeenAfter(o, c, seen) = SeenAfter(op[c], c, seen)
  BY <1>3 DEF HeldAfter, SeenAfter
<1>7. Fits(Default, held, seen, file, edits, Texts, recorded)
  BY DefaultFits
<1>8. /\ recorded' \in [Paths -> SUBSET Content]
      /\ edits' \in 0..MaxEdits /\ faults' \in 0..MaxFaults /\ seen' \in [Tasks -> Hashes]
      /\ file' \in [Paths -> Content] /\ state' \in State /\ held' \in [Tasks -> Held]
  BY <1>1, <1>2, DefaultType DEF TypeOK
<1>9. /\ \A p \in Paths : file'[p] \subseteq 0..edits'
      /\ \A d \in Clients : op[d].text \subseteq 1..edits'
  BY <1>1, <1>2 DEF Numbered
<1>10. QED BY <1>1, <1>2, <1>3, <1>5, <1>6, <1>7, <1>8, <1>9, Keeps

(* An operation returns: what was about to be is now.                       *)
LEMMA ReturnKeeps ==
  ASSUME IInv, NEW c \in Clients, Written(c), UNCHANGED <<file, edits, faults, recorded>>,
         held' \in [Tasks -> Held], seen' \in [Tasks -> Hashes],
         held' = HeldAfter(op[c], c, held), seen' = SeenAfter(op[c], c, seen)
  PROVE  IInv'
<1>1. op[c].pc = "saving" /\ op' = [op EXCEPT ![c] = Idle] /\ state' = op[c].st
  BY DEF Written
<1>2. /\ \A d \in Clients \ {c} : op[d].pc = "idle"
      /\ TypeOK /\ Numbered /\ op[c] \in Op
      /\ Fits(op[c].st, HeldAfter(op[c], c, held), SeenAfter(op[c], c, seen), file, edits, Texts, recorded)
  BY <1>1, Continues DEF Saving
<1>3. \A p \in Paths : Texts[p] = {} /\ Texts'[p] = {}
  BY <1>1, <1>2, IdleType, TextsOf, Acted DEF Patching
<1>4. Texts' = Texts
  BY <1>3 DEF Texts
<1>5. /\ recorded' \in [Paths -> SUBSET Content]
      /\ edits' \in 0..MaxEdits /\ faults' \in 0..MaxFaults
      /\ file' \in [Paths -> Content] /\ state' \in State
  BY <1>1, <1>2, OpFields DEF TypeOK
<1>6. /\ \A p \in Paths : file'[p] \subseteq 0..edits'
      /\ \A d \in Clients : op[d].text \subseteq 1..edits'
  BY <1>2 DEF Numbered
<1>7. QED BY <1>1, <1>2, <1>4, <1>5, <1>6, IdleType, Keeps

LEMMA ReturnsKeep ==
  ASSUME IInv, NEW c \in Clients,
         ReturnRefresh(c) \/ ReturnVerify(c) \/ ReturnPatch(c) \/ AnswerLost(c)
         \/ (c \in Tasks /\ (ReturnIssue(c) \/ ReturnTrack(c)))
  PROVE  IInv'
<1> DEFINE o == op[c]
<1>1. Written(c) /\ UNCHANGED <<file, edits, faults, recorded>>
  BY DEF ReturnRefresh, ReturnVerify, ReturnPatch, AnswerLost, ReturnIssue, ReturnTrack
<1>2. o \in Op /\ TypeOK /\ state' = o.st
  BY <1>1, Continues DEF Written
<1>3. /\ held \in [Tasks -> Held] /\ seen \in [Tasks -> Hashes] /\ o.st \in State
      /\ o.text \in Content /\ o.path \in Paths /\ o.passed \in BOOLEAN /\ o.st.rev \in Nat
  BY <1>2, Types, OpFields DEF State
<1>4. \A u \in Tasks : held[u] \in Held /\ seen[u] \in Hashes
  BY <1>3
<1> SUFFICES /\ held' \in [Tasks -> Held] /\ held' = HeldAfter(o, c, held)
             /\ seen' \in [Tasks -> Hashes] /\ seen' = SeenAfter(o, c, seen)
  BY <1>1, ReturnKeeps
<1>5. CASE ReturnRefresh(c)
  <2>1. o.kind = "refresh" /\ held' = [t \in Tasks |-> [held[t] EXCEPT !.verified = FALSE]] /\ seen' = seen
    BY <1>5 DEF ReturnRefresh
  <2>2. \A t \in Tasks : [held[t] EXCEPT !.verified = FALSE] \in Held
    BY <1>4 DEF Held
  <2> HIDE DEF o
  <2>3. QED BY <1>3, <2>1, <2>2 DEF HeldAfter, SeenAfter
<1>6. CASE ReturnVerify(c)
  <2>1. /\ o.kind = "verify" /\ seen' = seen
        /\ held' = [t \in Tasks |-> [held[t] EXCEPT !.verified = held[t].verified \/ o.passed]]
    BY <1>6 DEF ReturnVerify
  <2>2. \A t \in Tasks : [held[t] EXCEPT !.verified = held[t].verified \/ o.passed] \in Held
    <3> HIDE DEF o
    <3> TAKE t \in Tasks
    <3> DEFINE b == held[t].verified \/ o.passed
    <3>1. b \in BOOLEAN /\ held[t] \in Held
      BY <1>3, <1>4
    <3> HIDE DEF b
    <3>2. QED BY <3>1 DEF Held
  <2> HIDE DEF o
  <2>3. QED BY <1>3, <2>1, <2>2 DEF HeldAfter, SeenAfter
<1>7. CASE ReturnPatch(c)
  <2>1. /\ o.kind = "record"
        /\ held' = [t \in Tasks |-> IF t = c THEN [held[t] EXCEPT !.rev = o.st.rev]
                                    ELSE [held[t] EXCEPT !.patched = TRUE]]
        /\ seen' = [t \in Tasks |-> IF t = c THEN [seen[t] EXCEPT ![o.path] = o.text] ELSE seen[t]]
    BY <1>2, <1>7 DEF ReturnPatch
  <2> DEFINE rev == o.st.rev
  <2> HIDE DEF o
  <2>2. rev \in Nat
    BY <1>3
  <2>3. \A t \in Tasks : [held[t] EXCEPT !.rev = rev] \in Held /\ [held[t] EXCEPT !.patched = TRUE] \in Held
    <3> HIDE DEF rev
    <3>1. QED BY <1>4, <2>2 DEF Held
  <2>4. \A t \in Tasks : [seen[t] EXCEPT ![o.path] = o.text] \in Hashes
    BY <1>3, <1>4 DEF Hashes
  <2>5. held' \in [Tasks -> Held] /\ seen' \in [Tasks -> Hashes]
    BY <1>4, <2>1, <2>3, <2>4
  <2>6. held' = HeldAfter(o, c, held) /\ seen' = SeenAfter(o, c, seen)
    BY <1>3, <2>1 DEF HeldAfter, SeenAfter
  <2>7. QED BY <2>5, <2>6
<1>8. CASE c \in Tasks /\ ReturnIssue(c)
  <2> DEFINE new == [Nothing EXCEPT !.id = TokenOf(o.st, c), !.rev = o.st.rev]
  <2>1. o.kind = "issue" /\ held' = [held EXCEPT ![c] = new] /\ seen' = seen
    BY <1>2, <1>8 DEF ReturnIssue
  <2> HIDE DEF o
  <2>2. new \in Held
    <3> DEFINE id == TokenOf(o.st, c)
    <3> DEFINE rev == o.st.rev
    <3>1. id \in Nat /\ rev \in Nat /\ new = [Nothing EXCEPT !.id = id, !.rev = rev]
      BY <1>3, TokenOfType
    <3> HIDE DEF id, rev, new
    <3>2. QED BY <3>1 DEF Held, Nothing
  <2>3. HeldAfter(o, c, held) = [t \in Tasks |-> IF t = c THEN new ELSE held[t]]
    BY <2>1 DEF HeldAfter
  <2> HIDE DEF new
  <2>4. held' \in [Tasks -> Held] /\ held' = HeldAfter(o, c, held)
    BY <1>3, <1>8, <2>1, <2>2, <2>3
  <2>5. seen' = SeenAfter(o, c, seen)
    BY <1>3, <2>1 DEF SeenAfter
  <2>6. QED BY <1>3, <2>1, <2>4, <2>5
<1>9. CASE c \in Tasks /\ ReturnTrack(c)
  <2>1. o.kind = "track" /\ held' = held /\ seen' = seen
    BY <1>9 DEF ReturnTrack
  <2> HIDE DEF o
  <2>2. QED BY <1>3, <2>1 DEF HeldAfter, SeenAfter
<1>10. CASE AnswerLost(c)
  <2>1. o.kind = "lost" /\ held' = [t \in Tasks |-> [held[t] EXCEPT !.patched = TRUE]] /\ seen' = seen
    BY <1>10 DEF AnswerLost
  <2>2. \A t \in Tasks : [held[t] EXCEPT !.patched = TRUE] \in Held
    BY <1>4 DEF Held
  <2> HIDE DEF o
  <2>3. QED BY <1>3, <2>1, <2>2 DEF HeldAfter, SeenAfter
<1>11. QED BY <1>5, <1>6, <1>7, <1>8, <1>9, <1>10

(* What is let through is based on the last revision and verify.            *)
LEMMA ValidIsBased ==
  ASSUME TypeOK, NEW t \in Tasks, Valid(t), Fits(state, held, seen, file, edits, Texts, recorded)
  PROVE  /\ ~held[t].patched /\ ~held[t].verified
         /\ held[t].id \in DOMAIN state.tokens
         /\ TokenFits(state, held[t].id, held[t], seen[t], file, edits, Texts, recorded)
<1> DEFINE i == held[t].id
<1>1. /\ i \in DOMAIN state.tokens /\ state.tokens[i].task = t
      /\ held[t].rev = state.rev /\ state.tokens[i].ver = state.ver
  BY DEF Valid
<1>2. TokenFits(state, i, held[t], seen[t], file, edits, Texts, recorded)
  BY <1>1 DEF Fits
<1>3. /\ held[t].patched => held[t].rev < state.rev
      /\ held[t].verified => state.tokens[i].ver < state.ver
  BY <1>2 DEF TokenFits
<1>4. state.rev \in Nat /\ state.ver \in Nat
  BY Types DEF State
<1>5. QED BY <1>1, <1>2, <1>3, <1>4

(* A task is shown the current revision.                                    *)
LEMMA ShownKeeps ==
  ASSUME IInv, Overlap = FALSE, NEW t \in Tasks, Begin(t), Shown(t)
  PROVE  IInv'
<1> DEFINE rev == state.rev
<1>1. /\ held' = [held EXCEPT ![t] = [held[t] EXCEPT !.rev = rev, !.shown = TRUE, !.patched = FALSE]]
      /\ UNCHANGED <<file, state, op, edits, seen, faults, recorded>>
      /\ t \in Clients
  BY Types DEF Shown, IInv, Clients
<1>2. /\ \A c \in Clients : op[c].pc = "idle"
      /\ TypeOK /\ Numbered /\ Fits(state, held, seen, file, edits, Texts, recorded)
      /\ held \in [Tasks -> Held] /\ state \in State /\ rev \in Nat
  BY <1>1, Begins, Types DEF State
<1>3. /\ held' \in [Tasks -> Held] /\ \A u \in Tasks \ {t} : held'[u] = held[u]
      /\ held'[t].id = held[t].id /\ held'[t].rev = rev /\ held'[t].shown = TRUE
      /\ held'[t].patched = FALSE /\ held'[t].verified = held[t].verified
  <2> DEFINE h == [held[t] EXCEPT !.rev = rev, !.shown = TRUE, !.patched = FALSE]
  <2> HIDE DEF rev
  <2>1. /\ h \in Held /\ h.id = held[t].id /\ h.rev = rev /\ h.shown = TRUE
        /\ h.patched = FALSE /\ h.verified = held[t].verified
    BY <1>2, HeldType DEF Held
  <2> HIDE DEF h
  <2>2. held' = [held EXCEPT ![t] = h]
    BY <1>1 DEF h
  <2>3. QED BY <1>2, <2>1, <2>2
<1>4. Texts' = Texts
  BY <1>1 DEF Texts, Patching
<1>5. ASSUME NEW i \in DOMAIN state.tokens
      PROVE  TokenFits(state, i, held'[state.tokens[i].task], seen[state.tokens[i].task],
                       file, edits, Texts, recorded)
  <2> DEFINE u == state.tokens[i].task
  <2>1. u \in Tasks /\ TokenFits(state, i, held[u], seen[u], file, edits, Texts, recorded)
    BY <1>2, TokenFacts DEF Fits
  <2> HIDE DEF u
  <2>2. CASE u # t
    BY <1>3, <2>1, <2>2 DEF u
  <2>3. CASE u = t
    <3>1. rev <= rev
      BY <1>2
    <3> HIDE DEF Past
    <3>2. TokenFits(state, i, held'[u], seen[u], file, edits, Texts, recorded)
      BY <1>3, <2>1, <2>3, <3>1 DEF TokenFits, rev
    <3>3. QED BY <3>2 DEF u
  <2>4. QED BY <2>2, <2>3
<1>6. StateFits'
  BY <1>1, <1>2, <1>4, <1>5 DEF StateFits, Fits
<1>7. TypeOK'
  BY <1>1, <1>2, <1>3 DEF TypeOK
<1>8. Numbered' /\ Alone' /\ PendingFits' /\ PatchBased'
  <2>1. Tasks \subseteq Clients
    BY DEF Clients
  <2>2. QED BY <1>1, <1>2, <2>1 DEF Numbered, Alone, PendingFits, PatchBased, Saving, Patching
<1>9. QED BY <1>6, <1>7, <1>8 DEF IInv

LEMMA PatchCheckKeeps ==
  ASSUME IInv, Overlap = FALSE, NEW c \in Clients, NEW q \in Paths, PatchCheck(c, q)
  PROVE  IInv'
<1> DEFINE o == [Idle EXCEPT !.pc = "checked", !.path = q]
<1>1. /\ Begin(c) /\ op' = [op EXCEPT ![c] = o] /\ (c \in Tasks => Valid(c))
      /\ UNCHANGED <<file, state, held, edits, seen, faults, recorded>>
  BY DEF PatchCheck
<1>2. /\ \A d \in Clients : op[d].pc = "idle"
      /\ \A p \in Paths : Texts[p] = {}
      /\ TypeOK /\ Numbered /\ Fits(state, held, seen, file, edits, Texts, recorded)
  BY <1>1, Begins
<1>3. o \in Op /\ o.pc = "checked" /\ o.text = {}
  BY IdleType DEF Op
<1> HIDE DEF o
<1>4. Texts' = Texts
  <2>1. \A p \in Paths : Texts'[p] = {}
    BY <1>1, <1>2, <1>3, Acted
  <2>2. QED BY <1>2, <2>1 DEF Texts
<1>5. c \in Tasks => ~held[c].patched /\ ~held[c].verified
  BY <1>1, <1>2, ValidIsBased
<1>6. /\ recorded' \in [Paths -> SUBSET Content]
      /\ edits' \in 0..MaxEdits /\ faults' \in 0..MaxFaults /\ seen' \in [Tasks -> Hashes]
      /\ file' \in [Paths -> Content] /\ state' \in State /\ held' \in [Tasks -> Held]
  BY <1>1, <1>2 DEF TypeOK
<1>7. /\ \A p \in Paths : file'[p] \subseteq 0..edits'
      /\ \A d \in Clients : op[d].text \subseteq 1..edits'
  BY <1>1, <1>2 DEF Numbered
<1>8. QED BY <1>1, <1>2, <1>3, <1>4, <1>5, <1>6, <1>7, Keeps

(* A step of a patch that changes neither the state file nor what tasks     *)
(* hold, and leaves the past what it was.                                   *)
LEMMA PatchStepKeeps ==
  ASSUME IInv, NEW c \in Clients, op[c].pc \in {"checked", "read", "torn"},
         NEW o \in Op, op' = [op EXCEPT ![c] = o], o.pc \notin {"save", "saving"},
         UNCHANGED <<state, held, seen, faults, recorded>>,
         edits' \in 0..MaxEdits, edits <= edits', o.text \subseteq 1..edits',
         file' \in [Paths -> Content], \A p \in Paths : file'[p] \subseteq 0..edits',
         \A p \in Paths : \A A \in SUBSET (0..edits) :
             A \notin {NoFile, {}} /\ Past(A, p, file, Texts) => Past(A, p, file', Texts')
  PROVE  IInv'
<1>1. /\ \A d \in Clients \ {c} : op[d].pc = "idle"
      /\ TypeOK /\ Numbered /\ Fits(state, held, seen, file, edits, Texts, recorded)
      /\ c \in Tasks => ~held[c].patched /\ ~held[c].verified
  BY Continues DEF Patching
<1>2. edits \in Nat /\ edits' \in Nat
  BY <1>1, Types
<1>3. Fits(state, held, seen, file', edits', Texts', recorded')
  BY <1>1, <1>2, FitsLater
<1>4. /\ recorded' \in [Paths -> SUBSET Content]
      /\ faults' \in 0..MaxFaults /\ seen' \in [Tasks -> Hashes]
      /\ state' \in State /\ held' \in [Tasks -> Held]
  BY <1>1 DEF TypeOK
<1>5. \A d \in Clients : op[d].text \subseteq 1..edits'
  <2>1. 1..edits \subseteq 1..edits'
    BY <1>2
  <2>2. QED BY <1>1, <2>1 DEF Numbered
<1>6. QED BY <1>1, <1>3, <1>4, <1>5, Keeps

LEMMA PatchReadKeeps ==
  ASSUME IInv, NEW c \in Clients, PatchRead(c)
  PROVE  IInv'
<1> DEFINE q == op[c].path
<1> DEFINE k == edits + 1
<1>1. op[c].pc = "checked" /\ UNCHANGED <<file, state, held, seen, faults, recorded>>
  BY DEF PatchRead
<1>2. /\ \A d \in Clients \ {c} : op[d].pc = "idle"
      /\ TypeOK /\ Numbered /\ op[c] \in Op /\ q \in Paths
  BY <1>1, Continues, OpFields
<1>3. \A p \in Paths : Texts[p] = {}
  BY <1>1, <1>2, TextsOf DEF Patching
<1>4. /\ edits \in Nat /\ edits <= MaxEdits /\ MaxEdits \in Nat /\ file \in [Paths -> Content]
      /\ \A p \in Paths : file[p] \subseteq 0..edits
  BY <1>2, Types DEF Numbered
<1>5. CASE file[q] # NoFile /\ edits < MaxEdits /\ edits' = k
           /\ op' = [op EXCEPT ![c].pc = "read", ![c].text = file[q] \cup {k}]
  <2> DEFINE text == file[q] \cup {k}
  <2> DEFINE o == [op[c] EXCEPT !.pc = "read", !.text = text]
  <2>1. k \in Nat /\ k \in 1..MaxEdits /\ k \notin 0..edits /\ 0..edits \subseteq 0..k
        /\ edits <= k /\ k \in 1..k /\ k <= MaxEdits
    BY <1>4, <1>5
  <2>2. file[q] \subseteq 1..k /\ file[q] \subseteq 1..MaxEdits
    <3>1. file[q] \in SUBSET (1..MaxEdits) /\ file[q] \subseteq 0..edits
      BY <1>2, <1>4, <1>5 DEF Content
    <3>2. QED BY <1>4, <3>1
  <2>3. text \in Content /\ text \subseteq 1..k
    BY <2>1, <2>2 DEF Content
  <2>4. op' = [op EXCEPT ![c] = o]
    BY <1>2, <1>5 DEF TypeOK
  <2> HIDE DEF text
  <2>5. o \in Op /\ o.pc = "read" /\ o.path = q /\ o.text = text
    BY <1>2, <2>3 DEF Op
  <2> HIDE DEF o, q, k
  <2>6. ASSUME NEW p \in Paths, NEW A \in SUBSET (0..edits), Past(A, p, file, Texts)
        PROVE  Past(A, p, file', Texts')
    <3>1. Texts'[p] \subseteq {text}
      <4>1. \A r \in Paths :
                   /\ o.pc \in {"read", "torn", "patched"} /\ o.path = r => Texts'[r] = {o.text}
                   /\ ~(o.pc \in {"read", "torn", "patched"} /\ o.path = r) => Texts'[r] = {}
        BY <1>2, <2>4, <2>5, Acted
      <4>2. QED BY <2>5, <4>1
    <3>2. k \in text
      BY DEF text
    <3>3. A # text
      BY <2>1, <2>6, <3>2
    <3>4. QED BY <1>1, <2>6, <3>1, <3>3 DEF Past
  <2>7. /\ edits' \in 0..MaxEdits /\ edits <= edits' /\ o.text \subseteq 1..edits'
        /\ file' \in [Paths -> Content]
    BY <1>1, <1>4, <1>5, <2>1, <2>3, <2>5
  <2>8. \A p \in Paths : file'[p] \subseteq 0..edits'
    BY <1>1, <1>4, <1>5, <2>1
  <2>9. QED BY <1>1, <2>4, <2>5, <2>6, <2>7, <2>8, PatchStepKeeps
<1>6. CASE op' = [op EXCEPT ![c] = Idle] /\ UNCHANGED edits
  <2>1. \A p \in Paths : Texts'[p] = {}
    BY <1>2, <1>6, IdleType, Acted
  <2>2. \A p \in Paths : \A A : Past(A, p, file, Texts) => Past(A, p, file', Texts')
    BY <1>1, <1>3, <2>1 DEF Past
  <2>3. /\ edits' \in 0..MaxEdits /\ edits <= edits' /\ Idle.text \subseteq 1..edits'
        /\ file' \in [Paths -> Content] /\ \A p \in Paths : file'[p] \subseteq 0..edits'
    BY <1>1, <1>4, <1>6, IdleType
  <2>4. QED BY <1>1, <1>6, <2>2, <2>3, IdleType, PatchStepKeeps
<1>7. QED BY <1>5, <1>6 DEF PatchRead

LEMMA PatchTruncateKeeps ==
  ASSUME IInv, NEW c \in Clients, PatchTruncate(c)
  PROVE  IInv'
<1> DEFINE q == op[c].path
<1> DEFINE o == [op[c] EXCEPT !.pc = "torn"]
<1>1. /\ op[c].pc = "read" /\ op' = [op EXCEPT ![c] = o] /\ file' = [file EXCEPT ![q] = {}]
      /\ UNCHANGED <<state, held, edits, seen, faults, recorded>>
  BY DEF PatchTruncate
<1>2. /\ \A d \in Clients \ {c} : op[d].pc = "idle"
      /\ TypeOK /\ Numbered /\ op[c] \in Op /\ q \in Paths /\ op[c].text \subseteq 1..edits
  BY <1>1, Continues, OpFields
<1>3. o \in Op /\ o.pc = "torn" /\ o.path = q /\ o.text = op[c].text
  BY <1>2 DEF Op
<1> HIDE DEF o
<1>4. \A p \in Paths : Texts'[p] = Texts[p]
  <2>1. \A p \in Paths :
             /\ o.pc \in {"read", "torn", "patched"} /\ o.path = p => Texts'[p] = {o.text}
             /\ ~(o.pc \in {"read", "torn", "patched"} /\ o.path = p) => Texts'[p] = {}
    BY <1>1, <1>2, <1>3, Acted
  <2>2. \A p \in Paths : /\ Patching(c) /\ q = p => Texts[p] = {op[c].text}
                         /\ ~(Patching(c) /\ q = p) => Texts[p] = {}
    BY <1>2, TextsOf
  <2>3. Patching(c)
    BY <1>1 DEF Patching
  <2> HIDE DEF q
  <2>4. ASSUME NEW p \in Paths, p = q PROVE Texts'[p] = {op[c].text} /\ Texts[p] = {op[c].text}
    <3>1. Texts'[p] = {o.text}
      BY <1>3, <2>1, <2>4
    <3>2. Texts[p] = {op[c].text}
      BY <2>2, <2>3, <2>4
    <3>3. QED BY <1>3, <3>1, <3>2, Zenon
  <2>5. ASSUME NEW p \in Paths, p # q PROVE Texts'[p] = {} /\ Texts[p] = {}
    BY <1>3, <2>1, <2>2, <2>3, <2>5
  <2>6. QED BY <2>4, <2>5
<1>5. /\ file' \in [Paths -> Content] /\ edits \in Nat /\ edits \in 0..MaxEdits
      /\ \A p \in Paths : file'[p] = IF p = q THEN {} ELSE file[p]
  <2>1. file \in [Paths -> Content] /\ {} \in Content
    BY <1>2, Types DEF Content
  <2>2. QED BY <1>1, <1>2, <2>1, Types DEF TypeOK
<1>6. \A p \in Paths : file'[p] \subseteq 0..edits
  BY <1>2, <1>5 DEF Numbered
<1> HIDE DEF q
<1>7. ASSUME NEW p \in Paths, NEW A, A \notin {NoFile, {}}, Past(A, p, file, Texts)
      PROVE  Past(A, p, file', Texts')
  BY <1>4, <1>5, <1>7 DEF Past
<1>8. /\ edits' \in 0..MaxEdits /\ edits <= edits' /\ o.text \subseteq 1..edits'
      /\ \A p \in Paths : file'[p] \subseteq 0..edits'
  BY <1>1, <1>2, <1>3, <1>5, <1>6
<1>9. QED BY <1>1, <1>3, <1>5, <1>7, <1>8, PatchStepKeeps

LEMMA PatchWriteKeeps ==
  ASSUME IInv, NEW c \in Clients, PatchWrite(c)
  PROVE  IInv'
<1> DEFINE q == op[c].path
<1> DEFINE text == op[c].text
<1> DEFINE o == [op[c] EXCEPT !.pc = "patched"]
<1>1. /\ op[c].pc = "torn" /\ op' = [op EXCEPT ![c] = o] /\ file' = [file EXCEPT ![q] = text]
      /\ UNCHANGED <<state, held, edits, seen, faults, recorded>>
  BY DEF PatchWrite
<1>2. /\ \A d \in Clients \ {c} : op[d].pc = "idle"
      /\ TypeOK /\ Numbered /\ op[c] \in Op /\ q \in Paths
      /\ text \subseteq 1..edits /\ text \in Content
  BY <1>1, Continues, OpFields
<1>3. o \in Op /\ o.pc = "patched" /\ o.path = q /\ o.text = text
  BY <1>2 DEF Op
<1> HIDE DEF o
<1>4. \A p \in Paths : Texts'[p] = Texts[p] /\ (p = q => Texts[p] = {text})
  <2>1. \A p \in Paths :
             /\ o.pc \in {"read", "torn", "patched"} /\ o.path = p => Texts'[p] = {o.text}
             /\ ~(o.pc \in {"read", "torn", "patched"} /\ o.path = p) => Texts'[p] = {}
    BY <1>1, <1>2, <1>3, Acted
  <2>2. \A p \in Paths : /\ Patching(c) /\ q = p => Texts[p] = {text}
                         /\ ~(Patching(c) /\ q = p) => Texts[p] = {}
    BY <1>2, TextsOf
  <2>3. Patching(c)
    BY <1>1 DEF Patching
  <2> HIDE DEF q, text
  <2>4. ASSUME NEW p \in Paths, p = q PROVE Texts'[p] = {text} /\ Texts[p] = {text}
    <3>1. Texts'[p] = {o.text}
      BY <1>3, <2>1, <2>4
    <3>2. Texts[p] = {text}
      BY <2>2, <2>3, <2>4
    <3>3. QED BY <1>3, <3>1, <3>2, Zenon
  <2>5. ASSUME NEW p \in Paths, p # q PROVE Texts'[p] = {} /\ Texts[p] = {}
    BY <1>3, <2>1, <2>2, <2>3, <2>5
  <2>6. QED BY <2>4, <2>5
<1>5. /\ file' \in [Paths -> Content] /\ edits \in Nat /\ edits \in 0..MaxEdits
      /\ \A p \in Paths : file'[p] = IF p = q THEN text ELSE file[p]
  <2>1. file \in [Paths -> Content]
    BY <1>2, Types
  <2> HIDE DEF q, text
  <2>2. QED BY <1>1, <1>2, <2>1, Types DEF TypeOK
<1>6. \A p \in Paths : file'[p] \subseteq 0..edits
  BY <1>2, <1>5 DEF Numbered
<1> HIDE DEF q, text
<1>7. ASSUME NEW p \in Paths, NEW A, Past(A, p, file, Texts)
      PROVE  Past(A, p, file', Texts')
  BY <1>4, <1>5, <1>7 DEF Past
<1>8. /\ edits' \in 0..MaxEdits /\ edits <= edits' /\ o.text \subseteq 1..edits'
      /\ \A p \in Paths : file'[p] \subseteq 0..edits'
  BY <1>1, <1>2, <1>3, <1>5, <1>6
<1>9. QED BY <1>1, <1>3, <1>5, <1>7, <1>8, PatchStepKeeps

LEMMA PatchRecordKeeps ==
  ASSUME IInv, NEW c \in Clients, PatchRecord(c)
  PROVE  IInv'
<1> DEFINE q == op[c].path
<1> DEFINE text == op[c].text
<1> DEFINE n == Recorded(state, q, text)
<1>0. PICK kind \in {"record", "lost"} :
          /\ op' = [op EXCEPT ![c].pc = "save", ![c].kind = kind, ![c].st = n]
          /\ faults' = IF kind = "lost" THEN faults + 1 ELSE faults
  BY DEF PatchRecord
<1> DEFINE o == [op[c] EXCEPT !.pc = "save", !.kind = kind, !.st = n]
<1>1. /\ op[c].pc = "patched" /\ UNCHANGED <<file, state, held, edits, seen>>
      /\ faults' <= MaxFaults /\ recorded' = [recorded EXCEPT ![q] = @ \cup {text}]
  BY DEF PatchRecord
<1>2. /\ \A d \in Clients \ {c} : op[d].pc = "idle"
      /\ TypeOK /\ Numbered /\ Fits(state, held, seen, file, edits, Texts, recorded)
      /\ op[c] \in Op /\ q \in Paths /\ text \in Content /\ text \subseteq 1..edits
      /\ c \in Tasks => ~held[c].patched /\ ~held[c].verified
  BY <1>1, Continues, OpFields DEF Patching
<1>3. op' = [op EXCEPT ![c] = o]
  BY <1>0, <1>2 DEF TypeOK
<1>4. state \in State /\ Distinct(state) /\ edits \in Nat
  BY <1>2, Types
<1>5. n \in State
  BY <1>2, <1>4, RecordedShape
<1> HIDE DEF n
<1>6. /\ o \in Op /\ o.pc = "save" /\ o.kind = kind /\ o.path = q /\ o.text = text /\ o.st = n
  BY <1>2, <1>5 DEF Op, Kinds
<1> HIDE DEF o
<1>7. \A p \in Paths : Texts'[p] = {}
  BY <1>2, <1>3, <1>6, Acted
<1> HIDE DEF text, q
<1>13. /\ recorded \in [Paths -> SUBSET Content] /\ recorded' \in [Paths -> SUBSET Content]
       /\ text \in recorded'[q] /\ \A p \in Paths : recorded[p] \subseteq recorded'[p]
  BY <1>1, <1>2, Types
<1>8. Fits(state, held, seen, file, edits, Texts', recorded')
  <2>1. \A p \in Paths : \A A : Past(A, p, file, Texts) => Past(A, p, file, Texts')
    BY <1>7 DEF Past
  <2>2. edits <= edits
    BY <1>4
  <2>3. QED BY <1>2, <1>4, <1>13, <2>1, <2>2, FitsLater
<1>9. Fits(n, HeldAfter(o, c, held), SeenAfter(o, c, seen), file, edits, Texts', recorded')
  <2> DEFINE lost == kind = "lost"
  <2> DEFINE g == [u \in Tasks |-> IF u = c /\ ~lost THEN [held[u] EXCEPT !.rev = n.rev]
                                   ELSE [held[u] EXCEPT !.patched = TRUE]]
  <2> DEFINE r == [u \in Tasks |-> IF u = c /\ ~lost THEN [seen[u] EXCEPT ![q] = text] ELSE seen[u]]
  <2>4. held \in [Tasks -> Held] /\ seen \in [Tasks -> Hashes]
    BY <1>2, Types
  <2>1. HeldAfter(o, c, held) = g /\ SeenAfter(o, c, seen) = r
    <3>1. CASE kind = "record"
      BY <1>6, <2>4, <3>1 DEF HeldAfter, SeenAfter
    <3>2. CASE kind = "lost"
      BY <1>6, <2>4, <3>2 DEF HeldAfter, SeenAfter
    <3>3. QED BY <3>1, <3>2
  <2>2. text # NoFile /\ text \subseteq 0..edits
    BY <1>2, <1>4 DEF NoFile
  <2>3. n = Recorded(state, q, text)
    BY DEF n
  <2>5. /\ g = [u \in Tasks |-> IF u = c /\ ~lost THEN [held[u] EXCEPT !.rev = n.rev]
                                ELSE [held[u] EXCEPT !.patched = TRUE]]
        /\ r = [u \in Tasks |-> IF u = c /\ ~lost THEN [seen[u] EXCEPT ![q] = text] ELSE seen[u]]
        /\ lost \in BOOLEAN
    OBVIOUS
  <2> HIDE DEF g, r, lost
  <2>6. Fits(n, g, r, file, edits, Texts', recorded')
    BY <1>2, <1>4, <1>8, <1>13, <2>2, <2>3, <2>4, <2>5, RecordFits
  <2>7. QED BY <2>1, <2>6
<1>10. /\ recorded' \in [Paths -> SUBSET Content]
      /\ edits' \in 0..MaxEdits /\ faults' \in 0..MaxFaults /\ seen' \in [Tasks -> Hashes]
       /\ file' \in [Paths -> Content] /\ state' \in State /\ held' \in [Tasks -> Held]
  BY <1>0, <1>1, <1>2, <1>13, CoherenceAssumption DEF TypeOK
<1>11. /\ \A p \in Paths : file'[p] \subseteq 0..edits'
       /\ \A d \in Clients : op[d].text \subseteq 1..edits'
  BY <1>1, <1>2 DEF Numbered
<1>12. QED BY <1>1, <1>2, <1>3, <1>6, <1>8, <1>9, <1>10, <1>11, Keeps

(* While all are idle, a file that changes to what no token anchors.        *)
LEMMA OutsideKeeps ==
  ASSUME IInv, Overlap = FALSE, NEW q \in Paths, Outside(q)
  PROVE  IInv'
<1> DEFINE k == edits + 1
<1>1. /\ \A c \in Clients : op[c].pc = "idle"
      /\ UNCHANGED <<state, op, held, seen, faults, recorded>>
  BY DEF Outside
<1>2. /\ TypeOK /\ Numbered /\ Fits(state, held, seen, file, edits, Texts, recorded)
      /\ edits \in Nat /\ edits <= MaxEdits /\ MaxEdits \in Nat /\ file \in [Paths -> Content]
  BY Types DEF IInv, StateFits
<1>3. PICK x : /\ file' = [file EXCEPT ![q] = x]
               /\ \/ edits < MaxEdits /\ edits' = k /\ x = (file[q] \ NoFile) \cup {k}
                  \/ edits' = edits /\ x = NoFile
  BY DEF Outside
<1>4. /\ edits' \in Nat /\ edits <= edits' /\ edits' <= MaxEdits /\ 1..edits \subseteq 1..edits'
      /\ 0..edits \subseteq 0..edits'
  BY <1>2, <1>3
<1>5. x \in Content /\ x \subseteq 0..edits' /\ \A A \in SUBSET (0..edits) : A # NoFile => A # x
  <2>1. CASE edits < MaxEdits /\ edits' = k /\ x = (file[q] \ NoFile) \cup {k}
    <3>1. k \in 1..MaxEdits /\ k \in 0..edits' /\ k \notin 0..edits
      BY <1>2, <2>1
    <3>2. file[q] \subseteq 0..edits' /\ file[q] \ NoFile \subseteq 1..MaxEdits
      <4>1. file[q] \in SUBSET (1..MaxEdits) \/ file[q] = NoFile
        BY <1>2 DEF Content
      <4>2. file[q] \subseteq 0..edits
        BY <1>2 DEF Numbered
      <4>3. QED BY <1>4, <4>1, <4>2
    <3> HIDE DEF k
    <3>3. QED BY <2>1, <3>1, <3>2 DEF Content
  <2>2. CASE edits' = edits /\ x = NoFile
    BY <1>2, <2>2 DEF Content, NoFile
  <2>3. QED BY <1>3, <2>1, <2>2
<1>6. file' \in [Paths -> Content] /\ \A p \in Paths : file'[p] = IF p = q THEN x ELSE file[p]
  BY <1>2, <1>3, <1>5
<1>7. Texts' = Texts
  BY <1>1 DEF Texts, Patching
<1>8. ASSUME NEW p \in Paths, NEW A \in SUBSET (0..edits), A \notin {NoFile, {}}, Past(A, p, file, Texts)
      PROVE  Past(A, p, file', Texts')
  BY <1>5, <1>6, <1>7, <1>8 DEF Past
<1>9. Fits(state, held, seen, file', edits', Texts', recorded')
  <2>1. recorded' = recorded /\ \A p \in Paths : recorded[p] \subseteq recorded'[p]
    BY <1>1
  <2>2. QED BY <1>2, <1>4, <1>8, <2>1, FitsLater
<1>10. TypeOK'
  BY <1>1, <1>2, <1>4, <1>6 DEF TypeOK
<1>11. Numbered'
  BY <1>1, <1>2, <1>4, <1>5, <1>6 DEF Numbered
<1>12. StateFits' /\ Alone' /\ PendingFits' /\ PatchBased'
  <2>1. StateFits'
    BY <1>1, <1>9 DEF StateFits
  <2>2. Tasks \subseteq Clients
    BY DEF Clients
  <2>3. QED BY <1>1, <2>1, <2>2 DEF Alone, PendingFits, PatchBased, Saving, Patching
<1>13. QED BY <1>10, <1>11, <1>12 DEF IInv

(* A token that expires is worth no more than before.                       *)
Expired(st, i) ==
    [st EXCEPT !.tokens = [j \in DOMAIN st.tokens |->
        IF j = i THEN [st.tokens[j] EXCEPT !.expired = TRUE] ELSE st.tokens[j]]]

LEMMA ExpiredShape ==
  ASSUME NEW st \in State, NEW i, NEW n, n = Expired(st, i)
  PROVE  /\ n \in State
         /\ n.rev = st.rev /\ n.ver = st.ver /\ n.tracked = st.tracked
         /\ DOMAIN n.tokens = DOMAIN st.tokens
         /\ \A j \in DOMAIN st.tokens :
              /\ n.tokens[j].task = st.tokens[j].task /\ n.tokens[j].ver = st.tokens[j].ver
              /\ n.tokens[j].anchors = st.tokens[j].anchors
         /\ Distinct(st) => Distinct(n)
<1> DEFINE toks == [j \in DOMAIN st.tokens |->
                      IF j = i THEN [st.tokens[j] EXCEPT !.expired = TRUE] ELSE st.tokens[j]]
<1>1. \A j \in DOMAIN st.tokens :
        /\ toks[j] \in Token /\ toks[j].task = st.tokens[j].task /\ toks[j].ver = st.tokens[j].ver
        /\ toks[j].anchors = st.tokens[j].anchors
  <2> TAKE j \in DOMAIN st.tokens
  <2>1. st.tokens[j] \in Token
    BY TokenFacts
  <2>2. toks[j] = IF j = i THEN [st.tokens[j] EXCEPT !.expired = TRUE] ELSE st.tokens[j]
    OBVIOUS
  <2> HIDE DEF toks
  <2>3. QED BY <2>1, <2>2 DEF Token
<1>2. n = [rev |-> st.rev, ver |-> st.ver, tracked |-> st.tracked, tokens |-> toks]
  BY DEF Expired, State
<1>3. st.tracked \in Hashes /\ st.rev \in Nat /\ toks = [j \in DOMAIN st.tokens |-> toks[j]]
  BY DEF State
<1>4. /\ n \in State
      /\ n.rev = st.rev /\ n.ver = st.ver /\ n.tracked = st.tracked /\ n.tokens = toks
      /\ DOMAIN n.tokens = DOMAIN st.tokens
      /\ Distinct(st) => Distinct(n)
  <2>1. \A j \in DOMAIN st.tokens : toks[j] \in Token /\ toks[j].task = st.tokens[j].task
    BY <1>1
  <2> HIDE DEF toks
  <2>2. QED BY <1>2, <1>3, <2>1, ChangedTokens
<1>5. QED BY <1>1, <1>4

LEMMA ExpiredFits ==
  ASSUME NEW st \in State, NEW i, NEW n, n = Expired(st, i),
         NEW h, NEW s, NEW f, NEW e, NEW T, NEW G, Fits(st, h, s, f, e, T, G)
  PROVE  Fits(n, h, s, f, e, T, G) /\ \A t \in Tasks : TokenOf(n, t) = TokenOf(st, t)
<1>1. /\ n \in State /\ Distinct(st) /\ Distinct(n)
      /\ n.rev = st.rev /\ n.ver = st.ver /\ n.tracked = st.tracked
      /\ DOMAIN n.tokens = DOMAIN st.tokens
      /\ \A j \in DOMAIN st.tokens :
           /\ n.tokens[j].task = st.tokens[j].task /\ n.tokens[j].ver = st.tokens[j].ver
           /\ n.tokens[j].anchors = st.tokens[j].anchors
  BY ExpiredShape DEF Fits
<1>2. ASSUME NEW j \in DOMAIN n.tokens
      PROVE  TokenFits(n, j, h[n.tokens[j].task], s[n.tokens[j].task], f, e, T, G)
  <2>1. TokenFits(st, j, h[st.tokens[j].task], s[st.tokens[j].task], f, e, T, G)
    BY <1>1 DEF Fits
  <2>2. QED BY <1>1, <2>1 DEF TokenFits
<1>3. ASSUME NEW t \in Tasks
      PROVE  TokenOf(n, t) = TokenOf(st, t)
  <2>1. CASE \E j \in DOMAIN st.tokens : st.tokens[j].task = t
    <3>1. PICK j \in DOMAIN st.tokens : st.tokens[j].task = t
      BY <2>1
    <3>2. j \in DOMAIN n.tokens /\ n.tokens[j].task = t
      BY <1>1, <3>1
    <3>3. TokenOf(st, t) = j
      BY <1>1, <3>1, TokenOfIs
    <3>4. TokenOf(n, t) = j
      BY <1>1, <3>2, TokenOfIs
    <3>5. QED BY <3>3, <3>4
  <2>2. CASE ~ \E j \in DOMAIN st.tokens : st.tokens[j].task = t
    <3>1. ~ \E j \in DOMAIN n.tokens : n.tokens[j].task = t
      BY <1>1, <2>2
    <3>2. TokenOf(st, t) = Len(st.tokens) + 1 /\ TokenOf(n, t) = Len(n.tokens) + 1
      BY <2>2, <3>1 DEF TokenOf
    <3>3. /\ Len(st.tokens) \in Nat /\ DOMAIN st.tokens = 1 .. Len(st.tokens)
          /\ Len(n.tokens) \in Nat /\ DOMAIN n.tokens = 1 .. Len(n.tokens)
      BY <1>1, LenProperties DEF State
    <3>4. Len(st.tokens) = Len(n.tokens)
      BY <1>1, <3>3
    <3>5. QED BY <3>2, <3>4
  <2>3. QED BY <2>1, <2>2
<1>4. QED BY <1>1, <1>2, <1>3 DEF Fits

LEMMA SameHeld ==
  ASSUME NEW o, NEW x, NEW c, NEW h, o.kind = x.kind, x.kind \in Kinds, o.passed = x.passed,
         o.st.rev = x.st.rev, c \in Tasks => TokenOf(o.st, c) = TokenOf(x.st, c)
  PROVE  HeldAfter(o, c, h) = HeldAfter(x, c, h)
<1> DEFINE idO == TokenOf(o.st, c)
<1> DEFINE idX == TokenOf(x.st, c)
<1> DEFINE revO == o.st.rev
<1> DEFINE revX == x.st.rev
<1> DEFINE after(kind, passed, id, rev, t) ==
             CASE kind = "issue" -> IF t = c THEN [Nothing EXCEPT !.id = id, !.rev = rev] ELSE h[t]
               [] kind = "refresh" -> [h[t] EXCEPT !.verified = FALSE]
               [] kind = "track" -> h[t]
               [] kind = "verify" -> [h[t] EXCEPT !.verified = h[t].verified \/ passed]
               [] kind = "record" -> IF t = c THEN [h[t] EXCEPT !.rev = rev]
                                     ELSE [h[t] EXCEPT !.patched = TRUE]
               [] kind = "lost" -> [h[t] EXCEPT !.patched = TRUE]
<1>1. ASSUME NEW t \in Tasks
      PROVE  after(o.kind, o.passed, idO, revO, t) = after(x.kind, x.passed, idX, revX, t)
  <2>1. CASE t = c
    <3>1. idO = idX /\ revO = revX
      BY <2>1
    <3> HIDE DEF idO, idX, revO, revX, after
    <3>2. QED BY <3>1, Zenon
  <2>2. CASE t # c
    <3>1. revO = revX
      OBVIOUS
    <3>2. \A id : after(x.kind, x.passed, id, revX, t) = after(x.kind, x.passed, idX, revX, t)
      <4> HIDE DEF idX, revX
      <4>1. QED BY <2>2 DEF Kinds
    <3>3. after(o.kind, o.passed, idO, revO, t) = after(x.kind, x.passed, idO, revX, t)
      <4> HIDE DEF idO, idX, revO, revX, after
      <4>1. QED BY <3>1, Zenon
    <3> HIDE DEF idO, idX, revO, revX, after
    <3>4. QED BY <3>2, <3>3, Zenon
  <2>3. QED BY <2>1, <2>2
<1>2. /\ HeldAfter(o, c, h) = [t \in Tasks |-> after(o.kind, o.passed, idO, revO, t)]
      /\ HeldAfter(x, c, h) = [t \in Tasks |-> after(x.kind, x.passed, idX, revX, t)]
  BY DEF HeldAfter
<1> HIDE DEF after, idO, idX, revO, revX
<1>3. QED BY <1>1, <1>2

LEMMA ExpireKeeps ==
  ASSUME IInv, NEW i \in DOMAIN state.tokens, Expire(i)
  PROVE  IInv'
<1>1. /\ faults < MaxFaults /\ faults' = faults + 1
      /\ state' = Expired(state, i)
      /\ op' = [c \in Clients |-> [op[c] EXCEPT !.st = Expired(op[c].st, i)]]
      /\ UNCHANGED <<file, held, edits, seen, recorded>>
  BY DEF Expire, Expired
<1>2. /\ TypeOK /\ Numbered /\ Fits(state, held, seen, file, edits, Texts, recorded)
      /\ state \in State /\ op \in [Clients -> Op]
      /\ Tasks \subseteq Clients
  BY Types DEF IInv, StateFits
<1>3. ASSUME NEW c \in Clients
      PROVE  /\ op'[c] \in Op /\ op'[c].pc = op[c].pc /\ op'[c].kind = op[c].kind
             /\ op'[c].path = op[c].path /\ op'[c].text = op[c].text /\ op'[c].passed = op[c].passed
             /\ op'[c].st = Expired(op[c].st, i) /\ op[c].st \in State
  <2> DEFINE o == op[c]
  <2> DEFINE n == Expired(op[c].st, i)
  <2>1. o \in Op /\ o.st \in State
    BY <1>2, OpFields
  <2>2. n \in State
    BY <2>1, ExpiredShape
  <2>3. op'[c] = [o EXCEPT !.st = n]
    BY <1>1
  <2> HIDE DEF o, n
  <2>4. /\ op'[c] \in Op /\ op'[c].pc = o.pc /\ op'[c].kind = o.kind /\ op'[c].path = o.path
        /\ op'[c].text = o.text /\ op'[c].passed = o.passed /\ op'[c].st = n
    BY <2>1, <2>2, <2>3 DEF Op
  <2>5. QED BY <2>1, <2>4 DEF o, n
<1>4. Texts' = Texts
  BY <1>3 DEF Texts, Patching
<1>5. Fits(state', held', seen', file', edits', Texts', recorded') /\ state' \in State
  BY <1>1, <1>2, <1>4, ExpiredFits, ExpiredShape
<1>6. StateFits'
  BY <1>5 DEF StateFits
<1>7. TypeOK'
  <2>1. op' \in [Clients -> Op]
    BY <1>1, <1>3
  <2>2. faults' \in 0..MaxFaults
    BY <1>1, <1>2, CoherenceAssumption DEF TypeOK
  <2>3. Distinct(state')
    BY <1>5 DEF Fits
  <2>4. QED BY <1>1, <1>2, <1>5, <2>1, <2>2, <2>3 DEF TypeOK, Distinct
<1>8. Numbered'
  BY <1>1, <1>2, <1>3 DEF Numbered
<1>9. ASSUME NEW c \in Clients, Saving(c)'
      PROVE  Fits(op'[c].st, HeldAfter(op'[c], c, held'), SeenAfter(op'[c], c, seen'), file', edits', Texts', recorded')
  <2> DEFINE st == op[c].st
  <2> DEFINE n == op'[c].st
  <2>1. Saving(c)
    BY <1>3, <1>9 DEF Saving
  <2>2. Fits(st, HeldAfter(op[c], c, held), SeenAfter(op[c], c, seen), file, edits, Texts, recorded)
    BY <2>1 DEF IInv, PendingFits
  <2>3. st \in State /\ n = Expired(st, i)
    BY <1>3
  <2> HIDE DEF n, st
  <2> DEFINE h == HeldAfter(op[c], c, held)
  <2> DEFINE s == SeenAfter(op[c], c, seen)
  <2>4. /\ Fits(n, h, s, file, edits, Texts, recorded)
        /\ \A t \in Tasks : TokenOf(n, t) = TokenOf(st, t)
        /\ n.rev = st.rev
    <3> HIDE DEF h, s
    <3>1. Fits(st, h, s, file, edits, Texts, recorded)
      BY <2>2 DEF h, s
    <3>2. QED BY <2>3, <3>1, ExpiredFits, ExpiredShape
  <2>5. HeldAfter(op'[c], c, held) = HeldAfter(op[c], c, held)
    <3> DEFINE o == op'[c]
    <3> DEFINE x == op[c]
    <3>1. /\ o.kind = x.kind /\ x.kind \in Kinds /\ o.passed = x.passed /\ o.st.rev = x.st.rev
          /\ c \in Tasks => TokenOf(o.st, c) = TokenOf(x.st, c)
      BY <1>2, <1>3, <2>4, OpFields DEF n, st
    <3> HIDE DEF o, x
    <3>2. HeldAfter(o, c, held) = HeldAfter(x, c, held)
      BY <3>1, SameHeld
    <3>3. QED BY <3>2 DEF o, x
  <2>6. SeenAfter(op'[c], c, seen) = SeenAfter(op[c], c, seen)
    BY <1>3 DEF SeenAfter
  <2>7. QED BY <1>1, <1>4, <2>4, <2>5, <2>6 DEF n
<1>10. PendingFits' /\ Alone' /\ PatchBased'
  <2>1. PendingFits'
    BY <1>9 DEF PendingFits
  <2>2. Alone'
    BY <1>3 DEF Alone, IInv
  <2>3. PatchBased'
    BY <1>1, <1>2, <1>3 DEF PatchBased, IInv, Patching
  <2>4. QED BY <2>1, <2>2, <2>3
<1>11. QED BY <1>6, <1>7, <1>8, <1>10 DEF IInv

(* A process that takes the place of another holds no token.                *)
LEMMA CrashKeeps ==
  ASSUME IInv, NEW c \in Clients, Crash(c)
  PROVE  IInv'
<1>1. /\ op[c].pc # "idle" /\ faults < MaxFaults /\ faults' = faults + 1
      /\ op' = [op EXCEPT ![c] = Idle]
      /\ UNCHANGED <<file, state, edits, recorded>>
      /\ c \in Tasks => /\ held' = [held EXCEPT ![c] = Nothing]
                        /\ seen' = [seen EXCEPT ![c] = Default.tracked]
      /\ c \notin Tasks => held' = held /\ seen' = seen
  BY DEF Crash
<1>2. /\ \A d \in Clients \ {c} : op[d].pc = "idle"
      /\ TypeOK /\ Numbered /\ Fits(state, held, seen, file, edits, Texts, recorded)
      /\ held \in [Tasks -> Held] /\ seen \in [Tasks -> Hashes] /\ edits \in Nat /\ state \in State
  BY <1>1, Continues, Types
<1>3. \A p \in Paths : Texts'[p] = {}
  BY <1>1, <1>2, IdleType, Acted
<1>4. Nothing \in Held /\ Nothing.id = 0 /\ Default.tracked \in Hashes
  BY DefaultType DEF Nothing, Held
<1>5. /\ held' \in [Tasks -> Held] /\ seen' \in [Tasks -> Hashes]
      /\ \A t \in Tasks : t # c => held'[t] = held[t] /\ seen'[t] = seen[t]
      /\ c \in Tasks => held'[c] = Nothing
  BY <1>1, <1>2, <1>4
<1>6. Fits(state, held, seen, file, edits, Texts', recorded')
  <2>1. \A p \in Paths : \A A : Past(A, p, file, Texts) => Past(A, p, file, Texts')
    BY <1>3 DEF Past
  <2>2. edits <= edits /\ recorded' = recorded
        /\ \A p \in Paths : recorded[p] \subseteq recorded'[p]
    BY <1>1, <1>2
  <2>3. QED BY <1>2, <2>1, <2>2, FitsLater
<1>7. ASSUME NEW i \in DOMAIN state.tokens
      PROVE  TokenFits(state, i, held'[state.tokens[i].task], seen'[state.tokens[i].task],
                       file, edits, Texts', recorded')
  <2> DEFINE u == state.tokens[i].task
  <2>1. u \in Tasks /\ i \in Nat \ {0}
    BY <1>2, TokenFacts
  <2>2. TokenFits(state, i, held[u], seen[u], file, edits, Texts', recorded')
    BY <1>6 DEF Fits
  <2> HIDE DEF u
  <2>3. CASE u # c
    BY <1>5, <2>1, <2>2, <2>3 DEF u
  <2>4. CASE u = c
    <3>1. held'[u].id = 0
      BY <1>4, <1>5, <2>1, <2>4
    <3>2. TokenFits(state, i, held'[u], seen'[u], file, edits, Texts', recorded')
      BY <2>1, <2>2, <3>1 DEF TokenFits
    <3>3. QED BY <3>2 DEF u
  <2>5. QED BY <2>3, <2>4
<1>8. Fits(state', held', seen', file', edits', Texts', recorded')
  BY <1>1, <1>6, <1>7 DEF Fits
<1>9. /\ recorded' \in [Paths -> SUBSET Content]
      /\ edits' \in 0..MaxEdits /\ faults' \in 0..MaxFaults
      /\ file' \in [Paths -> Content] /\ state' \in State
  BY <1>1, <1>2, CoherenceAssumption DEF TypeOK
<1>10. /\ \A p \in Paths : file'[p] \subseteq 0..edits'
       /\ \A d \in Clients : op[d].text \subseteq 1..edits'
  BY <1>1, <1>2 DEF Numbered
<1>11. QED BY <1>1, <1>2, <1>5, <1>8, <1>9, <1>10, IdleType, Keeps

LEMMA InitIInv == Init => IInv
<1> SUFFICES ASSUME Init PROVE IInv
  OBVIOUS
<1>1. /\ Default \in State /\ DOMAIN Default.tokens = {} /\ Default.tracked \in Hashes
      /\ Idle \in Op /\ Idle.pc = "idle" /\ Idle.text = {}
  BY DefaultType, IdleType
<1>2. /\ MaxEdits \in Nat /\ MaxEdits > 0 /\ MaxFaults \in Nat
  BY CoherenceAssumption
<1>3. Nothing \in Held /\ NoFile \in Content /\ {1} \in Content /\ {1} \subseteq 0..1
  BY <1>2 DEF Nothing, Held, NoFile, Content
<1>4. /\ file = [p \in Paths |-> {1}] /\ state = Default /\ op = [c \in Clients |-> Idle]
      /\ held = [t \in Tasks |-> Nothing] /\ edits = 1 /\ faults = 0
      /\ seen = [t \in Tasks |-> [p \in Paths |-> NoFile]]
  BY DEF Init
<1>5. file \in [Paths -> Content] /\ op \in [Clients -> Op] /\ held \in [Tasks -> Held]
  BY <1>1, <1>3, <1>4
<1>6. seen \in [Tasks -> Hashes]
  <2>1. [p \in Paths |-> NoFile] \in Hashes
    BY <1>3 DEF Hashes
  <2>2. QED BY <1>4, <2>1
<1>7. edits \in 0..MaxEdits /\ faults \in 0..MaxFaults
  BY <1>2, <1>4
<1>8. TypeOK
  <2>1. recorded = [p \in Paths |-> {}]
    BY DEF Init
  <2>2. QED BY <1>1, <1>4, <1>5, <1>6, <1>7, <2>1 DEF TypeOK
<1>9. \A c \in Clients : op[c].pc = "idle" /\ op[c].text = {}
  BY <1>1, <1>4
<1>10. Numbered
  BY <1>3, <1>4, <1>9 DEF Numbered
<1>11. StateFits
  BY <1>4, DefaultFits DEF StateFits
<1>12. Alone /\ PendingFits /\ PatchBased
  <2>1. Tasks \subseteq Clients
    BY DEF Clients
  <2>2. QED BY <1>9, <2>1 DEF Alone, PendingFits, PatchBased, Saving, Patching
<1>13. QED BY <1>8, <1>10, <1>11, <1>12 DEF IInv

LEMMA NextIInv == ASSUME Overlap = FALSE, IInv, [Next]_vars PROVE IInv'
<1>1. ASSUME NEW c \in Clients, ClientStep(c) PROVE IInv'
  <2>1. CASE \E P \in SUBSET Paths : Refresh(c, P)
    BY <2>1, RefreshKeeps
  <2>2. CASE \E passed \in BOOLEAN : Verify(c, passed)
    BY <2>2, VerifyKeeps
  <2>3. CASE Truncate(c)
    BY <2>3, TruncateKeeps
  <2>4. CASE ReturnRefresh(c) \/ ReturnVerify(c) \/ ReturnPatch(c) \/ AnswerLost(c)
    BY <2>4, ReturnsKeep
  <2>5. CASE \E p \in Paths : PatchCheck(c, p)
    BY <2>5, PatchCheckKeeps
  <2>6. CASE PatchRead(c)
    BY <2>6, PatchReadKeeps
  <2>7. CASE PatchTruncate(c)
    BY <2>7, PatchTruncateKeeps
  <2>8. CASE PatchWrite(c)
    BY <2>8, PatchWriteKeeps
  <2>9. CASE PatchRecord(c)
    BY <2>9, PatchRecordKeeps
  <2>10. CASE Crash(c)
    BY <2>10, CrashKeeps
  <2>11. QED BY <1>1, <2>1, <2>2, <2>3, <2>4, <2>5, <2>6, <2>7, <2>8, <2>9, <2>10 DEF ClientStep
<1>2. ASSUME NEW t \in Tasks, TaskStep(t) PROVE IInv'
  <2>1. CASE \E P \in SUBSET Paths : Issue(t, P)
    BY <2>1, IssueKeeps
  <2>2. CASE \E p \in Paths : ReadFile(t, p)
    BY <2>2, ReadFileKeeps
  <2>3. CASE ReturnIssue(t) \/ ReturnTrack(t)
    BY <2>3, ReturnsKeep DEF Clients
  <2>4. CASE \E p \in Paths : Refused(t, p)
    BY <2>4, ShownKeeps DEF Refused
  <2>5. CASE Status(t)
    BY <2>5, ShownKeeps DEF Status
  <2>6. QED BY <1>2, <2>1, <2>2, <2>3, <2>4, <2>5 DEF TaskStep
<1>3. ASSUME NEW p \in Paths, Outside(p) PROVE IInv'
  BY <1>3, OutsideKeeps
<1>4. ASSUME NEW i \in DOMAIN state.tokens, Expire(i) PROVE IInv'
  BY <1>4, ExpireKeeps
<1>5. CASE UNCHANGED vars
  <2>1. UNCHANGED <<file, state, op, held, faults, edits, seen, recorded>>
    BY <1>5 DEF vars
  <2>2. Texts' = Texts
    BY <2>1 DEF Texts, Patching
  <2>3. TypeOK' /\ Alone' /\ Numbered' /\ PatchBased'
    BY <2>1 DEF IInv, TypeOK, Alone, Numbered, PatchBased, Patching
  <2>4. StateFits'
    BY <2>1, <2>2 DEF IInv, StateFits
  <2>5. PendingFits'
    BY <2>1, <2>2 DEF IInv, PendingFits, Saving
  <2>6. QED BY <2>3, <2>4, <2>5 DEF IInv
<1>6. QED BY <1>1, <1>2, <1>3, <1>4, <1>5 DEF Next

LEMMA Invariance == ASSUME Overlap = FALSE PROVE Spec => []IInv
BY InitIInv, NextIInv, PTL DEF Spec

LEMMA FreshIfFits ==
  ASSUME IInv, NEW t \in Tasks, Valid(t), NEW p \in Paths,
         state.tokens[held[t].id].anchors[p] # NoFile
  PROVE  file[p] \in {NoFile, {}, seen[t][p]} \/ (held[t].shown /\ file[p] \in recorded[p])
<1> DEFINE i == held[t].id
<1> DEFINE A == state.tokens[i].anchors[p]
<1>1. ~held[t].patched /\ TokenFits(state, i, held[t], seen[t], file, edits, Texts, recorded)
  BY ValidIsBased DEF IInv, StateFits
<1>2. A \in {NoFile, {}, seen[t][p]} \/ (held[t].shown /\ A \in recorded[p]) \/ A # file[p]
  BY <1>1 DEF TokenFits, Past
<1>3. Changed(state.tokens[i].anchors) = {}
  BY DEF Valid
<1>4. file[p] = NoFile \/ A = file[p]
  BY <1>3 DEF Changed
<1>5. QED BY <1>2, <1>4

(* While operations do not overlap, a patch that _validate_coherence would  *)
(* let through finds each anchored file as its task observed it last, or    *)
(* gone or empty, or, if a refusal or a status showed the task the          *)
(* revision, as a patch recorded it: for any number of tasks, clients,      *)
(* files, edits, crashes, lost answers and expiries.                        *)
THEOREM AnchorsStayFresh == ASSUME Overlap = FALSE PROVE Spec => []AnchorsFresh
<1>1. IInv => AnchorsFresh
  BY FreshIfFits DEF AnchorsFresh
<1>2. QED BY <1>1, Invariance, PTL

(* ... and it was let through on the last revision, with no patch of        *)
(* another task and no passing verify since: what a retried or overtaken    *)
(* request presents is refused.                                             *)
THEOREM NothingOvertakes == ASSUME Overlap = FALSE PROVE Spec => []NothingSince
<1>1. IInv => NothingSince
  BY ValidIsBased DEF NothingSince, IInv, StateFits
<1>2. QED BY <1>1, Invariance, PTL
=============================================================================

------------------------------- MODULE MCSpider -------------------------------
EXTENDS Spider, TLC

CONSTANTS a, ai, b, s, x, a1, a2, i1, b1, b2

MCFiles == {a, ai, b}
MCCandidates == [p \in {s} |-> <<a, ai>>]
MCTextsOf == [f \in MCFiles |-> IF f = a THEN {a1, a2} ELSE IF f = ai THEN {i1} ELSE {b1, b2}]
\* The import of the third file means the one or the other of the two others at first.
MCStarts == {a :> a1 @@ ai :> NoFile @@ b :> b1, a :> NoFile @@ ai :> i1 @@ b :> b1}
MCImports == [t \in {a1, a2, i1, b1, b2} |-> IF t = b1 THEN {<<s, x>>} ELSE {}]
MCExports == [t \in {a1, a2, i1, b1, b2} |-> IF t \in {a1, i1} THEN {x} ELSE {}]
MCLine == [l \in {a1, a2, i1, b1, b2} \X {s} |-> 1]
=============================================================================
